SPECIFICATION Spec
CONSTANTS
  Address = {a1}
  KeyId = {k1}
  WindowMs = 1
  MaxRequests = 4
  KeyWindowMs = 2
  KeyLimit = 2
  MaxNow = 4
  Slot = {r1}
  MaxCalls <- CallsIn
  ClockEnd <- ClockIn
  MaxRestarts = 0
  Focus = {{"key", "time"}}
  User = {u1}
  Business = {b1}
  Staff = {}
  MemberId = {m1}
  HookId = {h1}
  Null = Null
  Invoice = {i1}
  ChargeId = {1}
  Amount = {1}
  IdemKey = {x1}
  KeepMs = 1
INVARIANT
  KeyRateIsKept
CHECK_DEADLOCK FALSE
