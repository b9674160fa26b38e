SPECIFICATION FairSpec
CONSTANTS
  Address = {a1, a2}
  KeyId = {k1}
  WindowMs = 1
  MaxRequests = 2
  KeyWindowMs = 2
  KeyLimit = 2
  MaxNow = 4
  Slot = {r1, r2}
  MaxCalls <- CallsIn
  ClockEnd <- ClockIn
  MaxRestarts = 0
  Focus = {{"charge"}}
  User = {u1}
  Business = {b1}
  Staff = {}
  MemberId = {m1}
  HookId = {h1}
  Null = Null
  Invoice = {i1}
  ChargeId = {1, 2}
  Amount = {1}
  IdemKey = {x1}
  KeepMs = 1
PROPERTY
  EveryRequestIsAnswered
CHECK_DEADLOCK FALSE
