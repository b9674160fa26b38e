SPECIFICATION Spec
CONSTANTS
  Address = {a1, a2}
  KeyId = {k1}
  WindowMs = 1
  MaxRequests = 1
  KeyWindowMs = 1
  KeyLimit = 2
  MaxNow = 4
  Slot = {r1, r2}
  MaxCalls <- CallsIn
  ClockEnd <- ClockIn
  MaxRestarts = 1
  Focus = {{"tenant", "key"}, {"charge", "fault"}, {"key", "time"}, {"key", "fault"}, {"repeat", "time"}, {"repeat", "fault"}}
  User = {u1, u2}
  Business = {b1, b2}
  Staff = {}
  MemberId = {m1, m2, m3}
  HookId = {h1}
  Null = Null
  Invoice = {i1}
  ChargeId = {1, 2}
  Amount = {1, 2}
  IdemKey = {x1}
  KeepMs = 1
SYMMETRY IdSymmetry
INVARIANTS
  TypeOK
  PassesAreSpread
  RevokedKeysStop
  PaidOnce
  OncePerWindow
PROPERTY
  TenantsKeepToThemselves
CHECK_DEADLOCK FALSE
