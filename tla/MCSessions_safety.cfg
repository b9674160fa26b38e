SPECIFICATION Spec
CONSTANTS
  User = {u1}
  Admin = {u1}
  Password = {p1, p2}
  SessionId = {s1, s2, s3}
  Null = Null
  MaxNow = 2
  AccessLifetime = 1
  RefreshLifetime = 2
  ResetLifetime = 1
  MaxResets = 1
  Client = {c1, c2}
  Slot = {r1, r2}
  NewStatus = {"ACTIVE", "SUSPENDED"}
  MaxCalls = 5
SYMMETRY IdSymmetry
INVARIANTS
  TypeOK
  JarIsCurrent
  LogoutSticks
  AnsweredResetsClosed
  AuditTellsStatus
PROPERTY
  ImplementsGrants
CHECK_DEADLOCK FALSE
