SPECIFICATION Spec
CONSTANTS
  Transaction = {t1}
  Business = {b1}
  ReferenceKey = {k1}
  Spelling = {plain}
  LedgerAmount = {20}
  RoundsDown = {20}
  InitialStatus = {"PENDING", "SUCCESS"}
  NewStatus = {"SUCCESS", "REVERSED"}
  StatusCall = {u1}
  Null = Null
  MaxCalls = 4
  PaymentRequest = {p1}
  ClaimedAmount = {25}
  VerifyCall = {v1}
  BatchAmount = {30}
  MaxBatch = 1
  BatchCall = {c1}
PROPERTY
  ConfirmedIsSettled
CHECK_DEADLOCK FALSE
