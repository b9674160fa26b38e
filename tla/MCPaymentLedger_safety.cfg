SPECIFICATION Spec
CONSTANTS
  Transaction = {t1, t2}
  Business = {b1}
  ReferenceKey = {k1, k2}
  Spelling = {plain, other}
  LedgerAmount = {0, 20}
  RoundsDown = {20}
  InitialStatus = {"PENDING", "SUCCESS"}
  NewStatus = {"SUCCESS", "REVERSED"}
  StatusCall = {u1, u2}
  Null = Null
  MaxCalls = 4
  PaymentRequest = {p1}
  ClaimedAmount = {25}
  VerifyCall = {v1, v2}
  BatchAmount = {0, 30}
  MaxBatch = 1
  BatchCall = {c1}
SYMMETRY IdSymmetry
INVARIANTS
  TypeOK
  LogEndsInStatus
  PreviousStatusesWereHeld
  ConfirmedWasSettled
  FulfilledWasConfirmed
  JobsAgreeWithLedger
  CallsRememberHistory
PROPERTY
  AnswersAreComplete
CHECK_DEADLOCK FALSE
