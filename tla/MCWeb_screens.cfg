SPECIFICATION Spec
CONSTANTS
  User = {ada, bisi, chi}
  SuperAdmin = {chi}
  Owner = {bisi}
  Agent = {}
  Business = {b1, b2}
  CaseOwner = ada
  Null = Null
  MaxVersion = 1
  MaxSignIns = 2
  MaxLoads = 1
  MaxActions = 2
  Focus = {{"wizard", "dashboard", ada, "FAILED_TRANSFER", "CRYPTO_P2P_SCAM", "NIP_TRANSFER", "DISCO_ELECTRICITY", "error"}, {"case", "complaint", ada, "case-detail", "case-complaint", "escalate", "attach", "error"}, {"case", "complaint", "cases", "cases-list", chi, "case-detail", "updateStatus", "time", "refresh"}, {"dashboard", "consumer-analytics", ada, bisi, "signin", "time"}, {"login", "dashboard", ada, chi, "signin", "reload", "error"}, {"developer", "profile", "developer-keys", bisi, "createKey", "switch"}, {"register", "status", "profile", ada, "signin", "time"}, {"evidence", "profile", ada, "store", "error"}, {"business", "settings", bisi, "business-overview", "admin-settings", "flag", "switch"}, {"landing", "requests", bisi, "pricing", "contact", "paymentRequest", "error"}, {"users", "admin", chi, "admin-users", "userStatus", "reload", "time"}, {"billing", "verify", bisi, "subscribe", "verifyPayment"}, {"reconciliation", "transactions", bisi, "transactions-ledger", "csv", "manual", "refresh"}, {"developer", "team", bisi, "developer-keys", "revokeKey", "createWebhook", "testWebhook"}, {"case", "audit", chi, "case-detail", "admin-audit-logs", "ocr", "refresh"}}
INVARIANTS
  TypeOK
  SessionIsOwn
  ShowsOwnChanges
  LeftoversAreFresh
PROPERTY
  ScreensSettle
CHECK_DEADLOCK FALSE
