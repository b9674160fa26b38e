SPECIFICATION Spec
CONSTANTS
  User = {ada, bisi, chi}
  SuperAdmin = {chi}
  Owner = {bisi}
  Agent = {}
  Business = {b1, b2}
  CaseOwner = ada
  Null = Null
  MaxVersion = 1
  MaxSignIns = 2
  MaxLoads = 1
  MaxActions = 2
  Focus = {{"wizard", "dashboard", ada, "FAILED_TRANSFER", "CRYPTO_P2P_SCAM", "NIP_TRANSFER", "DISCO_ELECTRICITY", "error"}}
PROPERTY
  WizardFilesCases
