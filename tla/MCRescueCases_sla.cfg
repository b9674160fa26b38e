SPECIFICATION CronSpec
CONSTANTS
  Case = {c1, c2}
  Transaction = {t1}
  Note = {}
  Null = Null
  MaxRequests = 4
  CaseRequest = {r1}
  RequestedStatus = {"PENDING"}
  Complaint = {}
  ComplaintRequest = {}
  Evidence = {}
  EvidenceRequest = {}
  StorageDriver = "s3"
  Scanner = {s1, s2}
  MaxFailures = 1
PROPERTIES
  OverdueCasesMoveOn
  BreachesAreTold
