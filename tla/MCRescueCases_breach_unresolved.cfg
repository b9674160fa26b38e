SPECIFICATION Spec
CONSTANTS
  Case = {c1, c2}
  Transaction = {t1, t2}
  Note = {}
  Null = Null
  MaxRequests = 4
  CaseRequest = {r1, r2}
  RequestedStatus = {"PENDING", "PARTIALLY_RESOLVED", "CLOSED"}
  Complaint = {k1}
  ComplaintRequest = {p1}
  Evidence = {e1}
  EvidenceRequest = {u1}
  StorageDriver = "s3"
  Scanner = {s1, s2}
  MaxFailures = 1
PROPERTY
  BreachMeansUnresolved
