---------------------------- MODULE EvidenceService ----------------------------
(***************************************************************************)
(* EvidenceService.uploadEvidence: check the file, read the case, scan,    *)
(* hand the buffer to the storage driver, then commit the Evidence row and *)
(* a timeline record that leaves the case's status alone.  A file that the *)
(* checks or the scanner refuse changes nothing and is not modelled.       *)
(***************************************************************************)
EXTENDS CaseStore

CONSTANTS
  Evidence,         \* ids of the Evidence rows that may be created
  EvidenceRequest,  \* uploads the service may be handling at the same time
  StorageDriver     \* STORAGE_DRIVER: "local", "s3" or "cloudinary"

ASSUME StorageDriverAssumption == StorageDriver \in {"local", "s3", "cloudinary"}

VARIABLES
  evidenceCase,    \* Evidence.caseId; Null while the row does not exist
  evidenceRequest  \* the upload in each slot

evidenceVars == <<evidenceCase, evidenceRequest>>

IdleUpload == [op |-> "idle"]

Upload == [op : {"scan", "stored"}, case : Case]

EvidenceTypeOK ==
  /\ evidenceCase \in [Evidence -> Case \cup {Null}]
  /\ evidenceRequest \in [EvidenceRequest -> {IdleUpload} \cup Upload]

EvidenceInit ==
  /\ evidenceCase    = [e \in Evidence |-> Null]
  /\ evidenceRequest = [r \in EvidenceRequest |-> IdleUpload]

UploadReply(r) == evidenceRequest' = [evidenceRequest EXCEPT ![r] = IdleUpload]

ReadForUpload(r, c) ==
  /\ evidenceRequest[r].op = "idle"
  /\ Filed(c)
  /\ Receive
  /\ evidenceRequest' = [evidenceRequest EXCEPT ![r] = [op |-> "scan", case |-> c]]
  /\ UNCHANGED <<rescueCase, timeline, caseEvents, evidenceCase>>

\* The s3 and cloudinary drivers answer with a URL.  The local driver writes to
\* <dir>/evidence/<caseId>/, a directory nothing creates: writeFileSync throws
\* and the upload fails.
UploadFile(r) ==
  /\ evidenceRequest[r].op = "scan"
  /\ StorageDriver # "local"
  /\ evidenceRequest' = [evidenceRequest EXCEPT ![r].op = "stored"]
  /\ UNCHANGED <<storeVars, evidenceCase>>

CommitEvidence(r, e) ==
  LET c == evidenceRequest[r].case IN
  /\ evidenceRequest[r].op = "stored"
  /\ evidenceCase[e] = Null
  /\ evidenceCase' = [evidenceCase EXCEPT ![e] = c]
  /\ AppendTimeline(c, Entry("EVIDENCE_UPLOADED"))
  /\ UploadReply(r)
  /\ UNCHANGED <<rescueCase, caseEvents, requests>>

UploadFails(r) ==
  /\ evidenceRequest[r].op # "idle"
  /\ UploadReply(r)
  /\ UNCHANGED <<storeVars, evidenceCase>>

EvidenceNext ==
  \E r \in EvidenceRequest :
    \/ \E c \in Case : ReadForUpload(r, c)
    \/ UploadFile(r)
    \/ \E e \in Evidence : CommitEvidence(r, e)
    \/ UploadFails(r)
=============================================================================
