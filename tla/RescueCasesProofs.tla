--------------------------- MODULE RescueCasesProofs ---------------------------
(***************************************************************************)
(* Proofs about RescueCases for every set of cases, requests, scanners,    *)
(* complaints and evidence and for every bound.                            *)
(***************************************************************************)
EXTENDS RescueCases, TLAPS

USE DEF Level, SlaDeadline

\* Every entry a handler writes is a timeline record.
LEMMA EntryTyped ==
  /\ \A t \in PlainEventType : Entry(t) \in TimelineEntry
  /\ \A s \in CaseStatus : StatusEntry(s) \in TimelineEntry
BY DEF TimelineEntry

\* The status an entry announces is a case status or Null.
LEMMA StatusAfterTyped ==
  ASSUME NEW e \in TimelineEntry
  PROVE  StatusAfter(e) \in CaseStatus \cup {Null}
<1>1. CASE \E t \in PlainEventType : e = Entry(t)
  BY <1>1 DEF Entry, PlainEventType, StatusAfter, CaseStatus
<1>2. CASE \E s \in CaseStatus : e = StatusEntry(s)
  BY <1>2 DEF StatusEntry, StatusAfter
<1> QED BY <1>1, <1>2 DEF TimelineEntry

\* Appending one record to the timeline of one case keeps the table typed.
LEMMA AppendTimelineTyped ==
  ASSUME timeline \in [Case -> Seq(TimelineEntry)],
         NEW c \in Case, NEW e \in TimelineEntry,
         AppendTimeline(c, e)
  PROVE  timeline' \in [Case -> Seq(TimelineEntry)]
BY DEF AppendTimeline

\* And so for the table of case events.
LEMMA AppendEventTyped ==
  ASSUME caseEvents \in [Case -> Seq(CaseEvent)],
         NEW c \in Case, NEW from \in CaseStatus \cup {Null}, NEW to \in CaseStatus,
         AppendEvent(c, from, to)
  PROVE  caseEvents' \in [Case -> Seq(CaseEvent)]
<1> [from |-> from, to |-> to] \in CaseEvent
  BY DEF CaseEvent
<1> QED BY DEF AppendEvent

\* The initial state is typed.
LEMMA InitTyped == Init => TypeOK
BY NullAssumption, MaxRequestsAssumption, MaxFailuresAssumption
   DEF Init, TypeOK, StoreInit, CasesInit, ComplaintsInit, EvidenceInit, EngineInit,
       StoreTypeOK, CasesTypeOK, ComplaintsTypeOK, EvidenceTypeOK, EngineTypeOK,
       NoRow, Row, IdleScan, Scan

\* Each commit keeps the tables typed once its row, its entry and its event are.
LEMMA RowTyped ==
  ASSUME rescueCase \in [Case -> Row], NEW c \in Case, NEW row \in Row, UpdateRow(c, row)
  PROVE  rescueCase' \in [Case -> Row]
BY DEF UpdateRow

\* A row keeps its type when a handler writes some of its columns.
LEMMA MovedRowTyped ==
  ASSUME NEW row \in Row, NEW s \in CaseStatus
  PROVE  [row EXCEPT !.status = s] \in Row
BY DEF Row

\* And when an escalation writes both its status and its level.
LEMMA EscalatedRowTyped ==
  ASSUME NEW row \in Row, NEW s \in CaseStatus, NEW l \in Level
  PROVE  [row EXCEPT !.status = s, !.level = l] \in Row
BY DEF Row

\* The row createCase inserts is typed.
LEMMA OpenedRowTyped ==
  ASSUME NEW t \in Transaction, NEW sla \in {"none", "running"}
  PROVE  NewCase(t, sla) \in Row
<1> "OPEN" \in CaseStatus /\ 0 \in Level
  BY DEF CaseStatus
<1> QED BY DEF NewCase, Row

\* The row updateCaseStatus writes is typed.
LEMMA UpdatedRowTyped ==
  ASSUME NEW row \in Row, NEW q \in UpdateRequest
  PROVE  StatusUpdate(row, q) \in Row
<1> DEFINE notes == IF q.notes # Null THEN q.notes ELSE q.oldNotes
           resolvedAt == row.resolvedAt \/ Resolves(q.to)
           closedAt == row.closedAt \/ q.to = "CLOSED"
<1>1. notes \in Note \cup {Null}
  BY DEF UpdateRequest
<1>2. resolvedAt \in BOOLEAN /\ closedAt \in BOOLEAN
  OBVIOUS
<1>3. q.to \in CaseStatus
  BY RequestedStatusAssumption DEF UpdateRequest
<1>4. StatusUpdate(row, q) = [row EXCEPT !.status = q.to, !.notes = notes,
                                         !.resolvedAt = resolvedAt, !.closedAt = closedAt]
  BY DEF StatusUpdate, Row
<1> HIDE DEF notes, resolvedAt, closedAt
<1> QED BY <1>1, <1>2, <1>3, <1>4 DEF Row

\* createCase, updateCaseStatus and escalateCase keep the types.
LEMMA CasesTyped ==
  ASSUME StoreTypeOK, CasesTypeOK, CasesNext
  PROVE  StoreTypeOK' /\ CasesTypeOK'
<1> USE DEF StoreTypeOK, CasesTypeOK
<1> DEFINE Requests == {IdleRequest} \cup CreateRequest \cup UpdateRequest \cup EscalateRequest
<1> PICK r \in CaseRequest :
      \/ \E t \in Transaction : CreateTransaction(r, t) \/ UseTransaction(r, t)
      \/ \E c \in Case, sla \in {"none", "running"} : InsertCase(r, c, sla)
      \/ \E c \in Case, to \in RequestedStatus, notes \in Note \cup {Null} :
           ReadForUpdate(r, c, to, notes)
      \/ CommitUpdate(r)
      \/ \E c \in Case : ReadForEscalation(r, c)
      \/ CommitEscalation(r)
      \/ CaseRequestFails(r)
  BY DEF CasesNext
<1>0. ASSUME Reply(r) PROVE caseRequest' \in [CaseRequest -> Requests]
  BY <1>0 DEF Reply
<1>1. ASSUME NEW t \in Transaction, CreateTransaction(r, t) \/ UseTransaction(r, t)
      PROVE  StoreTypeOK' /\ CasesTypeOK'
  <2>1. [op |-> "create", transaction |-> t] \in CreateRequest
    BY DEF CreateRequest
  <2>2. caseRequest' \in [CaseRequest -> Requests]
    BY <1>1, <2>1 DEF CreateTransaction, UseTransaction
  <2> QED
    BY <1>1, <2>2, MaxRequestsAssumption DEF CreateTransaction, UseTransaction, Receive
<1>2. ASSUME NEW c \in Case, NEW sla \in {"none", "running"}, InsertCase(r, c, sla)
      PROVE  StoreTypeOK' /\ CasesTypeOK'
  <2> DEFINE t == caseRequest[r].transaction
             row == NewCase(t, sla)
  <2>1. t \in Transaction
    BY <1>2 DEF InsertCase, IdleRequest, CreateRequest, UpdateRequest, EscalateRequest
  <2>2. row \in Row
    BY <2>1, OpenedRowTyped
  <2>3. rescueCase' \in [Case -> Row]
    BY <1>2, <2>2, RowTyped DEF InsertCase
  <2>4. timeline' \in [Case -> Seq(TimelineEntry)]
    BY <1>2, EntryTyped, AppendTimelineTyped DEF InsertCase, PlainEventType
  <2>5. caseEvents' \in [Case -> Seq(CaseEvent)]
    BY <1>2, AppendEventTyped DEF InsertCase, CaseStatus
  <2> QED BY <1>0, <1>2, <2>3, <2>4, <2>5 DEF InsertCase
<1>3. ASSUME NEW c \in Case, NEW to \in RequestedStatus, NEW notes \in Note \cup {Null},
             ReadForUpdate(r, c, to, notes)
      PROVE  StoreTypeOK' /\ CasesTypeOK'
  <2> DEFINE q == [ op |-> "update", case |-> c, from |-> rescueCase[c].status,
                    oldNotes |-> rescueCase[c].notes, to |-> to, notes |-> notes ]
  <2>1. q \in UpdateRequest
    BY <1>3 DEF ReadForUpdate, UpdateRequest, Row, Filed
  <2>2. caseRequest' \in [CaseRequest -> Requests]
    BY <1>3, <2>1 DEF ReadForUpdate
  <2> QED BY <1>3, <2>2, MaxRequestsAssumption DEF ReadForUpdate, Receive
<1>4. ASSUME CommitUpdate(r)
      PROVE  StoreTypeOK' /\ CasesTypeOK'
  <2> DEFINE q == caseRequest[r]
  <2>1. q \in UpdateRequest
    BY <1>4 DEF CommitUpdate, IdleRequest, CreateRequest, UpdateRequest, EscalateRequest
  <2>2. q.case \in Case /\ q.from \in CaseStatus /\ q.to \in CaseStatus
    BY <2>1, RequestedStatusAssumption DEF UpdateRequest
  <2>3. StatusUpdate(rescueCase[q.case], q) \in Row
    BY <2>1, <2>2, UpdatedRowTyped
  <2>4. rescueCase' \in [Case -> Row]
    BY <1>4, <2>2, <2>3, RowTyped DEF CommitUpdate
  <2>5. timeline' \in [Case -> Seq(TimelineEntry)]
    BY <1>4, <2>2, EntryTyped, AppendTimelineTyped DEF CommitUpdate
  <2>6. caseEvents' \in [Case -> Seq(CaseEvent)]
    BY <1>4, <2>2, AppendEventTyped DEF CommitUpdate
  <2> QED BY <1>0, <1>4, <2>4, <2>5, <2>6 DEF CommitUpdate
<1>5. ASSUME NEW c \in Case, ReadForEscalation(r, c)
      PROVE  StoreTypeOK' /\ CasesTypeOK'
  <2> DEFINE q == [ op |-> "escalate", case |-> c, from |-> rescueCase[c].status,
                    level |-> rescueCase[c].level ]
  <2>1. q \in EscalateRequest
    BY <1>5 DEF ReadForEscalation, EscalateRequest, Row, Filed
  <2>2. caseRequest' \in [CaseRequest -> Requests]
    BY <1>5, <2>1 DEF ReadForEscalation
  <2> QED BY <1>5, <2>2, MaxRequestsAssumption DEF ReadForEscalation, Receive
<1>6. ASSUME CommitEscalation(r)
      PROVE  StoreTypeOK' /\ CasesTypeOK'
  <2> DEFINE q == caseRequest[r]
  <2>1. q \in EscalateRequest
    BY <1>6 DEF CommitEscalation, IdleRequest, CreateRequest, UpdateRequest, EscalateRequest
  <2>2. q.case \in Case /\ q.from \in CaseStatus /\ NextLevel(q.level) \in Level
    BY <2>1 DEF EscalateRequest, NextLevel
  <2>3. "ESCALATED" \in CaseStatus
    BY DEF CaseStatus
  <2>4. rescueCase' \in [Case -> Row]
    BY <1>6, <2>2, <2>3, RowTyped, EscalatedRowTyped DEF CommitEscalation
  <2>5. timeline' \in [Case -> Seq(TimelineEntry)]
    BY <1>6, <2>2, EntryTyped, AppendTimelineTyped DEF CommitEscalation, PlainEventType
  <2>6. caseEvents' \in [Case -> Seq(CaseEvent)]
    BY <1>6, <2>2, <2>3, AppendEventTyped DEF CommitEscalation
  <2> QED BY <1>0, <1>6, <2>4, <2>5, <2>6 DEF CommitEscalation
<1>7. ASSUME CaseRequestFails(r)
      PROVE  StoreTypeOK' /\ CasesTypeOK'
  BY <1>0, <1>7 DEF CaseRequestFails, storeVars
<1> QED BY <1>1, <1>2, <1>3, <1>4, <1>5, <1>6, <1>7

\* generateComplaintPackage and recordSubmission keep the types.
LEMMA ComplaintsTyped ==
  ASSUME StoreTypeOK, ComplaintsTypeOK, ComplaintsNext
  PROVE  StoreTypeOK' /\ ComplaintsTypeOK'
<1> USE DEF StoreTypeOK, ComplaintsTypeOK
<1> DEFINE Requests == {IdleComplaintRequest} \cup GenerateRequest \cup SubmitRequest
<1> PICK r \in ComplaintRequest :
      \/ \E c \in Case : ReadForComplaint(r, c)
      \/ \E k \in Complaint : CommitComplaint(r, k) \/ ReadComplaint(r, k)
      \/ CommitSubmission(r)
      \/ ComplaintRequestFails(r)
  BY DEF ComplaintsNext
<1>0. ASSUME ComplaintReply(r) PROVE complaintRequest' \in [ComplaintRequest -> Requests]
  BY <1>0 DEF ComplaintReply
<1>1. ASSUME NEW c \in Case, ReadForComplaint(r, c)
      PROVE  StoreTypeOK' /\ ComplaintsTypeOK'
  <2>1. [op |-> "generate", case |-> c] \in GenerateRequest
    BY DEF GenerateRequest
  <2>2. complaintRequest' \in [ComplaintRequest -> Requests]
    BY <1>1, <2>1 DEF ReadForComplaint
  <2> QED BY <1>1, <2>2, MaxRequestsAssumption DEF ReadForComplaint, Receive
<1>2. ASSUME NEW k \in Complaint, CommitComplaint(r, k)
      PROVE  StoreTypeOK' /\ ComplaintsTypeOK'
  <2> DEFINE c == complaintRequest[r].case
  <2>1. c \in Case
    BY <1>2 DEF CommitComplaint, IdleComplaintRequest, GenerateRequest, SubmitRequest
  <2>2. "COMPLAINT_PREPARED" \in CaseStatus
    BY DEF CaseStatus
  <2>3. rescueCase' \in [Case -> Row]
    BY <1>2, <2>1, <2>2, RowTyped, MovedRowTyped DEF CommitComplaint
  <2>4. timeline' \in [Case -> Seq(TimelineEntry)]
    BY <1>2, <2>1, EntryTyped, AppendTimelineTyped DEF CommitComplaint, PlainEventType
  <2>5. complaintCase' \in [Complaint -> Case \cup {Null}]
    BY <1>2, <2>1 DEF CommitComplaint
  <2> QED BY <1>0, <1>2, <2>3, <2>4, <2>5 DEF CommitComplaint
<1>3. ASSUME NEW k \in Complaint, ReadComplaint(r, k)
      PROVE  StoreTypeOK' /\ ComplaintsTypeOK'
  <2>1. [op |-> "submit", complaint |-> k, case |-> complaintCase[k]] \in SubmitRequest
    BY <1>3 DEF ReadComplaint, SubmitRequest
  <2>2. complaintRequest' \in [ComplaintRequest -> Requests]
    BY <1>3, <2>1 DEF ReadComplaint
  <2> QED BY <1>3, <2>2, MaxRequestsAssumption DEF ReadComplaint, Receive
<1>4. ASSUME CommitSubmission(r)
      PROVE  StoreTypeOK' /\ ComplaintsTypeOK'
  <2> DEFINE q == complaintRequest[r]
  <2>1. q \in SubmitRequest
    BY <1>4 DEF CommitSubmission, IdleComplaintRequest, GenerateRequest, SubmitRequest
  <2>2. q.case \in Case /\ q.complaint \in Complaint
    BY <2>1 DEF SubmitRequest
  <2>3. "SUBMITTED" \in CaseStatus
    BY DEF CaseStatus
  <2>4. rescueCase' \in [Case -> Row]
    BY <1>4, <2>2, <2>3, RowTyped, MovedRowTyped DEF CommitSubmission
  <2>5. timeline' \in [Case -> Seq(TimelineEntry)]
    BY <1>4, <2>2, EntryTyped, AppendTimelineTyped DEF CommitSubmission, PlainEventType
  <2>6. submissions' \in [Complaint -> Nat]
    BY <1>4, <2>2 DEF CommitSubmission
  <2> QED BY <1>0, <1>4, <2>4, <2>5, <2>6 DEF CommitSubmission
<1>5. ASSUME ComplaintRequestFails(r)
      PROVE  StoreTypeOK' /\ ComplaintsTypeOK'
  BY <1>0, <1>5 DEF ComplaintRequestFails, storeVars
<1> QED BY <1>1, <1>2, <1>3, <1>4, <1>5

\* uploadEvidence keeps the types.
LEMMA EvidenceTyped ==
  ASSUME StoreTypeOK, EvidenceTypeOK, EvidenceNext
  PROVE  StoreTypeOK' /\ EvidenceTypeOK'
<1> USE DEF StoreTypeOK, EvidenceTypeOK
<1> DEFINE Requests == {IdleUpload} \cup Upload
<1> PICK r \in EvidenceRequest :
      \/ \E c \in Case : ReadForUpload(r, c)
      \/ UploadFile(r)
      \/ \E e \in Evidence : CommitEvidence(r, e)
      \/ UploadFails(r)
  BY DEF EvidenceNext
<1>0. ASSUME UploadReply(r) PROVE evidenceRequest' \in [EvidenceRequest -> Requests]
  BY <1>0 DEF UploadReply
<1>1. ASSUME NEW c \in Case, ReadForUpload(r, c)
      PROVE  StoreTypeOK' /\ EvidenceTypeOK'
  <2>1. [op |-> "scan", case |-> c] \in Upload
    BY DEF Upload
  <2>2. evidenceRequest' \in [EvidenceRequest -> Requests]
    BY <1>1, <2>1 DEF ReadForUpload
  <2> QED BY <1>1, <2>2, MaxRequestsAssumption DEF ReadForUpload, Receive
<1>2. ASSUME UploadFile(r)
      PROVE  StoreTypeOK' /\ EvidenceTypeOK'
  <2>1. evidenceRequest[r] \in Upload
    BY <1>2 DEF UploadFile, IdleUpload
  <2>2. [evidenceRequest[r] EXCEPT !.op = "stored"] \in Upload
    BY <2>1 DEF Upload
  <2>3. evidenceRequest' \in [EvidenceRequest -> Requests]
    BY <1>2, <2>2 DEF UploadFile
  <2> QED BY <1>2, <2>3 DEF UploadFile, storeVars
<1>3. ASSUME NEW e \in Evidence, CommitEvidence(r, e)
      PROVE  StoreTypeOK' /\ EvidenceTypeOK'
  <2> DEFINE c == evidenceRequest[r].case
  <2>1. c \in Case
    BY <1>3 DEF CommitEvidence, IdleUpload, Upload
  <2>2. timeline' \in [Case -> Seq(TimelineEntry)]
    BY <1>3, <2>1, EntryTyped, AppendTimelineTyped DEF CommitEvidence, PlainEventType
  <2>3. evidenceCase' \in [Evidence -> Case \cup {Null}]
    BY <1>3, <2>1 DEF CommitEvidence
  <2> QED BY <1>0, <1>3, <2>2, <2>3 DEF CommitEvidence
<1>4. ASSUME UploadFails(r)
      PROVE  StoreTypeOK' /\ EvidenceTypeOK'
  BY <1>0, <1>4 DEF UploadFails, storeVars
<1> QED BY <1>1, <1>2, <1>3, <1>4

\* A scan keeps the types; in particular current is a case whenever a scan is
\* about to notify its owner.
LEMMA EngineTyped ==
  ASSUME StoreTypeOK, EngineTypeOK, EngineNext
  PROVE  StoreTypeOK' /\ EngineTypeOK'
<1> USE DEF StoreTypeOK, EngineTypeOK
<1> PICK s \in Scanner :
      \/ StartScan(s)
      \/ \E x \in scan[s].queue : EscalateNext(s, x)
      \/ NotifyUser(s)
      \/ FinishScan(s)
      \/ ScanFails(s)
  BY DEF EngineNext
<1>0. scan[s].queue \subseteq Snapshot
  BY DEF Scan, IdleScan
<1>1. ASSUME StartScan(s)
      PROVE  StoreTypeOK' /\ EngineTypeOK'
  <2> DEFINE queue == { Snap(c) : c \in { d \in Case : Overdue(d) } }
  <2>1. queue \subseteq Snapshot
    BY DEF Snap, Overdue, Snapshot, Row, AwaitsProvider, CaseStatus
  <2>2. [phase |-> "escalating", queue |-> queue, current |-> Null] \in Scan
    BY <2>1 DEF Scan
  <2>3. scan' \in [Scanner -> Scan]
    BY <1>1, <2>2 DEF StartScan
  <2> QED BY <1>1, <2>3 DEF StartScan, storeVars
<1>2. ASSUME NEW x \in scan[s].queue, EscalateNext(s, x)
      PROVE  StoreTypeOK' /\ EngineTypeOK'
  <2>0. x \in Snapshot
    BY <1>0
  <2>1. x.case \in Case /\ x.status \in CaseStatus /\ NewEscalationLevel(x.level) \in Level
    BY <2>0 DEF Snapshot, NewEscalationLevel
  <2>2. "ESCALATED" \in CaseStatus
    BY DEF CaseStatus
  <2>3. rescueCase' \in [Case -> Row]
    BY <1>2, <2>1, <2>2, RowTyped, EscalatedRowTyped DEF EscalateNext
  <2>4. timeline' \in [Case -> Seq(TimelineEntry)]
    BY <1>2, <2>1, EntryTyped, AppendTimelineTyped DEF EscalateNext, PlainEventType
  <2>5. caseEvents' \in [Case -> Seq(CaseEvent)]
    BY <1>2, <2>1, <2>2, AppendEventTyped DEF EscalateNext
  <2>6. [phase |-> "notifying", queue |-> scan[s].queue \ {x}, current |-> x.case] \in Scan
    BY <1>0, <2>1 DEF Scan
  <2>7. scan' \in [Scanner -> Scan]
    BY <1>2, <2>6 DEF EscalateNext
  <2> QED BY <1>2, <2>3, <2>4, <2>5, <2>7 DEF EscalateNext
<1>3. ASSUME NotifyUser(s)
      PROVE  StoreTypeOK' /\ EngineTypeOK'
  <2>1. scan[s].current \in Case
    <3>1. scan[s] \in Scan /\ scan[s].phase = "notifying"
      BY <1>3 DEF NotifyUser
    <3> QED BY <3>1 DEF Scan, IdleScan
  <2>2. notifications' \in [Case -> Nat]
    BY <1>3, <2>1 DEF NotifyUser
  <2>3. [phase |-> "escalating", queue |-> scan[s].queue, current |-> Null] \in Scan
    BY <1>0 DEF Scan
  <2>4. scan' \in [Scanner -> Scan]
    BY <1>3, <2>3 DEF NotifyUser
  <2> QED BY <1>3, <2>2, <2>4 DEF NotifyUser, storeVars
<1>4. ASSUME FinishScan(s) \/ ScanFails(s)
      PROVE  StoreTypeOK' /\ EngineTypeOK'
  <2>1. scan' \in [Scanner -> Scan]
    BY <1>4 DEF FinishScan, ScanFails, Scan
  <2> QED BY <1>4, <2>1, MaxFailuresAssumption DEF FinishScan, ScanFails, storeVars
<1> QED BY <1>1, <1>2, <1>3, <1>4

\* Every step keeps the types.
LEMMA StepTyped ==
  ASSUME TypeOK, [Next]_vars
  PROVE  TypeOK'
<1> USE DEF TypeOK
<1>1. CASE CasesNext /\ UNCHANGED <<complaintVars, evidenceVars, engineVars>>
  BY <1>1, CasesTyped
     DEF complaintVars, evidenceVars, engineVars, ComplaintsTypeOK, EvidenceTypeOK, EngineTypeOK
<1>2. CASE ComplaintsNext /\ UNCHANGED <<casesVars, evidenceVars, engineVars>>
  BY <1>2, ComplaintsTyped
     DEF casesVars, evidenceVars, engineVars, CasesTypeOK, EvidenceTypeOK, EngineTypeOK
<1>3. CASE EvidenceNext /\ UNCHANGED <<casesVars, complaintVars, engineVars>>
  BY <1>3, EvidenceTyped
     DEF casesVars, complaintVars, engineVars, CasesTypeOK, ComplaintsTypeOK, EngineTypeOK
<1>4. CASE EngineNext /\ UNCHANGED <<casesVars, complaintVars, evidenceVars>>
  BY <1>4, EngineTyped
     DEF casesVars, complaintVars, evidenceVars, CasesTypeOK, ComplaintsTypeOK, EvidenceTypeOK
<1>5. CASE Clock /\ UNCHANGED <<casesVars, complaintVars, evidenceVars, engineVars>>
  <2> PICK c \in Case : DeadlinePasses(c)
    BY <1>5 DEF Clock
  <2>1. [rescueCase[c] EXCEPT !.sla = "expired"] \in Row
    BY DEF StoreTypeOK, Row
  <2>2. StoreTypeOK'
    BY <2>1, RowTyped DEF DeadlinePasses, StoreTypeOK
  <2> QED
    BY <1>5, <2>2 DEF casesVars, complaintVars, evidenceVars, engineVars,
                      CasesTypeOK, ComplaintsTypeOK, EvidenceTypeOK, EngineTypeOK
<1>6. CASE UNCHANGED vars
  BY <1>6 DEF vars, storeVars, casesVars, complaintVars, evidenceVars, engineVars,
              StoreTypeOK, CasesTypeOK, ComplaintsTypeOK, EvidenceTypeOK, EngineTypeOK
<1> QED BY <1>1, <1>2, <1>3, <1>4, <1>5, <1>6 DEF Next

\* All handlers keep the tables and their own memory typed; in particular the
\* escalation level never leaves 0..2, whatever level a handler had read.
THEOREM TypeCorrect == Spec => []TypeOK
BY InitTyped, StepTyped, PTL DEF Spec
-----------------------------------------------------------------------------
(***************************************************************************)
(* What a step does to the tables, without naming the handler.  Either no  *)
(* record is written and at most a deadline passes, or the row and the     *)
(* timeline of one case are written together, and the record is coherent   *)
(* with the row and with history.                                          *)
(***************************************************************************)
Quiet ==
  /\ UNCHANGED <<timeline, caseEvents>>
  /\ \A c \in Case :
       \/ rescueCase'[c] = rescueCase[c]
       \/ /\ rescueCase[c].sla = "running"
          /\ rescueCase'[c] = [rescueCase[c] EXCEPT !.sla = "expired"]

IsResolution(e) == e.eventType = "STATUS" /\ Resolves(e.status)

CoherentStatus(c, e, row) ==
  IF IsRemark(e) THEN Filed(c) /\ row.status = rescueCase[c].status
                 ELSE row.status = StatusAfter(e)

CoherentLevel(c, e, row) ==
  IF IsEscalation(e)
    THEN row.level > 0 /\ (row.level = 2 => Escalated(c))
    ELSE row.level = rescueCase[c].level

CoherentStamps(c, e, row) ==
  /\ row.resolvedAt <=> rescueCase[c].resolvedAt \/ IsResolution(e)
  /\ row.closedAt   <=> rescueCase[c].closedAt \/ e = StatusEntry("CLOSED")

CoherentSla(c, e, row) ==
  /\ Filed(c) => row.sla = rescueCase[c].sla
  /\ IsBreach(e) =>
       /\ row.sla = "expired"
       /\ \E s \in AwaitsProvider : Announced(c, s)

CoherentComplaint(c, e) ==
  e.eventType = "COMPLAINT_SUBMITTED" => Recorded(c, "COMPLAINT_GENERATED")

\* Records of complaints and remarks come without an event, every other record with one.
CoherentEvent(c, e) ==
  IF IsComplaintEntry(e) \/ IsRemark(e)
    THEN Filed(c) /\ UNCHANGED caseEvents
    ELSE \E from \in CaseStatus \cup {Null} :
           /\ AppendEvent(c, from, StatusAfter(e))
           /\ IF Filed(c) THEN Announced(c, from) ELSE from = Null

CoherentOpening(c, e) == Filed(c) \/ e = Entry("CASE_CREATED")

Committed(c, e, row) ==
  /\ UpdateRow(c, row)
  /\ AppendTimeline(c, e)
  /\ CoherentOpening(c, e)
  /\ CoherentStatus(c, e, row)
  /\ CoherentLevel(c, e, row)
  /\ CoherentStamps(c, e, row)
  /\ CoherentSla(c, e, row)
  /\ CoherentComplaint(c, e)
  /\ CoherentEvent(c, e)

Effect == Quiet \/ \E c \in Case, e \in TimelineEntry, row \in Row : Committed(c, e, row)

\* A record on the timeline of a case means that the case is filed.
LEMMA OpenedIsFiled ==
  ASSUME TypeOK, TimelineDeterminesStatus, NEW c \in Case
  PROVE  /\ Opened(c) => Filed(c)
         /\ \A s : Announced(c, s) => Opened(c)
         /\ \A t : Recorded(c, t) => Opened(c)
         /\ Escalated(c) => Opened(c)
BY DEF TypeOK, StoreTypeOK, TimelineDeterminesStatus, Opened, Announced, Recorded,
       Escalated, Positions

\* The status of a filed case has been announced.
LEMMA StatusIsAnnounced ==
  ASSUME TimelineDeterminesStatus, NEW c \in Case, Filed(c)
  PROVE  Announced(c, rescueCase[c].status)
BY DEF TimelineDeterminesStatus, Announced

\* An unfiled case has the level and the stamps of an empty row.
LEMMA UnfiledRow ==
  ASSUME HistoryInv, NEW c \in Case, ~Filed(c)
  PROVE  /\ timeline[c] = << >>
         /\ caseEvents[c] = << >>
         /\ rescueCase[c].level = 0
         /\ ~rescueCase[c].resolvedAt
         /\ ~rescueCase[c].closedAt
<1>1. timeline[c] = << >> /\ Positions(c) = {}
  BY DEF HistoryInv, TimelineDeterminesStatus, Positions
<1>2. caseEvents[c] = << >>
  BY DEF HistoryInv, EventPredecessorsWereHeld
<1>3. rescueCase[c].level = 0
  BY <1>1 DEF HistoryInv, EscalationLevelIsEarned
<1>4. ~rescueCase[c].resolvedAt /\ ~rescueCase[c].closedAt
  BY <1>1, Zenon DEF HistoryInv, StampsMatchHistory
<1> QED BY <1>1, <1>2, <1>3, <1>4

\* A step that leaves the tables alone is quiet.
LEMMA UnchangedIsQuiet ==
  ASSUME UNCHANGED <<rescueCase, timeline, caseEvents>>
  PROVE  Quiet
BY DEF Quiet

\* The kinds of entries, for the entries that handlers write.
LEMMA EntryKinds ==
  /\ ~IsRemark(Entry("CASE_CREATED")) /\ StatusAfter(Entry("CASE_CREATED")) = "OPEN"
  /\ ~IsEscalation(Entry("CASE_CREATED")) /\ ~IsComplaintEntry(Entry("CASE_CREATED"))
  /\ StatusAfter(Entry("COMPLAINT_GENERATED")) = "COMPLAINT_PREPARED"
  /\ StatusAfter(Entry("COMPLAINT_SUBMITTED")) = "SUBMITTED"
  /\ \A t \in {"COMPLAINT_GENERATED", "COMPLAINT_SUBMITTED"} :
       ~IsRemark(Entry(t)) /\ ~IsEscalation(Entry(t)) /\ IsComplaintEntry(Entry(t))
  /\ \A t \in {"ESCALATION", "AUTOMATED_SLA_BREACH"} :
       /\ StatusAfter(Entry(t)) = "ESCALATED"
       /\ ~IsRemark(Entry(t)) /\ IsEscalation(Entry(t)) /\ ~IsComplaintEntry(Entry(t))
  /\ IsRemark(Entry("EVIDENCE_UPLOADED")) /\ ~IsEscalation(Entry("EVIDENCE_UPLOADED"))
  /\ \A t \in PlainEventType :
       /\ Entry(t).eventType = t
       /\ ~IsResolution(Entry(t)) /\ Entry(t) # StatusEntry("CLOSED")
       /\ IsBreach(Entry(t)) <=> t = "AUTOMATED_SLA_BREACH"
  /\ \A s \in CaseStatus :
       /\ StatusAfter(StatusEntry(s)) = s /\ ~IsRemark(StatusEntry(s))
       /\ ~IsEscalation(StatusEntry(s)) /\ ~IsBreach(StatusEntry(s))
       /\ ~IsComplaintEntry(StatusEntry(s))
       /\ StatusEntry(s).eventType = "STATUS" /\ StatusEntry(s).status = s
       /\ IsResolution(StatusEntry(s)) <=> Resolves(s)
       /\ StatusEntry(s) = StatusEntry("CLOSED") <=> s = "CLOSED"
BY NullAssumption
   DEF IsRemark, IsEscalation, IsBreach, IsComplaintEntry, IsResolution, StatusAfter, Entry, StatusEntry,
       PlainEventType, CaseStatus, Resolves

\* createCase, updateCaseStatus and escalateCase.
LEMMA CasesEffect ==
  ASSUME HistoryInv, CasesNext
  PROVE  Effect
<1> USE DEF HistoryInv, TypeOK, StoreTypeOK, CasesTypeOK
<1> PICK r \in CaseRequest :
      \/ \E t \in Transaction : CreateTransaction(r, t) \/ UseTransaction(r, t)
      \/ \E c \in Case, sla \in {"none", "running"} : InsertCase(r, c, sla)
      \/ \E c \in Case, to \in RequestedStatus, notes \in Note \cup {Null} :
           ReadForUpdate(r, c, to, notes)
      \/ CommitUpdate(r)
      \/ \E c \in Case : ReadForEscalation(r, c)
      \/ CommitEscalation(r)
      \/ CaseRequestFails(r)
  BY DEF CasesNext
<1>1. ASSUME \/ \E t \in Transaction : CreateTransaction(r, t) \/ UseTransaction(r, t)
             \/ \E c \in Case, to \in RequestedStatus, notes \in Note \cup {Null} :
                  ReadForUpdate(r, c, to, notes)
             \/ \E c \in Case : ReadForEscalation(r, c)
             \/ CaseRequestFails(r)
      PROVE  Effect
  BY <1>1, UnchangedIsQuiet
     DEF CreateTransaction, UseTransaction, ReadForUpdate, ReadForEscalation,
         CaseRequestFails, storeVars, Effect
<1>2. ASSUME NEW c \in Case, NEW sla \in {"none", "running"}, InsertCase(r, c, sla)
      PROVE  Effect
  <2> DEFINE t == caseRequest[r].transaction
             e == Entry("CASE_CREATED")
             row == NewCase(t, sla)
  <2>1. t \in Transaction
    BY <1>2 DEF InsertCase, IdleRequest, CreateRequest, UpdateRequest, EscalateRequest
  <2>2. row \in Row /\ e \in TimelineEntry
    BY <2>1, OpenedRowTyped, EntryTyped DEF PlainEventType
  <2>3. ~Filed(c) /\ UpdateRow(c, row) /\ AppendTimeline(c, e) /\ AppendEvent(c, Null, "OPEN")
    BY <1>2 DEF InsertCase
  <2>4. row.status = "OPEN" /\ row.level = 0 /\ ~row.resolvedAt /\ ~row.closedAt
    BY DEF NewCase
  <2>5. "CASE_CREATED" \in PlainEventType /\ "OPEN" \in CaseStatus
    BY DEF PlainEventType, CaseStatus
  <2>6. CoherentStatus(c, e, row) /\ CoherentLevel(c, e, row)
    BY <2>3, <2>4, UnfiledRow, EntryKinds DEF CoherentStatus, CoherentLevel
  <2>7. CoherentStamps(c, e, row)
    BY <2>3, <2>4, <2>5, UnfiledRow, EntryKinds DEF CoherentStamps
  <2>8. CoherentSla(c, e, row) /\ CoherentComplaint(c, e) /\ CoherentEvent(c, e)
    BY <2>3, <2>5, EntryKinds DEF CoherentSla, CoherentComplaint, CoherentEvent
  <2> QED BY <2>2, <2>3, <2>6, <2>7, <2>8 DEF CoherentOpening, Committed, Effect
<1>3. ASSUME CommitUpdate(r)
      PROVE  Effect
  <2> DEFINE q == caseRequest[r]
             c == q.case
             e == StatusEntry(q.to)
             row == StatusUpdate(rescueCase[c], q)
  <2>1. q \in UpdateRequest /\ q.op = "update"
    BY <1>3 DEF CommitUpdate, IdleRequest, CreateRequest, UpdateRequest, EscalateRequest
  <2>2. c \in Case /\ q.from \in CaseStatus /\ q.to \in CaseStatus
    BY <2>1, RequestedStatusAssumption DEF UpdateRequest
  <2>3. row \in Row /\ e \in TimelineEntry
    BY <2>1, <2>2, UpdatedRowTyped, EntryTyped
  <2>4. UpdateRow(c, row) /\ AppendTimeline(c, e) /\ AppendEvent(c, q.from, q.to)
    BY <1>3 DEF CommitUpdate
  <2>5. Announced(c, q.from) /\ Filed(c)
    BY <2>1, <2>2, OpenedIsFiled DEF ReadsAreHistory, CaseReadIsHistory
  <2>6. /\ row.status = q.to
        /\ row.level = rescueCase[c].level
        /\ row.sla = rescueCase[c].sla
    BY <2>2 DEF StatusUpdate, Row
  <2>7. /\ row.resolvedAt = (rescueCase[c].resolvedAt \/ Resolves(q.to))
        /\ row.closedAt = (rescueCase[c].closedAt \/ q.to = "CLOSED")
    BY <2>2 DEF StatusUpdate, Row
  <2>8. CoherentStatus(c, e, row) /\ CoherentLevel(c, e, row)
    BY <2>2, <2>6, EntryKinds DEF CoherentStatus, CoherentLevel
  <2>9. CoherentStamps(c, e, row)
    BY <2>2, <2>7, EntryKinds DEF CoherentStamps
  <2>10. CoherentSla(c, e, row) /\ CoherentComplaint(c, e)
    BY <2>2, <2>6, EntryKinds DEF CoherentSla, CoherentComplaint
  <2>11. CoherentEvent(c, e)
    BY <2>2, <2>4, <2>5, EntryKinds DEF CoherentEvent
  <2> QED BY <2>2, <2>3, <2>4, <2>5, <2>8, <2>9, <2>10, <2>11 DEF CoherentOpening, Committed, Effect
<1>4. ASSUME CommitEscalation(r)
      PROVE  Effect
  <2> DEFINE q == caseRequest[r]
             c == q.case
             e == Entry("ESCALATION")
             row == [rescueCase[c] EXCEPT !.status = "ESCALATED", !.level = NextLevel(q.level)]
  <2>1. q \in EscalateRequest /\ q.op = "escalate"
    BY <1>4 DEF CommitEscalation, IdleRequest, CreateRequest, UpdateRequest, EscalateRequest
  <2>2. c \in Case /\ q.from \in CaseStatus /\ q.level \in Level
    BY <2>1 DEF EscalateRequest
  <2>3. NextLevel(q.level) \in Level /\ NextLevel(q.level) > 0
          /\ (NextLevel(q.level) = 2 => q.level > 0)
    BY <2>2 DEF NextLevel
  <2>4. "ESCALATED" \in CaseStatus /\ "ESCALATION" \in PlainEventType
    BY DEF CaseStatus, PlainEventType
  <2>5. row \in Row /\ e \in TimelineEntry
    BY <2>2, <2>3, <2>4, EscalatedRowTyped, EntryTyped
  <2>6. UpdateRow(c, row) /\ AppendTimeline(c, e) /\ AppendEvent(c, q.from, "ESCALATED")
    BY <1>4 DEF CommitEscalation
  <2>7. Announced(c, q.from) /\ Filed(c) /\ (q.level > 0 => Escalated(c))
    BY <2>1, <2>2, OpenedIsFiled DEF ReadsAreHistory, CaseReadIsHistory
  <2>8. /\ row.status = "ESCALATED"
        /\ row.level = NextLevel(q.level)
        /\ row.sla = rescueCase[c].sla
        /\ row.resolvedAt = rescueCase[c].resolvedAt
        /\ row.closedAt = rescueCase[c].closedAt
    BY <2>2 DEF Row
  <2>9. CoherentStatus(c, e, row) /\ CoherentLevel(c, e, row)
    BY <2>3, <2>7, <2>8, EntryKinds DEF CoherentStatus, CoherentLevel
  <2>10. CoherentStamps(c, e, row)
    BY <2>4, <2>8, EntryKinds DEF CoherentStamps
  <2>11. CoherentSla(c, e, row) /\ CoherentComplaint(c, e)
    BY <2>4, <2>8, EntryKinds DEF CoherentSla, CoherentComplaint
  <2>12. CoherentEvent(c, e)
    BY <2>2, <2>4, <2>6, <2>7, EntryKinds DEF CoherentEvent
  <2> QED BY <2>2, <2>5, <2>6, <2>7, <2>9, <2>10, <2>11, <2>12 DEF CoherentOpening, Committed, Effect
<1> QED BY <1>1, <1>2, <1>3, <1>4

\* A row whose status alone is written is coherent with an entry announcing it.
LEMMA MovedCoherent ==
  ASSUME NEW c \in Case, rescueCase[c] \in Row,
         NEW e \in {Entry("COMPLAINT_GENERATED"), Entry("COMPLAINT_SUBMITTED")},
         NEW row, row = [rescueCase[c] EXCEPT !.status = StatusAfter(e)]
  PROVE  CoherentStatus(c, e, row) /\ CoherentLevel(c, e, row) /\ CoherentStamps(c, e, row)
           /\ CoherentSla(c, e, row)
<1>1. \E t \in {"COMPLAINT_GENERATED", "COMPLAINT_SUBMITTED"} : t \in PlainEventType /\ e = Entry(t)
  BY DEF PlainEventType
<1>2. /\ ~IsRemark(e) /\ ~IsEscalation(e) /\ ~IsBreach(e)
      /\ ~IsResolution(e) /\ e # StatusEntry("CLOSED")
  BY <1>1, EntryKinds
<1>3. /\ row.status = StatusAfter(e)
      /\ row.level = rescueCase[c].level
      /\ row.sla = rescueCase[c].sla
      /\ row.resolvedAt = rescueCase[c].resolvedAt
      /\ row.closedAt = rescueCase[c].closedAt
  BY DEF Row
<1>4. CoherentStatus(c, e, row) /\ CoherentLevel(c, e, row)
  BY <1>2, <1>3 DEF CoherentStatus, CoherentLevel
<1>5. CoherentStamps(c, e, row)
  BY <1>2, <1>3 DEF CoherentStamps
<1>6. CoherentSla(c, e, row)
  BY <1>2, <1>3 DEF CoherentSla
<1> QED BY <1>4, <1>5, <1>6

\* generateComplaintPackage and recordSubmission.
LEMMA ComplaintsEffect ==
  ASSUME HistoryInv, ComplaintsNext
  PROVE  Effect
<1> USE DEF HistoryInv, TypeOK, StoreTypeOK, ComplaintsTypeOK
<1> PICK r \in ComplaintRequest :
      \/ \E c \in Case : ReadForComplaint(r, c)
      \/ \E k \in Complaint : CommitComplaint(r, k) \/ ReadComplaint(r, k)
      \/ CommitSubmission(r)
      \/ ComplaintRequestFails(r)
  BY DEF ComplaintsNext
<1>1. ASSUME \/ \E c \in Case : ReadForComplaint(r, c)
             \/ \E k \in Complaint : ReadComplaint(r, k)
             \/ ComplaintRequestFails(r)
      PROVE  Effect
  BY <1>1, UnchangedIsQuiet
     DEF ReadForComplaint, ReadComplaint, ComplaintRequestFails, storeVars, Effect
<1>2. ASSUME NEW k \in Complaint, CommitComplaint(r, k)
      PROVE  Effect
  <2> DEFINE c == complaintRequest[r].case
             e == Entry("COMPLAINT_GENERATED")
             row == [rescueCase[c] EXCEPT !.status = "COMPLAINT_PREPARED"]
  <2>1. c \in Case
    BY <1>2 DEF CommitComplaint, IdleComplaintRequest, GenerateRequest, SubmitRequest
  <2>2. "COMPLAINT_PREPARED" \in CaseStatus /\ "COMPLAINT_GENERATED" \in PlainEventType
    BY DEF CaseStatus, PlainEventType
  <2>3. row \in Row /\ e \in TimelineEntry
    BY <2>1, <2>2, MovedRowTyped, EntryTyped
  <2>4. UpdateRow(c, row) /\ AppendTimeline(c, e) /\ UNCHANGED caseEvents
    BY <1>2 DEF CommitComplaint
  <2>5. Filed(c)
    BY <1>2, <2>1, OpenedIsFiled DEF CommitComplaint, ReadsAreHistory, ComplaintReadIsHistory
  <2>6. CoherentStatus(c, e, row) /\ CoherentLevel(c, e, row) /\ CoherentStamps(c, e, row)
          /\ CoherentSla(c, e, row)
    BY <2>1, EntryKinds, MovedCoherent
  <2>7. CoherentComplaint(c, e)
    BY <2>2, EntryKinds DEF CoherentComplaint
  <2>8. CoherentEvent(c, e)
    BY <2>4, <2>5, EntryKinds DEF CoherentEvent
  <2> QED BY <2>1, <2>3, <2>4, <2>5, <2>6, <2>7, <2>8 DEF CoherentOpening, Committed, Effect
<1>3. ASSUME CommitSubmission(r)
      PROVE  Effect
  <2> DEFINE c == complaintRequest[r].case
             e == Entry("COMPLAINT_SUBMITTED")
             row == [rescueCase[c] EXCEPT !.status = "SUBMITTED"]
  <2>1. c \in Case
    BY <1>3 DEF CommitSubmission, IdleComplaintRequest, GenerateRequest, SubmitRequest
  <2>2. "SUBMITTED" \in CaseStatus /\ "COMPLAINT_SUBMITTED" \in PlainEventType
    BY DEF CaseStatus, PlainEventType
  <2>3. row \in Row /\ e \in TimelineEntry
    BY <2>1, <2>2, MovedRowTyped, EntryTyped
  <2>4. UpdateRow(c, row) /\ AppendTimeline(c, e) /\ UNCHANGED caseEvents
    BY <1>3 DEF CommitSubmission
  <2>5. Recorded(c, "COMPLAINT_GENERATED")
    BY <1>3 DEF CommitSubmission, ReadsAreHistory, ComplaintReadIsHistory
  <2>6. Filed(c)
    BY <2>1, <2>5, OpenedIsFiled
  <2>7. CoherentStatus(c, e, row) /\ CoherentLevel(c, e, row) /\ CoherentStamps(c, e, row)
          /\ CoherentSla(c, e, row)
    BY <2>1, EntryKinds, MovedCoherent
  <2>8. CoherentComplaint(c, e)
    BY <2>5 DEF CoherentComplaint
  <2>9. CoherentEvent(c, e)
    BY <2>4, <2>6, EntryKinds DEF CoherentEvent
  <2> QED BY <2>1, <2>3, <2>4, <2>6, <2>7, <2>8, <2>9 DEF CoherentOpening, Committed, Effect
<1> QED BY <1>1, <1>2, <1>3

\* uploadEvidence: the row of the case is left as it is.
LEMMA EvidenceEffect ==
  ASSUME HistoryInv, EvidenceNext
  PROVE  Effect
<1> USE DEF HistoryInv, TypeOK, StoreTypeOK, EvidenceTypeOK
<1> PICK r \in EvidenceRequest :
      \/ \E c \in Case : ReadForUpload(r, c)
      \/ UploadFile(r)
      \/ \E e \in Evidence : CommitEvidence(r, e)
      \/ UploadFails(r)
  BY DEF EvidenceNext
<1>1. ASSUME (\E c \in Case : ReadForUpload(r, c)) \/ UploadFile(r) \/ UploadFails(r)
      PROVE  Effect
  BY <1>1, UnchangedIsQuiet DEF ReadForUpload, UploadFile, UploadFails, storeVars, Effect
<1>2. ASSUME NEW k \in Evidence, CommitEvidence(r, k)
      PROVE  Effect
  <2> DEFINE c == evidenceRequest[r].case
             e == Entry("EVIDENCE_UPLOADED")
             row == rescueCase[c]
  <2>1. c \in Case
    BY <1>2 DEF CommitEvidence, IdleUpload, Upload
  <2>2. "EVIDENCE_UPLOADED" \in PlainEventType
    BY DEF PlainEventType
  <2>3. row \in Row /\ e \in TimelineEntry
    BY <2>1, <2>2, EntryTyped
  <2>4. UpdateRow(c, row) /\ AppendTimeline(c, e) /\ UNCHANGED caseEvents
    BY <1>2 DEF CommitEvidence, UpdateRow
  <2>5. Filed(c)
    BY <1>2, <2>1, OpenedIsFiled DEF CommitEvidence, ReadsAreHistory
  <2>6. CoherentStatus(c, e, row) /\ CoherentLevel(c, e, row)
    BY <2>5, EntryKinds DEF CoherentStatus, CoherentLevel
  <2>7. CoherentStamps(c, e, row)
    BY <2>2, EntryKinds DEF CoherentStamps
  <2>8. CoherentSla(c, e, row) /\ CoherentComplaint(c, e)
    BY <2>2, EntryKinds DEF CoherentSla, CoherentComplaint
  <2>9. CoherentEvent(c, e)
    BY <2>4, <2>5, EntryKinds DEF CoherentEvent
  <2> QED BY <2>1, <2>3, <2>4, <2>5, <2>6, <2>7, <2>8, <2>9 DEF CoherentOpening, Committed, Effect
<1> QED BY <1>1, <1>2

\* processSlaExpirations.
LEMMA EngineEffect ==
  ASSUME HistoryInv, EngineNext
  PROVE  Effect
<1> USE DEF HistoryInv, TypeOK, StoreTypeOK, EngineTypeOK
<1> PICK s \in Scanner :
      \/ StartScan(s)
      \/ \E x \in scan[s].queue : EscalateNext(s, x)
      \/ NotifyUser(s)
      \/ FinishScan(s)
      \/ ScanFails(s)
  BY DEF EngineNext
<1>1. ASSUME StartScan(s) \/ NotifyUser(s) \/ FinishScan(s) \/ ScanFails(s)
      PROVE  Effect
  BY <1>1, UnchangedIsQuiet DEF StartScan, NotifyUser, FinishScan, ScanFails, storeVars, Effect
<1>2. ASSUME NEW x \in scan[s].queue, EscalateNext(s, x)
      PROVE  Effect
  <2> DEFINE c == x.case
             e == Entry("AUTOMATED_SLA_BREACH")
             row == [rescueCase[c] EXCEPT !.status = "ESCALATED",
                                          !.level = NewEscalationLevel(x.level)]
  <2>1. scan[s] \in Scan
    OBVIOUS
  <2>2. x \in Snapshot
    BY <2>1 DEF Scan, IdleScan
  <2>3. c \in Case /\ x.status \in CaseStatus /\ x.level \in Level
    BY <2>2 DEF Snapshot
  <2>4. NewEscalationLevel(x.level) \in Level /\ NewEscalationLevel(x.level) > 0
          /\ (NewEscalationLevel(x.level) = 2 => x.level > 0)
    BY <2>3 DEF NewEscalationLevel
  <2>5. "ESCALATED" \in CaseStatus /\ "AUTOMATED_SLA_BREACH" \in PlainEventType
    BY DEF CaseStatus, PlainEventType
  <2>6. row \in Row /\ e \in TimelineEntry
    BY <2>3, <2>4, <2>5, EscalatedRowTyped, EntryTyped
  <2>7. UpdateRow(c, row) /\ AppendTimeline(c, e) /\ AppendEvent(c, x.status, "ESCALATED")
    BY <1>2 DEF EscalateNext
  <2>8. /\ x.status \in AwaitsProvider
        /\ Announced(c, x.status)
        /\ rescueCase[c].sla = "expired"
        /\ x.level > 0 => Escalated(c)
    BY DEF ReadsAreHistory, SnapshotIsHistory
  <2>9. Filed(c)
    BY <2>3, <2>8, OpenedIsFiled
  <2>10. /\ row.status = "ESCALATED"
         /\ row.level = NewEscalationLevel(x.level)
         /\ row.sla = rescueCase[c].sla
         /\ row.resolvedAt = rescueCase[c].resolvedAt
         /\ row.closedAt = rescueCase[c].closedAt
    BY <2>3 DEF Row
  <2>11. CoherentStatus(c, e, row) /\ CoherentLevel(c, e, row)
    BY <2>4, <2>8, <2>10, EntryKinds DEF CoherentStatus, CoherentLevel
  <2>12. CoherentStamps(c, e, row)
    BY <2>5, <2>10, EntryKinds DEF CoherentStamps
  <2>13. CoherentSla(c, e, row) /\ CoherentComplaint(c, e)
    BY <2>5, <2>8, <2>10, EntryKinds DEF CoherentSla, CoherentComplaint
  <2>14. CoherentEvent(c, e)
    BY <2>3, <2>5, <2>7, <2>8, <2>9, EntryKinds DEF CoherentEvent
  <2> QED BY <2>3, <2>6, <2>7, <2>9, <2>11, <2>12, <2>13, <2>14 DEF CoherentOpening, Committed, Effect
<1> QED BY <1>1, <1>2

\* Every step has an effect of that form.
LEMMA StepEffect ==
  ASSUME HistoryInv, [Next]_vars
  PROVE  Effect
<1>1. CASE Clock
  <2> PICK c \in Case : DeadlinePasses(c)
    BY <1>1 DEF Clock
  <2> QED BY DEF DeadlinePasses, UpdateRow, Quiet, Effect, HistoryInv, TypeOK, StoreTypeOK
<1>2. CASE UNCHANGED vars
  BY <1>2, UnchangedIsQuiet DEF vars, storeVars, Effect
<1> QED BY <1>1, <1>2, CasesEffect, ComplaintsEffect, EvidenceEffect, EngineEffect DEF Next
-----------------------------------------------------------------------------
(***************************************************************************)
(* Timelines only grow, so whatever a timeline has announced it keeps      *)
(* announcing: a stale read stays true as history.                         *)
(***************************************************************************)
Grows ==
  \A c \in Case :
    /\ Len(timeline[c]) <= Len(timeline'[c])
    /\ \A i \in 1..Len(timeline[c]) : timeline'[c][i] = timeline[c][i]

\* Appending a record keeps every timeline and every position of it.
LEMMA AppendedTimeline ==
  ASSUME timeline \in [Case -> Seq(TimelineEntry)],
         NEW c \in Case, NEW e \in TimelineEntry, AppendTimeline(c, e)
  PROVE  /\ \A d \in Case : d # c => timeline'[d] = timeline[d]
         /\ Len(timeline[c]) \in Nat
         /\ Positions(c) = 1..Len(timeline[c])
         /\ Positions(c)' = 1..(Len(timeline[c]) + 1)
         /\ \A i \in Positions(c) : timeline'[c][i] = timeline[c][i]
         /\ timeline'[c][Len(timeline[c]) + 1] = e
<1>1. timeline'[c] = Append(timeline[c], e) /\ timeline[c] \in Seq(TimelineEntry)
  BY DEF AppendTimeline
<1>2. \A d \in Case : d # c => timeline'[d] = timeline[d]
  BY DEF AppendTimeline
<1> QED BY <1>1, <1>2 DEF Positions

\* A step only ever lengthens timelines.
LEMMA EffectGrows ==
  ASSUME TypeOK, Effect
  PROVE  Grows
<1>1. CASE Quiet
  BY <1>1 DEF Quiet, Grows, TypeOK, StoreTypeOK
<1>2. ASSUME NEW c \in Case, NEW e \in TimelineEntry, AppendTimeline(c, e)
      PROVE  Grows
  <2>1. timeline \in [Case -> Seq(TimelineEntry)]
    BY DEF TypeOK, StoreTypeOK
  <2>2. /\ \A d \in Case : d # c => timeline'[d] = timeline[d]
        /\ timeline'[c] = Append(timeline[c], e)
        /\ \A d \in Case : Len(timeline[d]) \in Nat
    BY <1>2, <2>1 DEF AppendTimeline
  <2>3. /\ Len(timeline'[c]) = Len(timeline[c]) + 1
        /\ \A i \in 1..Len(timeline[c]) : timeline'[c][i] = timeline[c][i]
    BY <2>1, <2>2
  <2> QED BY <2>2, <2>3 DEF Grows
<1> QED BY <1>1, <1>2 DEF Effect, Committed

\* What a timeline announced, recorded or escalated stays so when it grows: this
\* is why a stale read is still history.
LEMMA HistoryKept ==
  ASSUME TypeOK, TypeOK', Grows, NEW c \in Case
  PROVE  /\ Positions(c) \subseteq Positions(c)'
         /\ \A i \in Positions(c) : timeline'[c][i] = timeline[c][i]
         /\ \A s : Announced(c, s) => Announced(c, s)'
         /\ \A t : Recorded(c, t) => Recorded(c, t)'
         /\ Escalated(c) => Escalated(c)'
         /\ Opened(c) => Opened(c)'
<1>1. timeline[c] \in Seq(TimelineEntry) /\ timeline'[c] \in Seq(TimelineEntry)
  BY DEF TypeOK, StoreTypeOK
<1>2. /\ Positions(c) = 1..Len(timeline[c])
      /\ Positions(c)' = 1..Len(timeline'[c])
      /\ Len(timeline[c]) \in Nat /\ Len(timeline'[c]) \in Nat
  BY <1>1 DEF Positions
<1>3. Positions(c) \subseteq Positions(c)'
  BY <1>2 DEF Grows
<1>4. \A i \in Positions(c) : timeline'[c][i] = timeline[c][i]
  BY <1>2 DEF Grows
<1>5. ASSUME NEW s, Announced(c, s) PROVE Announced(c, s)'
  BY <1>3, <1>4, <1>5 DEF Announced, StatusAfter
<1>6. ASSUME NEW t, Recorded(c, t) PROVE Recorded(c, t)'
  BY <1>3, <1>4, <1>6 DEF Recorded
<1>7. Escalated(c) => Escalated(c)'
  BY <1>3, <1>4 DEF Escalated, IsEscalation
<1>8. Opened(c) => Opened(c)'
  BY <1>1, <1>2 DEF Opened, Grows
<1> QED BY <1>3, <1>4, <1>5, <1>6, <1>7, <1>8

\* A filed case stays filed, and a deadline that passed stays passed.
LEMMA FiledKept ==
  ASSUME TypeOK, Effect, NEW c \in Case, Filed(c)
  PROVE  /\ Filed(c)'
         /\ rescueCase[c].sla = "expired" => rescueCase'[c].sla = "expired"
<1>1. CASE Quiet
  BY <1>1 DEF Quiet, Filed, TypeOK, StoreTypeOK, Row
<1>2. ASSUME NEW d \in Case, NEW e \in TimelineEntry, NEW row \in Row, Committed(d, e, row)
      PROVE  Filed(c)' /\ (rescueCase[c].sla = "expired" => rescueCase'[c].sla = "expired")
  <2>1. CASE c # d
    BY <1>2, <2>1 DEF Committed, UpdateRow, Filed, TypeOK, StoreTypeOK
  <2>2. CASE c = d
    <3>1. rescueCase'[c] = row
      BY <1>2, <2>2 DEF Committed, UpdateRow, TypeOK, StoreTypeOK
    <3>2. row.status # Null
      BY <1>2, <2>2 DEF Committed, CoherentStatus, Filed, IsRemark
    <3> QED BY <1>2, <2>2, <3>1, <3>2 DEF Committed, CoherentSla, Filed
  <2> QED BY <2>1, <2>2
<1> QED BY <1>1, <1>2 DEF Effect
-----------------------------------------------------------------------------
(***************************************************************************)
(* Each part of the invariant, kept by a quiet step and by a commit.       *)
(***************************************************************************)

\* What a commit leaves of every other case, and what it makes of its own.
LEMMA CommittedCases ==
  ASSUME TypeOK, NEW c \in Case, NEW e \in TimelineEntry, NEW row \in Row,
         Committed(c, e, row)
  PROVE  /\ rescueCase'[c] = row
         /\ \A d \in Case : d # c => /\ rescueCase'[d] = rescueCase[d]
                                     /\ timeline'[d] = timeline[d]
                                     /\ caseEvents'[d] = caseEvents[d]
<1>1. /\ rescueCase'[c] = row
      /\ \A d \in Case : d # c => rescueCase'[d] = rescueCase[d] /\ timeline'[d] = timeline[d]
  BY DEF Committed, UpdateRow, AppendTimeline, TypeOK, StoreTypeOK
<1>2. \A d \in Case : d # c => caseEvents'[d] = caseEvents[d]
  BY DEF Committed, CoherentEvent, AppendEvent, TypeOK, StoreTypeOK
<1> QED BY <1>1, <1>2

\* What a quiet step leaves of a case.
LEMMA QuietCases ==
  ASSUME TypeOK, Quiet, NEW c \in Case
  PROVE  /\ timeline'[c] = timeline[c] /\ caseEvents'[c] = caseEvents[c]
         /\ rescueCase'[c].status = rescueCase[c].status
         /\ rescueCase'[c].level = rescueCase[c].level
         /\ rescueCase'[c].resolvedAt = rescueCase[c].resolvedAt
         /\ rescueCase'[c].closedAt = rescueCase[c].closedAt
         /\ rescueCase[c].sla = "expired" => rescueCase'[c].sla = "expired"
BY DEF Quiet, TypeOK, StoreTypeOK, Row

\* A commit writes the status its own record announces.
LEMMA KeepsTimelineDeterminesStatus ==
  ASSUME TypeOK, TimelineDeterminesStatus, Effect
  PROVE  TimelineDeterminesStatus'
<1> SUFFICES ASSUME NEW c \in Case
             PROVE  IF Filed(c)'
                      THEN \E i \in Positions(c)' :
                             /\ StatusAfter(timeline'[c][i]) = rescueCase'[c].status
                             /\ \A j \in Positions(c)' : j > i => IsRemark(timeline'[c][j])
                      ELSE timeline'[c] = << >>
  BY DEF TimelineDeterminesStatus, StatusAfter, IsRemark
<1> DEFINE Last(i) == /\ StatusAfter(timeline[c][i]) = rescueCase[c].status
                      /\ \A j \in Positions(c) : j > i => IsRemark(timeline[c][j])
<1>0. IF Filed(c) THEN \E i \in Positions(c) : Last(i) ELSE timeline[c] = << >>
  BY DEF TimelineDeterminesStatus
<1>1. ASSUME timeline'[c] = timeline[c], rescueCase'[c].status = rescueCase[c].status
      PROVE  IF Filed(c)'
               THEN \E i \in Positions(c)' :
                      /\ StatusAfter(timeline'[c][i]) = rescueCase'[c].status
                      /\ \A j \in Positions(c)' : j > i => IsRemark(timeline'[c][j])
               ELSE timeline'[c] = << >>
  BY <1>0, <1>1 DEF Filed, Positions
<1>2. CASE Quiet
  BY <1>1, <1>2, QuietCases
<1>3. ASSUME NEW d \in Case, NEW e \in TimelineEntry, NEW row \in Row,
             Committed(d, e, row), c # d
      PROVE  timeline'[c] = timeline[c] /\ rescueCase'[c].status = rescueCase[c].status
  BY <1>3, CommittedCases
<1>4. ASSUME NEW e \in TimelineEntry, NEW row \in Row, Committed(c, e, row)
      PROVE  \E i \in Positions(c)' :
               /\ StatusAfter(timeline'[c][i]) = rescueCase'[c].status
               /\ \A j \in Positions(c)' : j > i => IsRemark(timeline'[c][j])
  <2> DEFINE n == Len(timeline[c]) + 1
  <2>1. /\ n \in Nat \ {0}
        /\ Positions(c) = 1..(n - 1) /\ Positions(c)' = 1..n
        /\ \A i \in Positions(c) : timeline'[c][i] = timeline[c][i]
        /\ timeline'[c][n] = e
    BY <1>4, AppendedTimeline DEF Committed, TypeOK, StoreTypeOK
  <2>2. rescueCase'[c].status = row.status
    BY <1>4, CommittedCases
  <2> HIDE DEF n
  <2>3. CASE IsRemark(e)
    <3>1. Filed(c) /\ row.status = rescueCase[c].status
      BY <1>4, <2>3 DEF Committed, CoherentStatus
    <3>2. PICK i \in Positions(c) : Last(i)
      BY <1>0, <3>1
    <3>3. i \in Positions(c)' /\ StatusAfter(timeline'[c][i]) = rescueCase'[c].status
      <4>1. i \in Positions(c)' /\ timeline'[c][i] = timeline[c][i]
        BY <2>1
      <4>2. StatusAfter(timeline[c][i]) = rescueCase[c].status
        BY <3>2
      <4> QED BY <2>2, <3>1, <4>1, <4>2
    <3>4. \A j \in Positions(c)' : j \in Positions(c) \/ j = n
      BY <2>1
    <3>5. \A j \in Positions(c)' : j > i => IsRemark(timeline'[c][j])
      BY <2>1, <2>3, <3>2, <3>4
    <3> QED BY <3>3, <3>5
  <2>4. CASE ~IsRemark(e)
    <3>1. row.status = StatusAfter(e)
      BY <1>4, <2>4 DEF Committed, CoherentStatus
    <3>2. n \in Positions(c)' /\ StatusAfter(timeline'[c][n]) = rescueCase'[c].status
      BY <2>1, <2>2, <3>1
    <3>3. \A j \in Positions(c)' : ~(j > n)
      BY <2>1
    <3> QED BY <3>2, <3>3
  <2> QED BY <2>3, <2>4
<1>5. ASSUME NEW e \in TimelineEntry, NEW row \in Row, Committed(c, e, row)
      PROVE  Filed(c)'
  <2>1. rescueCase'[c].status = row.status /\ row.status # Null
    BY <1>5, CommittedCases DEF Committed, CoherentStatus, Filed, IsRemark
  <2> QED BY <2>1 DEF Filed
<1>6. CASE \E d \in Case, e \in TimelineEntry, row \in Row : Committed(d, e, row)
  BY <1>1, <1>3, <1>4, <1>5, <1>6
<1> QED BY <1>2, <1>6 DEF Effect

\* A new CaseEvent takes its fromStatus from a read, hence from history.
LEMMA KeepsEventPredecessors ==
  ASSUME TypeOK, TypeOK', TimelineDeterminesStatus, EventPredecessorsWereHeld, Effect
  PROVE  EventPredecessorsWereHeld'
<1> SUFFICES ASSUME NEW c \in Case
             PROVE  /\ Filed(c)' <=> caseEvents'[c] # << >>
                    /\ \A n \in DOMAIN caseEvents'[c] :
                         IF n = 1 THEN caseEvents'[c][n].from = Null
                                  ELSE \E i \in Positions(c)' :
                                         StatusAfter(timeline'[c][i]) = caseEvents'[c][n].from
  BY DEF EventPredecessorsWereHeld, Announced, StatusAfter
<1> DEFINE AnnouncedNext(s) == \E i \in Positions(c)' : StatusAfter(timeline'[c][i]) = s
           Goal == /\ Filed(c)' <=> caseEvents'[c] # << >>
                   /\ \A n \in DOMAIN caseEvents'[c] :
                        IF n = 1 THEN caseEvents'[c][n].from = Null
                                 ELSE AnnouncedNext(caseEvents'[c][n].from)
<1>0. /\ Filed(c) <=> caseEvents[c] # << >>
      /\ \A n \in DOMAIN caseEvents[c] :
           IF n = 1 THEN caseEvents[c][n].from = Null
                    ELSE Announced(c, caseEvents[c][n].from)
  BY DEF EventPredecessorsWereHeld
<1>1. \A s : Announced(c, s) => AnnouncedNext(s)
  BY EffectGrows, HistoryKept DEF Announced
<1> HIDE DEF AnnouncedNext
<1>2. ASSUME caseEvents'[c] = caseEvents[c], Filed(c)' <=> Filed(c)
      PROVE  Goal
  BY <1>0, <1>1, <1>2
<1>3. ASSUME Quiet PROVE Goal
  <2>1. caseEvents'[c] = caseEvents[c] /\ rescueCase'[c].status = rescueCase[c].status
    BY <1>3, QuietCases
  <2>2. Filed(c)' <=> Filed(c)
    BY <2>1 DEF Filed
  <2> QED BY <1>2, <2>1, <2>2
<1>4. ASSUME NEW d \in Case, NEW e \in TimelineEntry, NEW row \in Row, Committed(d, e, row)
      PROVE  Goal
  <2>1. CASE c # d
    <3>1. caseEvents'[c] = caseEvents[c] /\ (Filed(c)' <=> Filed(c))
      BY <1>4, <2>1, CommittedCases DEF Filed
    <3> QED BY <1>2, <3>1
  <2>2. CASE c = d /\ Filed(c) /\ UNCHANGED caseEvents
    <3>1. Filed(c)'
      BY <2>2, FiledKept
    <3> QED BY <1>2, <2>2, <3>1
  <2>3. ASSUME c = d,
               NEW from \in CaseStatus \cup {Null}, NEW to \in CaseStatus,
               AppendEvent(c, from, to),
               IF Filed(c) THEN Announced(c, from) ELSE from = Null
        PROVE  Goal
    <3>1. rescueCase'[c].status = row.status /\ row.status # Null
      BY <1>4, <2>3, CommittedCases DEF Committed, CoherentStatus, Filed, IsRemark
    <3>2. Filed(c)'
      BY <3>1 DEF Filed
    <3>3. caseEvents[c] \in Seq(CaseEvent) /\ [from |-> from, to |-> to] \in CaseEvent
      BY DEF TypeOK, StoreTypeOK, CaseEvent
    <3>4. caseEvents'[c] = Append(caseEvents[c], [from |-> from, to |-> to])
      BY <2>3 DEF AppendEvent, TypeOK, StoreTypeOK
    <3> DEFINE m == Len(caseEvents[c]) + 1
    <3>5. /\ caseEvents'[c] # << >>
          /\ m \in Nat \ {0}
          /\ DOMAIN caseEvents[c] = 1..(m - 1) /\ DOMAIN caseEvents'[c] = 1..m
          /\ \A n \in 1..(m - 1) : caseEvents'[c][n] = caseEvents[c][n]
          /\ caseEvents'[c][m].from = from
      BY <3>3, <3>4
    <3>6. m = 1 <=> ~Filed(c)
      BY <1>0, <3>3
    <3> HIDE DEF m
    <3>7. ASSUME NEW n \in DOMAIN caseEvents'[c]
          PROVE  IF n = 1 THEN caseEvents'[c][n].from = Null
                          ELSE AnnouncedNext(caseEvents'[c][n].from)
      <4>1. CASE n = m
        BY <1>1, <2>3, <3>5, <3>6, <4>1
      <4>2. CASE n # m
        <5>1. n \in DOMAIN caseEvents[c] /\ caseEvents'[c][n] = caseEvents[c][n]
          BY <3>5, <3>7, <4>2
        <5> QED BY <1>0, <1>1, <5>1
      <4> QED BY <4>1, <4>2
    <3> QED BY <3>2, <3>5, <3>7
  <2>4. ~IsRemark(e) => StatusAfter(e) \in CaseStatus
    BY StatusAfterTyped DEF IsRemark
  <2> QED BY <1>4, <2>1, <2>2, <2>3, <2>4 DEF Committed, CoherentEvent
<1> QED BY <1>3, <1>4 DEF Effect, AnnouncedNext

\* The timeline of the case a commit writes: one more position, holding e.
LEMMA CommittedTimeline ==
  ASSUME TypeOK, NEW c \in Case, NEW e \in TimelineEntry, NEW row \in Row,
         Committed(c, e, row)
  PROVE  \E n \in Nat \ {0} :
           /\ Positions(c) = 1..(n - 1)
           /\ Positions(c)' = 1..n
           /\ \A i \in Positions(c) : timeline'[c][i] = timeline[c][i]
           /\ timeline'[c][n] = e
<1>1. timeline \in [Case -> Seq(TimelineEntry)] /\ AppendTimeline(c, e)
  BY DEF Committed, TypeOK, StoreTypeOK
<1>2. /\ Len(timeline[c]) \in Nat
      /\ Positions(c) = 1..Len(timeline[c])
      /\ Positions(c)' = 1..(Len(timeline[c]) + 1)
      /\ \A i \in Positions(c) : timeline'[c][i] = timeline[c][i]
      /\ timeline'[c][Len(timeline[c]) + 1] = e
  BY <1>1, AppendedTimeline
<1> DEFINE n == Len(timeline[c]) + 1
<1>3. /\ n \in Nat \ {0} /\ n - 1 = Len(timeline[c])
      /\ Positions(c)' = 1..n /\ timeline'[c][n] = e
  BY <1>2
<1> QED BY <1>2, <1>3

\* A level is written together with its escalation record, from an earned level.
LEMMA KeepsEscalationLevel ==
  ASSUME TypeOK, EscalationLevelIsEarned, Effect
  PROVE  EscalationLevelIsEarned'
<1> SUFFICES ASSUME NEW c \in Case
             PROVE  LET escalations ==
                          { i \in Positions(c)' : IsEscalation(timeline'[c][i]) } IN
                    /\ rescueCase'[c].level = 0 <=> escalations = {}
                    /\ rescueCase'[c].level = 2 => \E i, j \in escalations : i < j
  BY DEF EscalationLevelIsEarned, IsEscalation
<1> DEFINE old == { i \in Positions(c) : IsEscalation(timeline[c][i]) }
           new == { i \in Positions(c)' : IsEscalation(timeline'[c][i]) }
           Goal == /\ rescueCase'[c].level = 0 <=> new = {}
                   /\ rescueCase'[c].level = 2 => \E i, j \in new : i < j
<1> SUFFICES Goal
  OBVIOUS
<1>0. /\ rescueCase[c].level = 0 <=> old = {}
      /\ rescueCase[c].level = 2 => \E i, j \in old : i < j
  BY DEF EscalationLevelIsEarned
<1>1. ASSUME timeline'[c] = timeline[c], rescueCase'[c].level = rescueCase[c].level
      PROVE  Goal
  <2>1. new = old
    BY <1>1 DEF Positions
  <2> QED BY <1>0, <1>1, <2>1
<1>2. CASE Quiet
  BY <1>1, <1>2, QuietCases
<1>3. ASSUME NEW d \in Case, NEW e \in TimelineEntry, NEW row \in Row,
             Committed(d, e, row), c # d
      PROVE  Goal
  BY <1>1, <1>3, CommittedCases
<1>4. ASSUME NEW e \in TimelineEntry, NEW row \in Row, Committed(c, e, row)
      PROVE  Goal
  <2>1. PICK n \in Nat \ {0} :
          /\ Positions(c) = 1..(n - 1)
          /\ Positions(c)' = 1..n
          /\ \A i \in Positions(c) : timeline'[c][i] = timeline[c][i]
          /\ timeline'[c][n] = e
    BY <1>4, CommittedTimeline
  <2>2. rescueCase'[c] = row
    BY <1>4, CommittedCases
  <2>3. CoherentLevel(c, e, row)
    BY <1>4 DEF Committed
  <2>4. \A i \in Positions(c)' : i \in Positions(c) \/ i = n
    BY <2>1
  <2>5. CASE IsEscalation(e)
    <3>1. new = old \cup {n}
      BY <2>1, <2>4, <2>5
    <3>2. \A i \in old : i < n
      BY <2>1
    <3>3. row.level # 0 /\ (row.level = 2 => old # {})
      BY <2>3, <2>5 DEF CoherentLevel, Escalated
    <3> HIDE DEF old, new
    <3> QED BY <2>2, <3>1, <3>2, <3>3
  <2>6. CASE ~IsEscalation(e)
    <3>1. new = old
      BY <2>1, <2>4, <2>6
    <3>2. row.level = rescueCase[c].level
      BY <2>3, <2>6 DEF CoherentLevel
    <3> HIDE DEF old, new
    <3> QED BY <1>0, <2>2, <3>1, <3>2
  <2> QED BY <2>5, <2>6
<1> QED BY <1>2, <1>3, <1>4 DEF Effect

\* resolvedAt and closedAt are set with the record that says so, and never cleared.
LEMMA KeepsStamps ==
  ASSUME TypeOK, StampsMatchHistory, Effect
  PROVE  StampsMatchHistory'
<1> SUFFICES ASSUME NEW c \in Case
             PROVE  /\ rescueCase'[c].resolvedAt
                         <=> \E i \in Positions(c)' : IsResolution(timeline'[c][i])
                    /\ rescueCase'[c].closedAt
                         <=> \E i \in Positions(c)' : timeline'[c][i] = StatusEntry("CLOSED")
  BY DEF StampsMatchHistory, IsResolution, Resolves, StatusEntry
<1> DEFINE Resolved == \E i \in Positions(c) : IsResolution(timeline[c][i])
           ResolvedNext == \E i \in Positions(c)' : IsResolution(timeline'[c][i])
           Closed == \E i \in Positions(c) : timeline[c][i] = StatusEntry("CLOSED")
           ClosedNext == \E i \in Positions(c)' : timeline'[c][i] = StatusEntry("CLOSED")
           Goal == /\ rescueCase'[c].resolvedAt <=> ResolvedNext
                   /\ rescueCase'[c].closedAt <=> ClosedNext
<1> SUFFICES Goal
  OBVIOUS
<1>0. (rescueCase[c].resolvedAt <=> Resolved) /\ (rescueCase[c].closedAt <=> Closed)
  BY DEF StampsMatchHistory, IsResolution
<1>1. ASSUME timeline'[c] = timeline[c],
             rescueCase'[c].resolvedAt = rescueCase[c].resolvedAt,
             rescueCase'[c].closedAt = rescueCase[c].closedAt
      PROVE  Goal
  <2>1. (ResolvedNext <=> Resolved) /\ (ClosedNext <=> Closed)
    BY <1>1 DEF Positions
  <2> HIDE DEF Resolved, ResolvedNext, Closed, ClosedNext
  <2> QED BY <1>0, <1>1, <2>1
<1>2. CASE Quiet
  BY <1>1, <1>2, QuietCases
<1>3. ASSUME NEW d \in Case, NEW e \in TimelineEntry, NEW row \in Row,
             Committed(d, e, row), c # d
      PROVE  Goal
  BY <1>1, <1>3, CommittedCases
<1>4. ASSUME NEW e \in TimelineEntry, NEW row \in Row, Committed(c, e, row)
      PROVE  Goal
  <2>1. PICK n \in Nat \ {0} :
          /\ Positions(c) = 1..(n - 1)
          /\ Positions(c)' = 1..n
          /\ \A i \in Positions(c) : timeline'[c][i] = timeline[c][i]
          /\ timeline'[c][n] = e
    BY <1>4, CommittedTimeline
  <2>2. /\ \A i \in Positions(c)' : i \in Positions(c) \/ i = n
        /\ \A i \in Positions(c) : i \in Positions(c)'
        /\ n \in Positions(c)'
    BY <2>1
  <2>3. ResolvedNext <=> Resolved \/ IsResolution(e)
    BY <2>1, <2>2, Zenon
  <2>4. ClosedNext <=> Closed \/ e = StatusEntry("CLOSED")
    BY <2>1, <2>2, Zenon
  <2>5. rescueCase'[c] = row
    BY <1>4, CommittedCases
  <2>6. CoherentStamps(c, e, row)
    BY <1>4 DEF Committed
  <2> HIDE DEF Resolved, ResolvedNext, Closed, ClosedNext
  <2> QED BY <1>0, <2>3, <2>4, <2>5, <2>6, Zenon DEF CoherentStamps
<1> QED BY <1>2, <1>3, <1>4 DEF Effect

\* SubmissionsWerePrepared: old records keep their predecessor, and a new
\* COMPLAINT_SUBMITTED follows the COMPLAINT_GENERATED its handler relied on.
LEMMA KeepsSubmissionsPrepared ==
  ASSUME TypeOK, SubmissionsWerePrepared, Effect
  PROVE  SubmissionsWerePrepared'
<1> SUFFICES ASSUME NEW c \in Case, NEW i \in Positions(c)',
                    timeline'[c][i].eventType = "COMPLAINT_SUBMITTED"
             PROVE  \E j \in Positions(c)' :
                      j < i /\ timeline'[c][j].eventType = "COMPLAINT_GENERATED"
  BY DEF SubmissionsWerePrepared
<1>1. ASSUME timeline'[c] = timeline[c]
      PROVE  \E j \in Positions(c)' :
               j < i /\ timeline'[c][j].eventType = "COMPLAINT_GENERATED"
  BY <1>1 DEF SubmissionsWerePrepared, Positions
<1>2. CASE Quiet
  BY <1>1, <1>2, QuietCases
<1>3. ASSUME NEW d \in Case, NEW e \in TimelineEntry, NEW row \in Row,
             Committed(d, e, row), c # d
      PROVE  timeline'[c] = timeline[c]
  BY <1>3, CommittedCases
<1>4. ASSUME NEW e \in TimelineEntry, NEW row \in Row, Committed(c, e, row)
      PROVE  \E j \in Positions(c)' :
               j < i /\ timeline'[c][j].eventType = "COMPLAINT_GENERATED"
  <2>1. PICK n \in Nat \ {0} :
          /\ Positions(c) = 1..(n - 1)
          /\ Positions(c)' = 1..n
          /\ \A k \in Positions(c) : timeline'[c][k] = timeline[c][k]
          /\ timeline'[c][n] = e
    BY <1>4, CommittedTimeline
  <2>2. CASE i = n
    <3>1. PICK j \in Positions(c) : timeline[c][j].eventType = "COMPLAINT_GENERATED"
      BY <1>4, <2>1, <2>2 DEF Committed, CoherentComplaint, Recorded
    <3> QED BY <2>1, <2>2, <3>1
  <2>3. CASE i # n
    <3>1. i \in Positions(c) /\ timeline[c][i].eventType = "COMPLAINT_SUBMITTED"
      BY <2>1, <2>3
    <3>2. PICK j \in Positions(c) :
            j < i /\ timeline[c][j].eventType = "COMPLAINT_GENERATED"
      BY <3>1 DEF SubmissionsWerePrepared
    <3> QED BY <2>1, <3>2
  <2> QED BY <2>2, <2>3
<1> QED BY <1>1, <1>2, <1>3, <1>4 DEF Effect

\* BreachesWereDue: a deadline that passed stays passed and an announced wait
\* stays announced; a new breach was due in the snapshot of its scan.
LEMMA KeepsBreachesWereDue ==
  ASSUME TypeOK, TimelineDeterminesStatus, BreachesWereDue, Effect
  PROVE  BreachesWereDue'
<1> SUFFICES ASSUME NEW c \in Case, NEW i \in Positions(c)', IsBreach(timeline'[c][i])
             PROVE  /\ rescueCase'[c].sla = "expired"
                    /\ \E j \in Positions(c)' :
                         j < i /\ StatusAfter(timeline'[c][j]) \in AwaitsProvider
  BY DEF BreachesWereDue, IsBreach, StatusAfter, AwaitsProvider
<1> DEFINE Goal == /\ rescueCase'[c].sla = "expired"
                   /\ \E j \in Positions(c)' :
                        j < i /\ StatusAfter(timeline'[c][j]) \in AwaitsProvider
<1>1. ASSUME NEW k \in Positions(c), IsBreach(timeline[c][k])
      PROVE  rescueCase'[c].sla = "expired"
  <2>1. timeline[c] # << >>
    BY DEF Positions
  <2>2. Filed(c)
    BY <2>1, OpenedIsFiled DEF Opened
  <2> QED BY <1>1, <2>2, FiledKept DEF BreachesWereDue
<1>2. ASSUME timeline'[c] = timeline[c]
      PROVE  Goal
  <2>1. i \in Positions(c) /\ Positions(c)' = Positions(c) /\ IsBreach(timeline[c][i])
    BY <1>2 DEF Positions
  <2> QED BY <1>1, <1>2, <2>1 DEF BreachesWereDue
<1>3. CASE Quiet
  BY <1>2, <1>3, QuietCases
<1>4. ASSUME NEW d \in Case, NEW e \in TimelineEntry, NEW row \in Row,
             Committed(d, e, row), c # d
      PROVE  timeline'[c] = timeline[c]
  BY <1>4, CommittedCases
<1>5. ASSUME NEW e \in TimelineEntry, NEW row \in Row, Committed(c, e, row)
      PROVE  Goal
  <2>1. PICK n \in Nat \ {0} :
          /\ Positions(c) = 1..(n - 1)
          /\ Positions(c)' = 1..n
          /\ \A k \in Positions(c) : timeline'[c][k] = timeline[c][k]
          /\ timeline'[c][n] = e
    BY <1>5, CommittedTimeline
  <2>2. CASE i = n
    <3>1. row.sla = "expired" /\ \E s \in AwaitsProvider : Announced(c, s)
      BY <1>5, <2>1, <2>2 DEF Committed, CoherentSla
    <3>2. PICK j \in Positions(c) : StatusAfter(timeline[c][j]) \in AwaitsProvider
      BY <3>1 DEF Announced
    <3>3. j < i /\ j \in Positions(c)' /\ timeline'[c][j] = timeline[c][j]
      BY <2>1, <2>2, <3>2
    <3>4. rescueCase'[c].sla = "expired"
      BY <1>5, <3>1, CommittedCases
    <3> QED BY <3>2, <3>3, <3>4
  <2>3. CASE i # n
    <3>1. i \in Positions(c) /\ IsBreach(timeline[c][i])
      BY <2>1, <2>3
    <3>2. PICK j \in Positions(c) : j < i /\ StatusAfter(timeline[c][j]) \in AwaitsProvider
      BY <3>1 DEF BreachesWereDue
    <3>3. j \in Positions(c)' /\ timeline'[c][j] = timeline[c][j]
      BY <2>1, <3>2
    <3> QED BY <1>1, <3>1, <3>2, <3>3
  <2> QED BY <2>2, <2>3
<1> QED BY <1>2, <1>3, <1>4, <1>5 DEF Effect
-----------------------------------------------------------------------------
(***************************************************************************)
(* ReadsAreHistory.  A read is true of the present when it is made, and    *)
(* what is true of a timeline stays true, so a read that is still held at  *)
(* a commit is true of the past.                                           *)
(***************************************************************************)

\* A memory that was history stays history when timelines grow.
LEMMA MemoryKept ==
  ASSUME TypeOK, TypeOK', Effect
  PROVE  /\ \A q \in {IdleRequest} \cup CreateRequest \cup UpdateRequest \cup EscalateRequest :
              CaseReadIsHistory(q) => CaseReadIsHistory(q)'
         /\ \A q \in {IdleComplaintRequest} \cup GenerateRequest \cup SubmitRequest :
              ComplaintReadIsHistory(q) => ComplaintReadIsHistory(q)'
<1>1. Grows
  BY EffectGrows
<1>2. ASSUME NEW q \in {IdleRequest} \cup CreateRequest \cup UpdateRequest \cup EscalateRequest,
             CaseReadIsHistory(q)
      PROVE  CaseReadIsHistory(q)'
  <2>1. CASE q.op \notin {"update", "escalate"}
    BY <2>1 DEF CaseReadIsHistory
  <2>2. CASE q.op \in {"update", "escalate"}
    <3>1. q.case \in Case
      BY <1>2, <2>2 DEF IdleRequest, CreateRequest, UpdateRequest, EscalateRequest
    <3> QED BY <1>1, <1>2, <3>1, HistoryKept DEF CaseReadIsHistory
  <2> QED BY <2>1, <2>2
<1>3. ASSUME NEW q \in {IdleComplaintRequest} \cup GenerateRequest \cup SubmitRequest,
             ComplaintReadIsHistory(q)
      PROVE  ComplaintReadIsHistory(q)'
  <2>1. CASE q.op = "idle"
    BY <2>1 DEF ComplaintReadIsHistory
  <2>2. CASE q.op # "idle"
    <3>1. q.case \in Case
      BY <1>3, <2>2 DEF IdleComplaintRequest, GenerateRequest, SubmitRequest
    <3> QED BY <1>1, <1>3, <3>1, HistoryKept DEF ComplaintReadIsHistory
  <2> QED BY <2>1, <2>2
<1> QED BY <1>2, <1>3

\* A snapshot that was history stays history: its deadline stays passed too.
LEMMA SnapshotKept ==
  ASSUME TypeOK, TypeOK', TimelineDeterminesStatus, Effect,
         NEW x \in Snapshot, SnapshotIsHistory(x)
  PROVE  SnapshotIsHistory(x)'
<1>1. x.case \in Case
  BY DEF Snapshot
<1>2. Announced(x.case, x.status) /\ (x.level > 0 => Escalated(x.case))
        /\ rescueCase[x.case].sla = "expired" /\ x.status \in AwaitsProvider
  BY DEF SnapshotIsHistory
<1>3. Filed(x.case)
  BY <1>1, <1>2, OpenedIsFiled
<1>4. rescueCase'[x.case].sla = "expired"
  BY <1>1, <1>2, <1>3, FiledKept
<1>5. Announced(x.case, x.status)' /\ (x.level > 0 => Escalated(x.case)')
  BY <1>1, <1>2, EffectGrows, HistoryKept
<1> QED BY <1>2, <1>4, <1>5 DEF SnapshotIsHistory, AwaitsProvider

\* A level above 0 was written with an escalation record.
LEMMA LevelMeansEscalated ==
  ASSUME EscalationLevelIsEarned, NEW c \in Case
  PROVE  rescueCase[c].level > 0 => Escalated(c)
<1>1. rescueCase[c].level > 0 => { i \in Positions(c) : IsEscalation(timeline[c][i]) } # {}
  BY DEF EscalationLevelIsEarned
<1> QED BY <1>1 DEF Escalated

\* updateCaseStatus and escalateCase read a status that is announced and a level
\* that is earned.
LEMMA CaseReadsNow ==
  ASSUME HistoryInv, CasesNext \/ UNCHANGED casesVars, NEW r \in CaseRequest
  PROVE  CaseReadIsHistory(caseRequest'[r])
<1> USE DEF HistoryInv, TypeOK, StoreTypeOK, CasesTypeOK
<1>1. CASE caseRequest'[r] = caseRequest[r]
  BY <1>1 DEF ReadsAreHistory
<1>2. CASE caseRequest'[r] \in {IdleRequest} \cup CreateRequest
  BY <1>2 DEF CaseReadIsHistory, IdleRequest, CreateRequest
<1>3. ASSUME NEW c \in Case, NEW to \in RequestedStatus, NEW notes \in Note \cup {Null},
             ReadForUpdate(r, c, to, notes)
      PROVE  CaseReadIsHistory(caseRequest'[r])
  BY <1>3, StatusIsAnnounced DEF ReadForUpdate, CaseReadIsHistory
<1>4. ASSUME NEW c \in Case, ReadForEscalation(r, c)
      PROVE  CaseReadIsHistory(caseRequest'[r])
  <2>1. rescueCase[c].level > 0 => Escalated(c)
    BY LevelMeansEscalated
  <2> QED BY <1>4, <2>1, StatusIsAnnounced DEF ReadForEscalation, CaseReadIsHistory
<1>5. CASE CasesNext
  <2> PICK q \in CaseRequest :
        \/ \E t \in Transaction : CreateTransaction(q, t) \/ UseTransaction(q, t)
        \/ \E c \in Case, sla \in {"none", "running"} : InsertCase(q, c, sla)
        \/ \E c \in Case, to \in RequestedStatus, notes \in Note \cup {Null} :
             ReadForUpdate(q, c, to, notes)
        \/ CommitUpdate(q)
        \/ \E c \in Case : ReadForEscalation(q, c)
        \/ CommitEscalation(q)
        \/ CaseRequestFails(q)
    BY <1>5 DEF CasesNext
  <2>1. CASE q # r
    <3>1. caseRequest'[r] = caseRequest[r]
      BY <2>1 DEF CreateTransaction, UseTransaction, InsertCase, ReadForUpdate, CommitUpdate,
                  ReadForEscalation, CommitEscalation, CaseRequestFails, Reply
    <3> QED BY <1>1, <3>1
  <2>2. CASE q = r
    <3>1. CASE \E t \in Transaction : CreateTransaction(r, t) \/ UseTransaction(r, t)
      BY <1>2, <3>1 DEF CreateTransaction, UseTransaction, CreateRequest
    <3>2. CASE \/ \E c \in Case, sla \in {"none", "running"} : InsertCase(r, c, sla)
               \/ CommitUpdate(r) \/ CommitEscalation(r) \/ CaseRequestFails(r)
      BY <1>2, <3>2 DEF InsertCase, CommitUpdate, CommitEscalation, CaseRequestFails, Reply
    <3> QED BY <1>3, <1>4, <2>2, <3>1, <3>2
  <2> QED BY <2>1, <2>2
<1>6. CASE UNCHANGED casesVars
  BY <1>1, <1>6 DEF casesVars
<1> QED BY <1>5, <1>6

\* A case that is filed has a timeline.
LEMMA FiledIsOpened ==
  ASSUME TimelineDeterminesStatus, NEW c \in Case, Filed(c)
  PROVE  Opened(c)
<1>1. PICK i \in Positions(c) : TRUE
  BY DEF TimelineDeterminesStatus
<1> QED BY <1>1 DEF Opened, Positions

\* generateComplaintPackage holds a case that is open, recordSubmission a
\* complaint that was generated.
LEMMA ComplaintReadsNow ==
  ASSUME HistoryInv, ComplaintsNext \/ UNCHANGED complaintVars, NEW r \in ComplaintRequest
  PROVE  ComplaintReadIsHistory(complaintRequest'[r])
<1> USE DEF HistoryInv, TypeOK, StoreTypeOK, ComplaintsTypeOK
<1>1. CASE complaintRequest'[r] = complaintRequest[r]
  BY <1>1 DEF ReadsAreHistory
<1>2. CASE complaintRequest'[r] = IdleComplaintRequest
  BY <1>2 DEF ComplaintReadIsHistory, IdleComplaintRequest
<1>3. ASSUME NEW c \in Case, ReadForComplaint(r, c)
      PROVE  ComplaintReadIsHistory(complaintRequest'[r])
  BY <1>3, FiledIsOpened DEF ReadForComplaint, ComplaintReadIsHistory
<1>4. ASSUME NEW k \in Complaint, ReadComplaint(r, k)
      PROVE  ComplaintReadIsHistory(complaintRequest'[r])
  BY <1>4 DEF ReadComplaint, ComplaintReadIsHistory, ReadsAreHistory
<1>5. CASE ComplaintsNext
  <2> PICK q \in ComplaintRequest :
        \/ \E c \in Case : ReadForComplaint(q, c)
        \/ \E k \in Complaint : CommitComplaint(q, k) \/ ReadComplaint(q, k)
        \/ CommitSubmission(q)
        \/ ComplaintRequestFails(q)
    BY <1>5 DEF ComplaintsNext
  <2>1. CASE q # r
    <3>1. complaintRequest'[r] = complaintRequest[r]
      BY <2>1 DEF ReadForComplaint, CommitComplaint, ReadComplaint, CommitSubmission,
                  ComplaintRequestFails, ComplaintReply
    <3> QED BY <1>1, <3>1
  <2>2. CASE q = r
    <3>1. CASE \/ \E k \in Complaint : CommitComplaint(r, k)
               \/ CommitSubmission(r) \/ ComplaintRequestFails(r)
      BY <1>2, <3>1 DEF CommitComplaint, CommitSubmission, ComplaintRequestFails, ComplaintReply
    <3> QED BY <1>3, <1>4, <2>2, <3>1
  <2> QED BY <2>1, <2>2
<1>6. CASE UNCHANGED complaintVars
  BY <1>1, <1>6 DEF complaintVars
<1> QED BY <1>5, <1>6

\* A Complaint row is written together with the record that announces it.
LEMMA ComplaintRowsRecorded ==
  ASSUME HistoryInv, TypeOK', Grows, ComplaintsNext \/ UNCHANGED complaintVars,
         NEW k \in Complaint, NEW c \in Case, complaintCase'[k] = c
  PROVE  Recorded(c, "COMPLAINT_GENERATED")'
<1> USE DEF HistoryInv, TypeOK, StoreTypeOK, ComplaintsTypeOK
<1>1. CASE complaintCase[k] = c
  <2>1. Recorded(c, "COMPLAINT_GENERATED")
    BY <1>1, NullAssumption DEF ReadsAreHistory
  <2> QED BY <2>1, HistoryKept
<1>2. CASE complaintCase[k] # c
  <2>1. PICK r \in ComplaintRequest, l \in Complaint : CommitComplaint(r, l)
    BY <1>2 DEF ComplaintsNext, complaintVars, ReadForComplaint, ReadComplaint,
                CommitSubmission, ComplaintRequestFails
  <2>2. c = complaintRequest[r].case
    BY <1>2, <2>1 DEF CommitComplaint
  <2>3. AppendTimeline(c, Entry("COMPLAINT_GENERATED"))
    BY <2>1, <2>2 DEF CommitComplaint
  <2>4. Entry("COMPLAINT_GENERATED") \in TimelineEntry
          /\ Entry("COMPLAINT_GENERATED").eventType = "COMPLAINT_GENERATED"
    BY EntryTyped DEF PlainEventType, Entry
  <2>5. /\ Len(timeline[c]) \in Nat
        /\ Positions(c)' = 1..(Len(timeline[c]) + 1)
        /\ timeline'[c][Len(timeline[c]) + 1] = Entry("COMPLAINT_GENERATED")
    BY <2>3, <2>4, AppendedTimeline
  <2>6. Len(timeline[c]) + 1 \in Positions(c)'
    BY <2>5
  <2> QED BY <2>4, <2>5, <2>6 DEF Recorded
<1> QED BY <1>1, <1>2

\* uploadEvidence holds a case that is open.
LEMMA UploadReadsNow ==
  ASSUME HistoryInv, EvidenceNext \/ UNCHANGED evidenceVars,
         NEW r \in EvidenceRequest, evidenceRequest'[r].op # "idle"
  PROVE  Opened(evidenceRequest'[r].case)
<1> USE DEF HistoryInv, TypeOK, StoreTypeOK, EvidenceTypeOK
<1>1. CASE evidenceRequest'[r] = evidenceRequest[r]
  BY <1>1 DEF ReadsAreHistory
<1>2. ASSUME NEW c \in Case, ReadForUpload(r, c)
      PROVE  Opened(evidenceRequest'[r].case)
  BY <1>2, FiledIsOpened DEF ReadForUpload
<1>3. ASSUME UploadFile(r)
      PROVE  Opened(evidenceRequest'[r].case)
  <2>1. evidenceRequest[r] \in Upload /\ evidenceRequest'[r] = [evidenceRequest[r] EXCEPT !.op = "stored"]
    BY <1>3 DEF UploadFile, IdleUpload, Upload
  <2>2. evidenceRequest'[r].case = evidenceRequest[r].case /\ evidenceRequest[r].op # "idle"
    BY <2>1 DEF Upload
  <2> QED BY <2>2 DEF ReadsAreHistory
<1>4. CASE EvidenceNext
  <2> PICK q \in EvidenceRequest :
        \/ \E c \in Case : ReadForUpload(q, c)
        \/ UploadFile(q)
        \/ \E e \in Evidence : CommitEvidence(q, e)
        \/ UploadFails(q)
    BY <1>4 DEF EvidenceNext
  <2>1. CASE q # r
    <3>1. evidenceRequest'[r] = evidenceRequest[r]
      BY <2>1 DEF ReadForUpload, UploadFile, CommitEvidence, UploadFails, UploadReply
    <3> QED BY <1>1, <3>1
  <2>2. CASE q = r
    <3>1. ~UploadFails(r) /\ \A e \in Evidence : ~CommitEvidence(r, e)
      BY DEF UploadFails, CommitEvidence, UploadReply, IdleUpload
    <3> QED BY <1>2, <1>3, <2>2, <3>1
  <2> QED BY <2>1, <2>2
<1>5. CASE UNCHANGED evidenceVars
  BY <1>1, <1>5 DEF evidenceVars
<1> QED BY <1>4, <1>5

\* A scan takes into its snapshot only cases that are overdue, at an earned level.
LEMMA SnapshotsNow ==
  ASSUME HistoryInv, EngineNext \/ UNCHANGED engineVars,
         NEW s \in Scanner, NEW x \in scan'[s].queue
  PROVE  SnapshotIsHistory(x)
<1> USE DEF HistoryInv, TypeOK, StoreTypeOK, EngineTypeOK
<1>1. CASE scan'[s].queue \subseteq scan[s].queue
  BY <1>1 DEF ReadsAreHistory
<1>2. CASE StartScan(s)
  <2>1. PICK c \in Case : Overdue(c) /\ x = Snap(c)
    BY <1>2 DEF StartScan
  <2>2. /\ x.case = c /\ x.status = rescueCase[c].status /\ x.level = rescueCase[c].level
        /\ rescueCase[c].status \in AwaitsProvider /\ rescueCase[c].sla = "expired"
    BY <2>1 DEF Snap, Overdue
  <2>3. Announced(c, rescueCase[c].status)
    BY <2>2, NullAssumption, StatusIsAnnounced DEF AwaitsProvider, CaseStatus, Filed
  <2>4. rescueCase[c].level > 0 => Escalated(c)
    BY LevelMeansEscalated
  <2> QED BY <2>2, <2>3, <2>4 DEF SnapshotIsHistory
<1>3. CASE EngineNext
  <2> PICK p \in Scanner :
        \/ StartScan(p)
        \/ \E y \in scan[p].queue : EscalateNext(p, y)
        \/ NotifyUser(p)
        \/ FinishScan(p)
        \/ ScanFails(p)
    BY <1>3 DEF EngineNext
  <2>1. CASE p # s
    <3>1. scan'[s] = scan[s]
      BY <2>1 DEF StartScan, EscalateNext, NotifyUser, FinishScan, ScanFails
    <3> QED BY <1>1, <3>1
  <2>2. ASSUME p = s, \/ \E y \in scan[p].queue : EscalateNext(p, y)
                      \/ NotifyUser(p) \/ FinishScan(p) \/ ScanFails(p)
        PROVE  scan'[s].queue \subseteq scan[s].queue
    <3>1. CASE \E y \in scan[s].queue : EscalateNext(s, y)
      <4> PICK y \in scan[s].queue : EscalateNext(s, y)
        BY <3>1
      <4>1. scan'[s].queue = scan[s].queue \ {y}
        BY DEF EscalateNext
      <4> QED BY <4>1
    <3>2. CASE NotifyUser(s)
      BY <3>2 DEF NotifyUser
    <3>3. CASE FinishScan(s) \/ ScanFails(s)
      BY <3>3 DEF FinishScan, ScanFails, IdleScan
    <3> QED BY <2>2, <3>1, <3>2, <3>3
  <2> QED BY <1>1, <1>2, <2>1, <2>2
<1>4. CASE UNCHANGED engineVars
  BY <1>1, <1>4 DEF engineVars
<1> QED BY <1>3, <1>4

\* ReadsAreHistory is kept by every step.
LEMMA KeepsReadsAreHistory ==
  ASSUME HistoryInv, TypeOK', [Next]_vars
  PROVE  ReadsAreHistory'
<1>1. TypeOK /\ TimelineDeterminesStatus /\ Effect /\ Grows
  BY StepEffect, EffectGrows DEF HistoryInv
<1>2. /\ CasesNext \/ UNCHANGED casesVars
      /\ ComplaintsNext \/ UNCHANGED complaintVars
      /\ EvidenceNext \/ UNCHANGED evidenceVars
      /\ EngineNext \/ UNCHANGED engineVars
  BY DEF Next, vars
<1>3. ASSUME NEW r \in CaseRequest
      PROVE  CaseReadIsHistory(caseRequest[r])'
  <2> PICK q \in {IdleRequest} \cup CreateRequest \cup UpdateRequest \cup EscalateRequest :
        q = caseRequest'[r]
    BY DEF TypeOK, CasesTypeOK
  <2>1. CaseReadIsHistory(q)
    BY <1>2, CaseReadsNow
  <2>2. CaseReadIsHistory(q)'
    BY <1>1, <2>1, MemoryKept
  <2> QED BY <2>2
<1>4. ASSUME NEW r \in ComplaintRequest
      PROVE  ComplaintReadIsHistory(complaintRequest[r])'
  <2> PICK q \in {IdleComplaintRequest} \cup GenerateRequest \cup SubmitRequest :
        q = complaintRequest'[r]
    BY DEF TypeOK, ComplaintsTypeOK
  <2>1. ComplaintReadIsHistory(q)
    BY <1>2, ComplaintReadsNow
  <2>2. ComplaintReadIsHistory(q)'
    BY <1>1, <2>1, MemoryKept
  <2> QED BY <2>2
<1>5. ASSUME NEW k \in Complaint, complaintCase'[k] # Null
      PROVE  Recorded(complaintCase[k], "COMPLAINT_GENERATED")'
  <2> PICK c \in Case : complaintCase'[k] = c
    BY <1>5 DEF TypeOK, ComplaintsTypeOK
  <2>1. Recorded(c, "COMPLAINT_GENERATED")'
    BY <1>1, <1>2, ComplaintRowsRecorded
  <2> QED BY <2>1
<1>6. ASSUME NEW r \in EvidenceRequest, evidenceRequest'[r].op # "idle"
      PROVE  Opened(evidenceRequest[r].case)'
  <2> PICK c \in Case : evidenceRequest'[r].case = c
    BY <1>6 DEF TypeOK, EvidenceTypeOK, IdleUpload, Upload
  <2>1. Opened(c)
    BY <1>2, <1>6, UploadReadsNow
  <2>2. Opened(c)'
    BY <1>1, <2>1, HistoryKept
  <2> QED BY <2>2
<1>7. ASSUME NEW s \in Scanner, NEW x \in scan'[s].queue
      PROVE  SnapshotIsHistory(x)'
  <2>1. x \in Snapshot
    BY DEF TypeOK, EngineTypeOK, Scan, IdleScan
  <2>2. SnapshotIsHistory(x)
    BY <1>2, SnapshotsNow
  <2> QED BY <1>1, <2>1, <2>2, SnapshotKept
<1> QED BY <1>3, <1>4, <1>5, <1>6, <1>7 DEF ReadsAreHistory

-----------------------------------------------------------------------------
(* The inductive invariant and what follows from it. *)

\* No case, no request in flight: every part of the invariant holds at the start.
LEMMA InitHistory == Init => HistoryInv
<1> SUFFICES ASSUME Init PROVE HistoryInv
  OBVIOUS
<1>1. TypeOK
  BY InitTyped
<1>2. \A c \in Case : /\ rescueCase[c] = NoRow
                      /\ timeline[c] = << >>
                      /\ caseEvents[c] = << >>
  BY DEF Init, StoreInit
<1>3. ASSUME NEW c \in Case
      PROVE  /\ Positions(c) = {} /\ timeline[c] = << >> /\ caseEvents[c] = << >>
             /\ DOMAIN caseEvents[c] = {}
             /\ ~Filed(c)
             /\ rescueCase[c].level = 0 /\ rescueCase[c].level # 2
             /\ ~rescueCase[c].resolvedAt /\ ~rescueCase[c].closedAt
  <2>1. rescueCase[c] = NoRow /\ timeline[c] = << >> /\ caseEvents[c] = << >>
    BY <1>2
  <2>2. Positions(c) = {} /\ DOMAIN caseEvents[c] = {}
    BY <2>1 DEF Positions
  <2>3. rescueCase[c].status = Null /\ rescueCase[c].level = 0 /\ rescueCase[c].level # 2
    BY <2>1 DEF NoRow
  <2>4. ~rescueCase[c].resolvedAt /\ ~rescueCase[c].closedAt
    BY <2>1 DEF NoRow
  <2> QED BY <2>1, <2>2, <2>3, <2>4 DEF Filed
<1>5. TimelineDeterminesStatus /\ EventPredecessorsWereHeld /\ EscalationLevelIsEarned
  <2>1. TimelineDeterminesStatus
    BY <1>3, Zenon DEF TimelineDeterminesStatus
  <2>2. EventPredecessorsWereHeld
    BY <1>3, Zenon DEF EventPredecessorsWereHeld
  <2>3. \A c \in Case : { i \in Positions(c) : IsEscalation(timeline[c][i]) } = {}
    BY <1>3
  <2>4. EscalationLevelIsEarned
    BY <1>3, <2>3, Zenon DEF EscalationLevelIsEarned
  <2> QED BY <2>1, <2>2, <2>4
<1>6. SubmissionsWerePrepared /\ BreachesWereDue /\ StampsMatchHistory
  BY <1>3, Zenon DEF SubmissionsWerePrepared, BreachesWereDue, StampsMatchHistory
<1>7. ReadsAreHistory
  <2>1. \A r \in CaseRequest : CaseReadIsHistory(caseRequest[r])
    BY DEF Init, CasesInit, IdleRequest, CaseReadIsHistory
  <2>2. \A r \in ComplaintRequest : ComplaintReadIsHistory(complaintRequest[r])
    BY DEF Init, ComplaintsInit, IdleComplaintRequest, ComplaintReadIsHistory
  <2>3. /\ \A k \in Complaint : complaintCase[k] = Null
        /\ \A r \in EvidenceRequest : evidenceRequest[r].op = "idle"
        /\ \A s \in Scanner : scan[s].queue = {}
    BY DEF Init, ComplaintsInit, EvidenceInit, EngineInit, IdleUpload, IdleScan
  <2> QED BY <2>1, <2>2, <2>3 DEF ReadsAreHistory
<1> QED BY <1>1, <1>5, <1>6, <1>7 DEF HistoryInv

\* One step of any handler, of the engine or of the clock.
LEMMA StepHistory ==
  ASSUME HistoryInv, [Next]_vars
  PROVE  HistoryInv'
<1>1. /\ TypeOK /\ TimelineDeterminesStatus /\ EventPredecessorsWereHeld
      /\ EscalationLevelIsEarned /\ StampsMatchHistory /\ SubmissionsWerePrepared
      /\ BreachesWereDue /\ ReadsAreHistory
  BY DEF HistoryInv
<1>2. TypeOK' /\ Effect
  BY <1>1, StepTyped, StepEffect
<1>3. TimelineDeterminesStatus' /\ EventPredecessorsWereHeld'
  BY <1>1, <1>2, KeepsTimelineDeterminesStatus, KeepsEventPredecessors
<1>4. EscalationLevelIsEarned' /\ StampsMatchHistory'
  BY <1>1, <1>2, KeepsEscalationLevel, KeepsStamps
<1>5. SubmissionsWerePrepared' /\ BreachesWereDue'
  BY <1>1, <1>2, KeepsSubmissionsPrepared, KeepsBreachesWereDue
<1>6. ReadsAreHistory'
  BY <1>2, KeepsReadsAreHistory
<1> QED BY <1>2, <1>3, <1>4, <1>5, <1>6 DEF HistoryInv

\* Whatever the handlers and the engine interleave, the tables agree with the
\* timelines, and what a handler in flight remembers is history.
THEOREM HistoryCorrect == Spec => []HistoryInv
BY InitHistory, StepHistory, PTL DEF Spec

\* The RescueCase row always shows the status its timeline announced last.
THEOREM StatusCorrect == Spec => []TimelineDeterminesStatus
<1>1. HistoryInv => TimelineDeterminesStatus
  BY DEF HistoryInv
<1> QED BY <1>1, HistoryCorrect, PTL

\* CaseEvents never name a predecessor the case did not have.
THEOREM EventsCorrect == Spec => []EventPredecessorsWereHeld
<1>1. HistoryInv => EventPredecessorsWereHeld
  BY DEF HistoryInv
<1> QED BY <1>1, HistoryCorrect, PTL

\* No race of escalateCase with the SLA engine credits a level that the recorded
\* escalations do not account for.
THEOREM LevelCorrect == Spec => []EscalationLevelIsEarned
<1>1. HistoryInv => EscalationLevelIsEarned
  BY DEF HistoryInv
<1> QED BY <1>1, HistoryCorrect, PTL

\* resolvedAt and closedAt say what the timeline says.
THEOREM StampsCorrect == Spec => []StampsMatchHistory
<1>1. HistoryInv => StampsMatchHistory
  BY DEF HistoryInv
<1> QED BY <1>1, HistoryCorrect, PTL

\* recordSubmission never dispatches a complaint that was not generated.
THEOREM SubmissionsCorrect == Spec => []SubmissionsWerePrepared
<1>1. HistoryInv => SubmissionsWerePrepared
  BY DEF HistoryInv
<1> QED BY <1>1, HistoryCorrect, PTL

\* processSlaExpirations never records a breach on a case that was not due once.
THEOREM BreachesCorrect == Spec => []BreachesWereDue
<1>1. HistoryInv => BreachesWereDue
  BY DEF HistoryInv
<1> QED BY <1>1, HistoryCorrect, PTL

\* What updateCaseStatus, escalateCase, recordSubmission and a scan remember of a case
\* across an await is something its history has, whoever commits meanwhile.
THEOREM ReadsCorrect == Spec => []ReadsAreHistory
<1>1. HistoryInv => ReadsAreHistory
  BY DEF HistoryInv
<1> QED BY <1>1, HistoryCorrect, PTL

-----------------------------------------------------------------------------
(* The handlers implement the append-only journal. *)

\* A commit is one of the journal's four steps: which one is told by its record.
LEMMA CommitIsJournalStep ==
  ASSUME HistoryInv, NEW c \in Case, NEW e \in TimelineEntry, NEW row \in Row,
         Committed(c, e, row)
  PROVE  Journal!Next
<1> USE DEF HistoryInv, TypeOK, StoreTypeOK
<1> DEFINE status == [d \in Case |-> rescueCase[d].status]
           level  == [d \in Case |-> rescueCase[d].level]
           statusNext == [d \in Case |-> rescueCase'[d].status]
           levelNext  == [d \in Case |-> rescueCase'[d].level]
<1>1. Journal!Write(c, e)
  BY DEF Committed, AppendTimeline, Journal!Write
<1>2. statusNext = [status EXCEPT ![c] = row.status]
        /\ levelNext = [level EXCEPT ![c] = row.level]
  BY DEF Committed, UpdateRow
<1>3. row.level = rescueCase[c].level => levelNext = level
  BY <1>2
<1>4. row.status = rescueCase[c].status => statusNext = status
  BY <1>2
<1>5. Filed(c) => timeline[c] # << >>
  BY FiledIsOpened DEF Opened
<1>6. CASE IsEscalation(e)
  <2>1. /\ StatusAfter(e) = "ESCALATED" /\ ~IsRemark(e) /\ e # Entry("CASE_CREATED")
    BY <1>6, NullAssumption DEF IsEscalation, StatusAfter, IsRemark, CaseStatus, Entry
  <2>2. Filed(c) /\ row.status = StatusAfter(e) /\ row.level \in 1..2
    BY <1>6, <2>1 DEF Committed, CoherentOpening, CoherentStatus, CoherentLevel, Row
  <2>3. StatusAfter(e) # Null
    BY <2>1 DEF IsRemark
  <2>4. Journal!Escalate(c, e)
    BY <1>1, <1>2, <1>5, <1>6, <2>2, <2>3 DEF Journal!Escalate
  <2> QED BY <2>4 DEF Journal!Next
<1>7. CASE ~IsEscalation(e) /\ ~Filed(c)
  <2>1. e = Entry("CASE_CREATED") /\ StatusAfter(e) = "OPEN" /\ ~IsRemark(e)
    BY <1>7, EntryKinds DEF Committed, CoherentOpening
  <2>2. row.status = "OPEN" /\ row.level = rescueCase[c].level
    BY <1>7, <2>1 DEF Committed, CoherentStatus, CoherentLevel
  <2>3. timeline[c] = << >>
    BY <1>7, UnfiledRow
  <2>4. Journal!Open(c, e)
    BY <1>1, <1>2, <1>3, <1>7, <2>1, <2>2, <2>3 DEF Journal!Open
  <2> QED BY <2>4 DEF Journal!Next
<1>8. CASE ~IsEscalation(e) /\ Filed(c) /\ ~IsRemark(e)
  <2>1. row.status = StatusAfter(e) /\ row.level = rescueCase[c].level
    BY <1>8 DEF Committed, CoherentStatus, CoherentLevel
  <2>2. StatusAfter(e) # Null
    BY <1>8 DEF IsRemark
  <2>3. Journal!Move(c, e)
    BY <1>1, <1>2, <1>3, <1>5, <1>8, <2>1, <2>2 DEF Journal!Move
  <2> QED BY <2>3 DEF Journal!Next
<1>9. CASE ~IsEscalation(e) /\ Filed(c) /\ IsRemark(e)
  <2>1. row.status = rescueCase[c].status /\ row.level = rescueCase[c].level
    BY <1>9 DEF Committed, CoherentStatus, CoherentLevel
  <2>2. StatusAfter(e) = Null
    BY <1>9 DEF IsRemark
  <2>3. Journal!Remark(c, e)
    BY <1>1, <1>3, <1>4, <1>5, <1>9, <2>1, <2>2 DEF Journal!Remark
  <2> QED BY <2>3 DEF Journal!Next
<1> QED BY <1>6, <1>7, <1>8, <1>9

\* A quiet step does not touch the journal.
LEMMA QuietIsJournalStutter ==
  ASSUME TypeOK, Quiet
  PROVE  UNCHANGED Journal!journalVars
<1>1. timeline' = timeline
  BY DEF Quiet
<1>2. /\ [d \in Case |-> rescueCase'[d].status] = [d \in Case |-> rescueCase[d].status]
      /\ [d \in Case |-> rescueCase'[d].level] = [d \in Case |-> rescueCase[d].level]
  BY QuietCases
<1> QED BY <1>1, <1>2 DEF Journal!journalVars

\* The interleaved handlers, the engine and the clock implement CaseJournal: a
\* case opens once, its timeline only grows, and its status and level move only
\* with the record that announces the move.
THEOREM JournalRefinement == Spec => ImplementsJournal
<1>1. Init => Journal!Init
  BY DEF Init, StoreInit, NoRow, Journal!Init
<1>2. ASSUME HistoryInv, [Next]_vars
      PROVE  [Journal!Next]_(Journal!journalVars)
  <2>1. Effect
    BY <1>2, StepEffect
  <2>2. CASE Quiet
    BY <1>2, <2>2, QuietIsJournalStutter DEF HistoryInv
  <2>3. CASE \E c \in Case, e \in TimelineEntry, row \in Row : Committed(c, e, row)
    BY <1>2, <2>3, CommitIsJournalStep
  <2> QED BY <2>1, <2>2, <2>3 DEF Effect
<1> QED BY <1>1, <1>2, HistoryCorrect, PTL DEF Spec, ImplementsJournal, Journal!Spec
=============================================================================
