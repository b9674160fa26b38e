----------------------------- MODULE CaseCountProofs -----------------------------
(***************************************************************************)
(* Proofs about RescueCases that count: records against rows, records      *)
(* against events and records against notifications, for every set of      *)
(* cases, requests, scanners, complaints and evidence and for every bound. *)
(***************************************************************************)
EXTENDS RescueCasesProofs, FiniteSetTheorems

\* Timelines are finite, and so is every selection of their records.
LEMMA SelectionFinite ==
  ASSUME TypeOK, NEW c \in Case, NEW S \in SUBSET Positions(c)
  PROVE  IsFiniteSet(S) /\ Cardinality(S) \in Nat
<1>1. Positions(c) = 1..Len(timeline[c]) /\ Len(timeline[c]) \in Int
  BY DEF TypeOK, StoreTypeOK, Positions
<1>2. IsFiniteSet(Positions(c))
  BY <1>1, FS_Interval
<1> QED BY <1>2, FS_Subset, FS_CardinalityType

LEMMA RecordsFinite ==
  ASSUME TypeOK, NEW c \in Case, NEW t
  PROVE  Records(c, t) \in Nat
<1>1. { i \in Positions(c) : timeline[c][i].eventType = t } \in SUBSET Positions(c)
  OBVIOUS
<1> QED BY <1>1, SelectionFinite DEF Records

\* A record that is written counts once, for its type and its case.
LEMMA RecordsAppended ==
  ASSUME TypeOK, NEW c \in Case, NEW e \in TimelineEntry, AppendTimeline(c, e),
         NEW d \in Case, NEW t
  PROVE  Records(d, t)' = IF d = c /\ e.eventType = t THEN Records(d, t) + 1 ELSE Records(d, t)
<1> DEFINE S == { i \in Positions(d) : timeline[d][i].eventType = t }
           n == Len(timeline[c]) + 1
<1>1. Records(d, t) = Cardinality(S) /\ Records(d, t)' = Cardinality(S')
  BY DEF Records
<1>2. /\ d # c => timeline'[d] = timeline[d]
      /\ n \in Nat /\ n \notin Positions(c)
      /\ Positions(c)' = Positions(c) \cup {n}
      /\ \A i \in Positions(c) : timeline'[c][i] = timeline[c][i]
      /\ timeline'[c][n] = e
  BY AppendedTimeline DEF TypeOK, StoreTypeOK
<1>3. IsFiniteSet(S)
  BY SelectionFinite
<1> HIDE DEF n
<1>4. CASE d = c /\ e.eventType = t
  <2>1. S' = S \cup {n} /\ n \notin S
    BY <1>2, <1>4
  <2> HIDE DEF S
  <2>2. Cardinality(S \cup {n}) = Cardinality(S) + 1
    BY <1>3, <2>1, FS_AddElement
  <2> QED BY <1>1, <1>4, <2>1, <2>2
<1>5. CASE ~(d = c /\ e.eventType = t)
  <2>1. S' = S
    BY <1>2, <1>5 DEF Positions
  <2> QED BY <1>1, <1>5, <2>1
<1> QED BY <1>4, <1>5

LEMMA RecordsSame ==
  ASSUME timeline' = timeline
  PROVE  \A c, t : Records(c, t)' = Records(c, t)
BY DEF Records, Positions

\* createCase, updateCaseStatus and escalateCase write no record of a complaint, of
\* evidence or of a breach.
LEMMA CasesRecord ==
  ASSUME HistoryInv, CasesNext, NEW c \in Case,
         NEW t \in {"COMPLAINT_GENERATED", "COMPLAINT_SUBMITTED", "EVIDENCE_UPLOADED",
                    "AUTOMATED_SLA_BREACH"}
  PROVE  Records(c, t)' = Records(c, t)
<1> USE DEF HistoryInv, TypeOK, StoreTypeOK, CasesTypeOK
<1> PICK r \in CaseRequest :
      \/ \E x \in Transaction : CreateTransaction(r, x) \/ UseTransaction(r, x)
      \/ \E d \in Case, sla \in {"none", "running"} : InsertCase(r, d, sla)
      \/ \E d \in Case, to \in RequestedStatus, notes \in Note \cup {Null} :
           ReadForUpdate(r, d, to, notes)
      \/ CommitUpdate(r)
      \/ \E d \in Case : ReadForEscalation(r, d)
      \/ CommitEscalation(r)
      \/ CaseRequestFails(r)
  BY DEF CasesNext
<1>1. ASSUME NEW d \in Case, NEW e \in TimelineEntry, AppendTimeline(d, e), e.eventType # t
      PROVE  Records(c, t)' = Records(c, t)
  BY <1>1, RecordsAppended
<1>2. ASSUME \/ \E x \in Transaction : CreateTransaction(r, x) \/ UseTransaction(r, x)
             \/ \E d \in Case, to \in RequestedStatus, notes \in Note \cup {Null} :
                  ReadForUpdate(r, d, to, notes)
             \/ \E d \in Case : ReadForEscalation(r, d)
             \/ CaseRequestFails(r)
      PROVE  timeline' = timeline
  BY <1>2 DEF CreateTransaction, UseTransaction, ReadForUpdate, ReadForEscalation,
              CaseRequestFails, storeVars
<1>3. ASSUME NEW d \in Case, NEW sla \in {"none", "running"}, InsertCase(r, d, sla)
      PROVE  Records(c, t)' = Records(c, t)
  <2>1. Entry("CASE_CREATED") \in TimelineEntry /\ Entry("CASE_CREATED").eventType # t
    BY EntryTyped DEF PlainEventType, Entry
  <2> QED BY <1>1, <1>3, <2>1 DEF InsertCase
<1>4. ASSUME CommitUpdate(r) PROVE Records(c, t)' = Records(c, t)
  <2> DEFINE q == caseRequest[r]
  <2>1. q \in UpdateRequest
    BY <1>4 DEF CommitUpdate, IdleRequest, CreateRequest, UpdateRequest, EscalateRequest
  <2>2. q.case \in Case /\ q.to \in CaseStatus
    BY <2>1, RequestedStatusAssumption DEF UpdateRequest
  <2>3. StatusEntry(q.to) \in TimelineEntry /\ StatusEntry(q.to).eventType # t
    BY <2>2, EntryTyped DEF StatusEntry
  <2> QED BY <1>1, <1>4, <2>2, <2>3 DEF CommitUpdate
<1>5. ASSUME CommitEscalation(r) PROVE Records(c, t)' = Records(c, t)
  <2> DEFINE q == caseRequest[r]
  <2>0. q \in EscalateRequest
    BY <1>5 DEF CommitEscalation, IdleRequest, CreateRequest, UpdateRequest, EscalateRequest
  <2>1. q.case \in Case
    BY <2>0 DEF EscalateRequest
  <2>2. Entry("ESCALATION") \in TimelineEntry /\ Entry("ESCALATION").eventType # t
    BY EntryTyped DEF PlainEventType, Entry
  <2> QED BY <1>1, <1>5, <2>1, <2>2 DEF CommitEscalation
<1> QED BY <1>2, <1>3, <1>4, <1>5, RecordsSame

-----------------------------------------------------------------------------
(* Rows and records                                                        *)

\* What RowsMatchTimeline needs of the rows: there are finitely many of them, a complaint
\* that does not exist has no submissions, and a submission in flight knows whose its
\* complaint is.
RowsKnown ==
  /\ \A c \in Case : /\ IsFiniteSet(ComplaintsOf(c))
                     /\ IsFiniteSet(SubmissionsOf(c))
                     /\ IsFiniteSet(EvidenceOf(c))
  /\ \A k \in Complaint : complaintCase[k] = Null => submissions[k] = 0
  /\ \A r \in ComplaintRequest :
       complaintRequest[r].op = "submit"
         => complaintCase[complaintRequest[r].complaint] = complaintRequest[r].case

RowsInv == RowsKnown /\ RowsMatchTimeline

\* What the rows of a case are.
LEMMA RowsOf ==
  ASSUME NEW c
  PROVE  /\ \A k : k \in ComplaintsOf(c) <=> k \in Complaint /\ complaintCase[k] = c
         /\ \A x : x \in SubmissionsOf(c)
                     <=> \E k \in Complaint : \E n \in 1..submissions[k] :
                           complaintCase[k] = c /\ x = <<k, n>>
BY DEF ComplaintsOf, SubmissionsOf

\* A row that is added counts once.
LEMMA AddedRow ==
  ASSUME NEW S, NEW x, IsFiniteSet(S), x \notin S
  PROVE  IsFiniteSet(S \cup {x}) /\ Cardinality(S \cup {x}) = Cardinality(S) + 1
BY FS_AddElement

\* A step of the complaint service.
LEMMA ComplaintsKeepRows ==
  ASSUME HistoryInv, RowsInv, ComplaintsNext, UNCHANGED evidenceVars
  PROVE  RowsInv'
<1> USE DEF HistoryInv, TypeOK, StoreTypeOK, ComplaintsTypeOK
<1> PICK r \in ComplaintRequest :
      \/ \E c \in Case : ReadForComplaint(r, c)
      \/ \E k \in Complaint : CommitComplaint(r, k) \/ ReadComplaint(r, k)
      \/ CommitSubmission(r)
      \/ ComplaintRequestFails(r)
  BY DEF ComplaintsNext
<1>0. EvidenceOf(Null)' = EvidenceOf(Null) /\ \A c \in Case : EvidenceOf(c)' = EvidenceOf(c)
  BY DEF EvidenceOf, evidenceVars
<1>a. \A x \in ComplaintRequest : \A q : q.op # "submit" /\ complaintRequest' = [complaintRequest EXCEPT ![r] = q]
        => (complaintRequest'[x].op = "submit" => x # r /\ complaintRequest'[x] = complaintRequest[x])
  OBVIOUS
<1>b. ASSUME UNCHANGED <<timeline, complaintCase, submissions>>,
             \A x \in ComplaintRequest : complaintRequest'[x].op = "submit"
               => complaintCase[complaintRequest'[x].complaint] = complaintRequest'[x].case
      PROVE  RowsInv'
  <2>1. \A c \in Case : ComplaintsOf(c)' = ComplaintsOf(c) /\ SubmissionsOf(c)' = SubmissionsOf(c)
    BY <1>b DEF ComplaintsOf, SubmissionsOf
  <2>2. RowsKnown'
    BY <1>0, <1>b, <2>1 DEF RowsInv, RowsKnown
  <2>3. RowsMatchTimeline'
    BY <1>0, <1>b, <2>1, RecordsSame DEF RowsInv, RowsMatchTimeline
  <2> QED BY <2>2, <2>3 DEF RowsInv
<1>1. ASSUME NEW c \in Case, ReadForComplaint(r, c) PROVE RowsInv'
  <2>1. complaintRequest' = [complaintRequest EXCEPT ![r] = [op |-> "generate", case |-> c]]
        /\ UNCHANGED <<timeline, complaintCase, submissions>>
    BY <1>1 DEF ReadForComplaint
  <2>2. \A x \in ComplaintRequest : complaintRequest'[x].op = "submit" => complaintRequest'[x] = complaintRequest[x]
    BY <2>1
  <2> QED BY <1>b, <2>1, <2>2 DEF RowsInv, RowsKnown
<1>2. ASSUME ComplaintRequestFails(r) PROVE RowsInv'
  <2>1. complaintRequest' = [complaintRequest EXCEPT ![r] = IdleComplaintRequest]
        /\ UNCHANGED <<timeline, complaintCase, submissions>>
    BY <1>2 DEF ComplaintRequestFails, ComplaintReply, storeVars
  <2>2. \A x \in ComplaintRequest : complaintRequest'[x].op = "submit" => complaintRequest'[x] = complaintRequest[x]
    BY <2>1 DEF IdleComplaintRequest
  <2> QED BY <1>b, <2>1, <2>2 DEF RowsInv, RowsKnown
<1>3. ASSUME NEW k \in Complaint, ReadComplaint(r, k) PROVE RowsInv'
  <2>1. complaintRequest' = [complaintRequest EXCEPT ![r] =
                               [op |-> "submit", complaint |-> k, case |-> complaintCase[k]]]
        /\ UNCHANGED <<timeline, complaintCase, submissions>>
    BY <1>3 DEF ReadComplaint
  <2>2. \A x \in ComplaintRequest \ {r} : complaintRequest'[x] = complaintRequest[x]
    BY <2>1
  <2>3. complaintRequest'[r].complaint = k /\ complaintRequest'[r].case = complaintCase[k]
    BY <2>1
  <2> QED BY <1>b, <2>1, <2>2, <2>3 DEF RowsInv, RowsKnown
<1>4. ASSUME NEW k \in Complaint, CommitComplaint(r, k) PROVE RowsInv'
  <2>1. PICK c \in Case : c = complaintRequest[r].case
    BY <1>4 DEF CommitComplaint, IdleComplaintRequest, GenerateRequest, SubmitRequest
  <2>2. /\ complaintCase[k] = Null /\ complaintCase' = [complaintCase EXCEPT ![k] = c]
        /\ submissions' = submissions /\ AppendTimeline(c, Entry("COMPLAINT_GENERATED"))
        /\ complaintRequest' = [complaintRequest EXCEPT ![r] = IdleComplaintRequest]
    BY <1>4, <2>1 DEF CommitComplaint, ComplaintReply
  <2>3. Entry("COMPLAINT_GENERATED") \in TimelineEntry
        /\ Entry("COMPLAINT_GENERATED").eventType = "COMPLAINT_GENERATED"
    BY EntryTyped DEF PlainEventType, Entry
  <2>4. /\ \A d \in Case : d # c => ComplaintsOf(d)' = ComplaintsOf(d)
        /\ ComplaintsOf(c)' = ComplaintsOf(c) \cup {k} /\ k \notin ComplaintsOf(c)
    BY <2>2, NullAssumption DEF ComplaintsOf
  <2>5. \A d \in Case : SubmissionsOf(d)' = SubmissionsOf(d)
    <3> SUFFICES ASSUME NEW d \in Case, NEW x PROVE x \in SubmissionsOf(d)' <=> x \in SubmissionsOf(d)
      OBVIOUS
    <3>1. \A j \in Complaint : \A n \in 1..submissions[j] : j # k
      BY <2>2 DEF RowsInv, RowsKnown
    <3>2. x \in SubmissionsOf(d)' <=> \E j \in Complaint : \E n \in 1..submissions'[j] :
                                        complaintCase'[j] = d /\ x = <<j, n>>
      BY DEF SubmissionsOf, ComplaintsOf
    <3> QED BY <2>2, <3>1, <3>2, RowsOf
  <2>6. \A d \in Case : IsFiniteSet(ComplaintsOf(d)')
          /\ Cardinality(ComplaintsOf(d)') = IF d = c THEN Cardinality(ComplaintsOf(d)) + 1
                                                       ELSE Cardinality(ComplaintsOf(d))
    <3>1. \A d \in Case : IsFiniteSet(ComplaintsOf(d))
      BY DEF RowsInv, RowsKnown
    <3>2. /\ IsFiniteSet(ComplaintsOf(c) \cup {k})
          /\ Cardinality(ComplaintsOf(c) \cup {k}) = Cardinality(ComplaintsOf(c)) + 1
      <4> DEFINE R == ComplaintsOf(c)
      <4>1. IsFiniteSet(R) /\ k \notin R
        BY <2>4, <3>1
      <4> HIDE DEF R
      <4>2. IsFiniteSet(R \cup {k}) /\ Cardinality(R \cup {k}) = Cardinality(R) + 1
        BY <4>1, AddedRow
      <4> QED BY <4>2 DEF R
    <3> QED BY <2>4, <3>1, <3>2
  <2>7. RowsKnown'
    <3>1. \A x \in ComplaintRequest : complaintRequest'[x].op = "submit" =>
            complaintRequest'[x] = complaintRequest[x]
            /\ complaintCase'[complaintRequest[x].complaint] = complaintRequest[x].case
      <4> SUFFICES ASSUME NEW x \in ComplaintRequest, complaintRequest'[x].op = "submit"
                   PROVE  complaintRequest'[x] = complaintRequest[x]
                          /\ complaintCase'[complaintRequest[x].complaint] = complaintRequest[x].case
        OBVIOUS
      <4>1. complaintRequest'[x] = complaintRequest[x]
        BY <2>2 DEF IdleComplaintRequest
      <4>2. complaintRequest[x].complaint \in Complaint /\ complaintRequest[x].case \in Case
        BY <4>1 DEF IdleComplaintRequest, GenerateRequest, SubmitRequest
      <4>3. complaintCase[complaintRequest[x].complaint] = complaintRequest[x].case
        BY <4>1 DEF RowsInv, RowsKnown
      <4> QED BY <2>2, <4>1, <4>2, <4>3, NullAssumption
    <3>2. \A j \in Complaint : complaintCase'[j] = Null => submissions'[j] = 0
      BY <2>1, <2>2, NullAssumption DEF RowsInv, RowsKnown
    <3>3. \A d \in Case : IsFiniteSet(SubmissionsOf(d)') /\ IsFiniteSet(EvidenceOf(d)')
      BY <1>0, <2>5 DEF RowsInv, RowsKnown
    <3> QED BY <2>6, <3>1, <3>2, <3>3 DEF RowsKnown
  <2>8. RowsMatchTimeline'
    <3> SUFFICES ASSUME NEW d \in Case
                 PROVE  /\ Records(d, "COMPLAINT_GENERATED")' = Cardinality(ComplaintsOf(d)')
                        /\ Records(d, "COMPLAINT_SUBMITTED")' = Cardinality(SubmissionsOf(d)')
                        /\ Records(d, "EVIDENCE_UPLOADED")'   = Cardinality(EvidenceOf(d)')
      BY DEF RowsMatchTimeline
    <3>1. /\ Records(d, "COMPLAINT_GENERATED") = Cardinality(ComplaintsOf(d))
          /\ Records(d, "COMPLAINT_SUBMITTED") = Cardinality(SubmissionsOf(d))
          /\ Records(d, "EVIDENCE_UPLOADED")   = Cardinality(EvidenceOf(d))
      BY DEF RowsInv, RowsMatchTimeline
    <3>2. /\ Records(d, "COMPLAINT_GENERATED")' = IF d = c THEN Records(d, "COMPLAINT_GENERATED") + 1
                                                           ELSE Records(d, "COMPLAINT_GENERATED")
          /\ Records(d, "COMPLAINT_SUBMITTED")' = Records(d, "COMPLAINT_SUBMITTED")
          /\ Records(d, "EVIDENCE_UPLOADED")' = Records(d, "EVIDENCE_UPLOADED")
      BY <2>2, <2>3, RecordsAppended
    <3> QED BY <1>0, <2>5, <2>6, <3>1, <3>2
  <2> QED BY <2>7, <2>8 DEF RowsInv
<1>5. ASSUME CommitSubmission(r) PROVE RowsInv'
  <2>1. PICK c \in Case, k \in Complaint :
          c = complaintRequest[r].case /\ k = complaintRequest[r].complaint /\ complaintCase[k] = c
    <3>1. complaintRequest[r] \in SubmitRequest /\ complaintRequest[r].op = "submit"
      BY <1>5 DEF CommitSubmission, IdleComplaintRequest, GenerateRequest, SubmitRequest
    <3> QED BY <3>1 DEF SubmitRequest, RowsInv, RowsKnown
  <2> DEFINE m == submissions[k] + 1
  <2>2. /\ complaintCase' = complaintCase /\ submissions' = [submissions EXCEPT ![k] = m]
        /\ AppendTimeline(c, Entry("COMPLAINT_SUBMITTED"))
        /\ complaintRequest' = [complaintRequest EXCEPT ![r] = IdleComplaintRequest]
        /\ m \in Nat /\ 1..m = 1..submissions[k] \cup {m} /\ m \notin 1..submissions[k]
    BY <1>5, <2>1 DEF CommitSubmission, ComplaintReply
  <2>3. Entry("COMPLAINT_SUBMITTED") \in TimelineEntry
        /\ Entry("COMPLAINT_SUBMITTED").eventType = "COMPLAINT_SUBMITTED"
    BY EntryTyped DEF PlainEventType, Entry
  <2> HIDE DEF m
  <2>4. \A d \in Case : ComplaintsOf(d)' = ComplaintsOf(d)
    BY <2>2 DEF ComplaintsOf
  <2>5. /\ \A d \in Case : d # c => SubmissionsOf(d)' = SubmissionsOf(d)
        /\ SubmissionsOf(c)' = SubmissionsOf(c) \cup {<<k, m>>} /\ <<k, m>> \notin SubmissionsOf(c)
    <3>1. /\ submissions'[k] = m
          /\ \A j \in Complaint \ {k} : submissions'[j] = submissions[j]
          /\ \A n : n \in 1..m <=> n \in 1..submissions[k] \/ n = m
      BY <2>2
    <3>2. \A d \in Case : \A x : x \in SubmissionsOf(d)'
            <=> \E j \in Complaint : \E n \in 1..submissions'[j] : complaintCase[j] = d /\ x = <<j, n>>
      BY <2>2 DEF SubmissionsOf, ComplaintsOf
    <3>3. ASSUME NEW d \in Case, NEW x
          PROVE  x \in SubmissionsOf(d)' <=> x \in SubmissionsOf(d) \/ (d = c /\ x = <<k, m>>)
      <4>1. ASSUME x \in SubmissionsOf(d)' PROVE x \in SubmissionsOf(d) \/ (d = c /\ x = <<k, m>>)
        <5>1. PICK j \in Complaint : \E n \in 1..submissions'[j] : complaintCase[j] = d /\ x = <<j, n>>
          BY <3>2, <4>1
        <5>2. CASE j = k
          <6>1. PICK n \in 1..m : d = c /\ x = <<k, n>>
            BY <2>1, <3>1, <5>1, <5>2
          <6>2. CASE n = m
            BY <6>1, <6>2
          <6>3. CASE n \in 1..submissions[k]
            <7>1. \E i \in 1..submissions[k] : complaintCase[k] = d /\ x = <<k, i>>
              BY <2>1, <6>1, <6>3
            <7> QED BY <7>1, RowsOf
          <6> QED BY <3>1, <6>2, <6>3
        <5>3. CASE j # k
          <6>1. \E n \in 1..submissions[j] : complaintCase[j] = d /\ x = <<j, n>>
            BY <3>1, <5>1, <5>3
          <6> QED BY <6>1, RowsOf
        <5> QED BY <5>2, <5>3
      <4>2. ASSUME x \in SubmissionsOf(d) PROVE x \in SubmissionsOf(d)'
        <5>1. PICK j \in Complaint : \E n \in 1..submissions[j] : complaintCase[j] = d /\ x = <<j, n>>
          BY <4>2, RowsOf
        <5>2. \E n \in 1..submissions'[j] : complaintCase[j] = d /\ x = <<j, n>>
          BY <3>1, <5>1
        <5> QED BY <3>2, <5>2
      <4>3. <<k, m>> \in SubmissionsOf(c)'
        <5>1. m \in 1..submissions'[k]
          BY <3>1
        <5> QED BY <2>1, <3>2, <5>1
      <4> QED BY <4>1, <4>2, <4>3
    <3>4. <<k, m>> \notin SubmissionsOf(c)
      BY <2>2, RowsOf
    <3>5. \A d \in Case : d # c => SubmissionsOf(d)' = SubmissionsOf(d)
      BY <3>3
    <3>6. SubmissionsOf(c)' = SubmissionsOf(c) \cup {<<k, m>>}
      BY <3>3
    <3> QED BY <3>4, <3>5, <3>6
  <2>6. \A d \in Case : IsFiniteSet(SubmissionsOf(d)')
          /\ Cardinality(SubmissionsOf(d)') = IF d = c THEN Cardinality(SubmissionsOf(d)) + 1
                                                        ELSE Cardinality(SubmissionsOf(d))
    <3>1. \A d \in Case : IsFiniteSet(SubmissionsOf(d))
      BY DEF RowsInv, RowsKnown
    <3>2. /\ IsFiniteSet(SubmissionsOf(c) \cup {<<k, m>>})
          /\ Cardinality(SubmissionsOf(c) \cup {<<k, m>>}) = Cardinality(SubmissionsOf(c)) + 1
      <4> DEFINE R == SubmissionsOf(c)
      <4>1. IsFiniteSet(R) /\ <<k, m>> \notin R
        BY <2>5, <3>1
      <4> HIDE DEF R
      <4>2. IsFiniteSet(R \cup {<<k, m>>}) /\ Cardinality(R \cup {<<k, m>>}) = Cardinality(R) + 1
        BY <4>1, AddedRow
      <4> QED BY <4>2 DEF R
    <3> QED BY <2>5, <3>1, <3>2
  <2>7. RowsKnown'
    <3>1. \A x \in ComplaintRequest : complaintRequest'[x].op = "submit" =>
            complaintRequest'[x] = complaintRequest[x]
      BY <2>2 DEF IdleComplaintRequest
    <3>2. \A j \in Complaint : complaintCase'[j] = Null => submissions'[j] = 0
      BY <2>1, <2>2, NullAssumption DEF RowsInv, RowsKnown
    <3> QED BY <1>0, <2>2, <2>4, <2>6, <3>1, <3>2 DEF RowsInv, RowsKnown
  <2>8. RowsMatchTimeline'
    <3> SUFFICES ASSUME NEW d \in Case
                 PROVE  /\ Records(d, "COMPLAINT_GENERATED")' = Cardinality(ComplaintsOf(d)')
                        /\ Records(d, "COMPLAINT_SUBMITTED")' = Cardinality(SubmissionsOf(d)')
                        /\ Records(d, "EVIDENCE_UPLOADED")'   = Cardinality(EvidenceOf(d)')
      BY DEF RowsMatchTimeline
    <3>1. /\ Records(d, "COMPLAINT_GENERATED") = Cardinality(ComplaintsOf(d))
          /\ Records(d, "COMPLAINT_SUBMITTED") = Cardinality(SubmissionsOf(d))
          /\ Records(d, "EVIDENCE_UPLOADED")   = Cardinality(EvidenceOf(d))
      BY DEF RowsInv, RowsMatchTimeline
    <3>2. /\ Records(d, "COMPLAINT_GENERATED")' = Records(d, "COMPLAINT_GENERATED")
          /\ Records(d, "COMPLAINT_SUBMITTED")' = IF d = c THEN Records(d, "COMPLAINT_SUBMITTED") + 1
                                                           ELSE Records(d, "COMPLAINT_SUBMITTED")
          /\ Records(d, "EVIDENCE_UPLOADED")' = Records(d, "EVIDENCE_UPLOADED")
      BY <2>2, <2>3, RecordsAppended
    <3> QED BY <1>0, <2>4, <2>6, <3>1, <3>2
  <2> QED BY <2>7, <2>8 DEF RowsInv
<1> QED BY <1>1, <1>2, <1>3, <1>4, <1>5

\* A step that leaves the rows and their records alone.
LEMMA RowsUntouched ==
  ASSUME RowsInv, UNCHANGED <<complaintVars, evidenceVars>>,
         \A c \in Case : \A t \in {"COMPLAINT_GENERATED", "COMPLAINT_SUBMITTED", "EVIDENCE_UPLOADED"} :
           Records(c, t)' = Records(c, t)
  PROVE  RowsInv'
<1>1. \A c \in Case : ComplaintsOf(c)' = ComplaintsOf(c) /\ SubmissionsOf(c)' = SubmissionsOf(c)
                      /\ EvidenceOf(c)' = EvidenceOf(c)
  BY DEF ComplaintsOf, SubmissionsOf, EvidenceOf, complaintVars, evidenceVars
<1>2. RowsKnown'
  BY <1>1 DEF RowsInv, RowsKnown, complaintVars
<1>3. RowsMatchTimeline'
  BY <1>1 DEF RowsInv, RowsMatchTimeline
<1> QED BY <1>2, <1>3 DEF RowsInv

\* A step of the evidence service.
LEMMA EvidenceKeepsRows ==
  ASSUME HistoryInv, RowsInv, EvidenceNext, UNCHANGED complaintVars
  PROVE  RowsInv'
<1> USE DEF HistoryInv, TypeOK, StoreTypeOK, EvidenceTypeOK
<1> PICK r \in EvidenceRequest :
      \/ \E c \in Case : ReadForUpload(r, c)
      \/ UploadFile(r)
      \/ \E e \in Evidence : CommitEvidence(r, e)
      \/ UploadFails(r)
  BY DEF EvidenceNext
<1>0. \A c \in Case : ComplaintsOf(c)' = ComplaintsOf(c) /\ SubmissionsOf(c)' = SubmissionsOf(c)
  BY DEF ComplaintsOf, SubmissionsOf, complaintVars
<1>1. ASSUME (\E c \in Case : ReadForUpload(r, c)) \/ UploadFile(r) \/ UploadFails(r)
      PROVE  RowsInv'
  <2>1. timeline' = timeline /\ evidenceCase' = evidenceCase
    BY <1>1 DEF ReadForUpload, UploadFile, UploadFails, storeVars
  <2>2. \A c \in Case : EvidenceOf(c)' = EvidenceOf(c)
    BY <2>1 DEF EvidenceOf
  <2>3. RowsKnown'
    BY <1>0, <2>2 DEF RowsInv, RowsKnown, complaintVars
  <2>4. RowsMatchTimeline'
    BY <1>0, <2>1, <2>2, RecordsSame DEF RowsInv, RowsMatchTimeline
  <2> QED BY <2>3, <2>4 DEF RowsInv
<1>2. ASSUME NEW e \in Evidence, CommitEvidence(r, e) PROVE RowsInv'
  <2>1. PICK c \in Case : c = evidenceRequest[r].case
    BY <1>2 DEF CommitEvidence, IdleUpload, Upload
  <2>2. /\ evidenceCase[e] = Null /\ evidenceCase' = [evidenceCase EXCEPT ![e] = c]
        /\ AppendTimeline(c, Entry("EVIDENCE_UPLOADED"))
    BY <1>2, <2>1 DEF CommitEvidence
  <2>3. Entry("EVIDENCE_UPLOADED") \in TimelineEntry
        /\ Entry("EVIDENCE_UPLOADED").eventType = "EVIDENCE_UPLOADED"
    BY EntryTyped DEF PlainEventType, Entry
  <2>4. /\ \A d \in Case : d # c => EvidenceOf(d)' = EvidenceOf(d)
        /\ EvidenceOf(c)' = EvidenceOf(c) \cup {e} /\ e \notin EvidenceOf(c)
    BY <2>2, NullAssumption DEF EvidenceOf
  <2>5. \A d \in Case : IsFiniteSet(EvidenceOf(d)')
          /\ Cardinality(EvidenceOf(d)') = IF d = c THEN Cardinality(EvidenceOf(d)) + 1
                                                     ELSE Cardinality(EvidenceOf(d))
    <3>1. \A d \in Case : IsFiniteSet(EvidenceOf(d))
      BY DEF RowsInv, RowsKnown
    <3>2. /\ IsFiniteSet(EvidenceOf(c) \cup {e})
          /\ Cardinality(EvidenceOf(c) \cup {e}) = Cardinality(EvidenceOf(c)) + 1
      <4> DEFINE R == EvidenceOf(c)
      <4>1. IsFiniteSet(R) /\ e \notin R
        BY <2>4, <3>1
      <4> HIDE DEF R
      <4>2. IsFiniteSet(R \cup {e}) /\ Cardinality(R \cup {e}) = Cardinality(R) + 1
        BY <4>1, AddedRow
      <4> QED BY <4>2 DEF R
    <3> QED BY <2>4, <3>1, <3>2
  <2>6. RowsKnown'
    BY <1>0, <2>5 DEF RowsInv, RowsKnown, complaintVars
  <2>7. RowsMatchTimeline'
    <3> SUFFICES ASSUME NEW d \in Case
                 PROVE  /\ Records(d, "COMPLAINT_GENERATED")' = Cardinality(ComplaintsOf(d)')
                        /\ Records(d, "COMPLAINT_SUBMITTED")' = Cardinality(SubmissionsOf(d)')
                        /\ Records(d, "EVIDENCE_UPLOADED")'   = Cardinality(EvidenceOf(d)')
      BY DEF RowsMatchTimeline
    <3>1. /\ Records(d, "COMPLAINT_GENERATED") = Cardinality(ComplaintsOf(d))
          /\ Records(d, "COMPLAINT_SUBMITTED") = Cardinality(SubmissionsOf(d))
          /\ Records(d, "EVIDENCE_UPLOADED")   = Cardinality(EvidenceOf(d))
      BY DEF RowsInv, RowsMatchTimeline
    <3>2. /\ Records(d, "COMPLAINT_GENERATED")' = Records(d, "COMPLAINT_GENERATED")
          /\ Records(d, "COMPLAINT_SUBMITTED")' = Records(d, "COMPLAINT_SUBMITTED")
          /\ Records(d, "EVIDENCE_UPLOADED")' = IF d = c THEN Records(d, "EVIDENCE_UPLOADED") + 1
                                                         ELSE Records(d, "EVIDENCE_UPLOADED")
      BY <2>2, <2>3, RecordsAppended
    <3> QED BY <1>0, <2>5, <3>1, <3>2
  <2> QED BY <2>6, <2>7 DEF RowsInv
<1> QED BY <1>1, <1>2

\* What a scan does to the timelines: at most it records one breach.
LEMMA EngineRecords ==
  ASSUME HistoryInv, EngineNext
  PROVE  \/ timeline' = timeline
         \/ \E c \in Case : AppendTimeline(c, Entry("AUTOMATED_SLA_BREACH"))
<1> PICK s \in Scanner :
      \/ StartScan(s)
      \/ \E x \in scan[s].queue : EscalateNext(s, x)
      \/ NotifyUser(s)
      \/ FinishScan(s)
      \/ ScanFails(s)
  BY DEF EngineNext
<1>1. ASSUME StartScan(s) \/ NotifyUser(s) \/ FinishScan(s) \/ ScanFails(s) PROVE timeline' = timeline
  BY <1>1 DEF StartScan, NotifyUser, FinishScan, ScanFails, storeVars
<1>2. ASSUME NEW x \in scan[s].queue, EscalateNext(s, x)
      PROVE  x.case \in Case /\ AppendTimeline(x.case, Entry("AUTOMATED_SLA_BREACH"))
  <2>1. scan[s] \in Scan
    BY DEF HistoryInv, TypeOK, EngineTypeOK
  <2>2. x \in Snapshot
    BY <2>1 DEF Scan, IdleScan
  <2> QED BY <1>2, <2>2 DEF EscalateNext, Snapshot
<1> QED BY <1>1, <1>2

LEMMA BreachEntry ==
  Entry("AUTOMATED_SLA_BREACH") \in TimelineEntry
    /\ Entry("AUTOMATED_SLA_BREACH").eventType = "AUTOMATED_SLA_BREACH"
BY EntryTyped DEF PlainEventType, Entry

\* Rows and records go together through every step.
LEMMA RowsStep ==
  ASSUME HistoryInv, RowsInv, [Next]_vars
  PROVE  RowsInv'
<1>1. CASE CasesNext /\ UNCHANGED <<complaintVars, evidenceVars, engineVars>>
  BY <1>1, CasesRecord, RowsUntouched
<1>2. CASE EngineNext /\ UNCHANGED <<casesVars, complaintVars, evidenceVars>>
  <2>1. \A c \in Case : \A t \in {"COMPLAINT_GENERATED", "COMPLAINT_SUBMITTED", "EVIDENCE_UPLOADED"} :
          Records(c, t)' = Records(c, t)
    BY <1>2, EngineRecords, RecordsSame, RecordsAppended, BreachEntry DEF HistoryInv
  <2> QED BY <1>2, <2>1, RowsUntouched
<1>3. CASE Clock /\ UNCHANGED <<casesVars, complaintVars, evidenceVars, engineVars>>
  <2>1. timeline' = timeline
    BY <1>3 DEF Clock, DeadlinePasses
  <2> QED BY <1>3, <2>1, RecordsSame, RowsUntouched
<1>4. CASE UNCHANGED vars
  <2>1. timeline' = timeline /\ UNCHANGED <<complaintVars, evidenceVars>>
    BY <1>4 DEF vars, storeVars
  <2> QED BY <2>1, RecordsSame, RowsUntouched
<1> QED BY <1>1, <1>2, <1>3, <1>4, ComplaintsKeepRows, EvidenceKeepsRows DEF Next

LEMMA InitRecords ==
  ASSUME Init, NEW c \in Case
  PROVE  Positions(c) = {} /\ \A t : Records(c, t) = 0
<1>1. Positions(c) = {}
  BY DEF Init, StoreInit, Positions
<1>2. \A t : { i \in Positions(c) : timeline[c][i].eventType = t } = {}
  BY <1>1
<1> QED BY <1>1, <1>2, FS_EmptySet DEF Records

LEMMA InitRows == Init => RowsInv
<1> SUFFICES ASSUME Init PROVE RowsInv
  OBVIOUS
<1>1. /\ \A k \in Complaint : complaintCase[k] = Null /\ submissions[k] = 0
      /\ \A r \in ComplaintRequest : complaintRequest[r].op = "idle"
      /\ \A e \in Evidence : evidenceCase[e] = Null
  BY DEF Init, ComplaintsInit, EvidenceInit, IdleComplaintRequest
<1>2. ASSUME NEW c \in Case PROVE ComplaintsOf(c) = {} /\ SubmissionsOf(c) = {} /\ EvidenceOf(c) = {}
  BY <1>1, NullAssumption DEF ComplaintsOf, SubmissionsOf, EvidenceOf
<1>3. RowsKnown
  BY <1>1, <1>2, FS_EmptySet DEF RowsKnown
<1>4. RowsMatchTimeline
  BY <1>2, InitRecords, FS_EmptySet DEF RowsMatchTimeline
<1> QED BY <1>3, <1>4 DEF RowsInv

\* Every complaint, submission and evidence row has its timeline record and no record is
\* without its row, for every interleaving of handlers, failures included.
THEOREM RowsCorrect == Spec => []RowsMatchTimeline
<1>1. HistoryInv /\ RowsInv /\ [Next]_vars => RowsInv'
  BY RowsStep
<1>2. RowsInv => RowsMatchTimeline
  BY DEF RowsInv
<1> QED BY HistoryCorrect, InitRows, <1>1, <1>2, PTL DEF Spec

-----------------------------------------------------------------------------
(* Records and events                                                      *)

\* EventsMirrorTimeline, for one case.
EventsMirror(c) ==
  /\ Cardinality(Logged(c)) = Len(caseEvents[c])
  /\ \A i \in Logged(c) : caseEvents[c][Rank(c, i)].to = StatusAfter(timeline[c][i])

IsLogged(e) == ~IsComplaintEntry(e) /\ ~IsRemark(e)

\* The rank of a record is a position among the events.
LEMMA RankRange ==
  ASSUME TypeOK, NEW c \in Case, NEW i \in Logged(c)
  PROVE  /\ IsFiniteSet(Logged(c))
         /\ Rank(c, i) \in 1..Cardinality(Logged(c))
<1> DEFINE S == { j \in Logged(c) : j <= i }
<1>1. Logged(c) \in SUBSET Positions(c) /\ S \in SUBSET Positions(c) /\ S \subseteq Logged(c)
  BY DEF Logged
<1>2. /\ IsFiniteSet(Logged(c)) /\ Cardinality(Logged(c)) \in Nat
      /\ IsFiniteSet(S) /\ Cardinality(S) \in Nat
  BY <1>1, SelectionFinite
<1>3. i \in S
  BY DEF Logged, TypeOK, StoreTypeOK, Positions
<1> HIDE DEF S
<1>4. Cardinality(S) <= Cardinality(Logged(c))
  BY <1>1, <1>2, FS_Subset
<1>5. Cardinality(S) # 0
  BY <1>2, <1>3, FS_EmptySet
<1>6. Rank(c, i) = Cardinality(S)
  BY DEF Rank, S
<1> QED BY <1>2, <1>4, <1>5, <1>6

\* A case whose timeline and events a step leaves alone still agrees with itself.
LEMMA EventsMirrorKept ==
  ASSUME NEW c \in Case, timeline'[c] = timeline[c], caseEvents'[c] = caseEvents[c],
         EventsMirror(c)
  PROVE  EventsMirror(c)'
<1>1. Logged(c)' = Logged(c)
  BY DEF Logged, Positions, IsComplaintEntry, IsRemark, StatusAfter
<1>2. \A i : Rank(c, i)' = Rank(c, i)
  BY <1>1 DEF Rank
<1> QED BY <1>1, <1>2 DEF EventsMirror, StatusAfter

\* A commit writes a record and its event together, or a record that has none.
LEMMA EventsMirrorCommitted ==
  ASSUME TypeOK, NEW c \in Case, NEW e \in TimelineEntry, NEW row \in Row,
         Committed(c, e, row), EventsMirror(c)
  PROVE  EventsMirror(c)'
<1> USE DEF TypeOK, StoreTypeOK
<1> PICK n \in Nat \ {0} :
      /\ Positions(c) = 1..(n - 1)
      /\ Positions(c)' = 1..n
      /\ \A i \in Positions(c) : timeline'[c][i] = timeline[c][i]
      /\ timeline'[c][n] = e
  BY CommittedTimeline
<1>1. /\ Logged(c) = { i \in Positions(c) : IsLogged(timeline[c][i]) }
      /\ Logged(c)' = { i \in Positions(c)' : IsLogged(timeline'[c][i]) }
  BY DEF Logged, IsLogged, IsComplaintEntry, IsRemark, StatusAfter
<1>2. \A i \in Logged(c) : i \in Int /\ i < n /\ timeline'[c][i] = timeline[c][i]
  BY <1>1
<1>3. CASE ~IsLogged(e)
  <2>1. Logged(c)' = Logged(c)
    BY <1>1, <1>2, <1>3
  <2>2. caseEvents' = caseEvents
    BY <1>3 DEF IsLogged, Committed, CoherentEvent
  <2>3. \A i : Rank(c, i)' = Rank(c, i)
    BY <2>1 DEF Rank
  <2> QED BY <1>2, <2>1, <2>2, <2>3 DEF EventsMirror, StatusAfter
<1>4. CASE IsLogged(e)
  <2> DEFINE L == Cardinality(Logged(c))
  <2>1. Logged(c)' = Logged(c) \cup {n} /\ n \notin Logged(c)
    BY <1>1, <1>2, <1>4
  <2>2. Logged(c) \in SUBSET Positions(c)
    BY <1>1
  <2>3. IsFiniteSet(Logged(c)) /\ L \in Nat
    BY <2>2, SelectionFinite
  <2>4. Cardinality(Logged(c)') = L + 1
    <3>1. Cardinality(Logged(c) \cup {n}) = L + 1
      BY <2>1, <2>3, FS_AddElement
    <3> QED BY <2>1, <3>1
  <2>5. Rank(c, n)' = L + 1
    <3>1. { j \in Logged(c)' : j <= n } = Logged(c)'
      BY <1>2, <2>1
    <3> QED BY <2>4, <3>1 DEF Rank
  <2>6. ASSUME NEW i \in Logged(c) PROVE Rank(c, i)' = Rank(c, i) /\ Rank(c, i) \in 1..L
    <3>1. { j \in Logged(c)' : j <= i } = { j \in Logged(c) : j <= i }
      BY <1>2, <2>1
    <3> QED BY <3>1, RankRange DEF Rank
  <2>7. PICK from \in CaseStatus \cup {Null} : AppendEvent(c, from, StatusAfter(e))
    BY <1>4 DEF IsLogged, Committed, CoherentEvent
  <2>8. /\ caseEvents[c] \in Seq(CaseEvent) /\ Len(caseEvents[c]) = L
        /\ caseEvents'[c] = Append(caseEvents[c], [from |-> from, to |-> StatusAfter(e)])
    BY <2>7 DEF AppendEvent, EventsMirror
  <2>9. /\ Len(caseEvents'[c]) = L + 1
        /\ caseEvents'[c][L + 1].to = StatusAfter(e)
        /\ \A k \in 1..L : caseEvents'[c][k] = caseEvents[c][k]
    <3> DEFINE q == caseEvents[c]
               x == [from |-> from, to |-> StatusAfter(e)]
    <3>1. x.to = StatusAfter(e)
      OBVIOUS
    <3>2. q \in Seq(CaseEvent) /\ Len(q) = L /\ caseEvents'[c] = Append(q, x)
      BY <2>8
    <3> HIDE DEF x, q, L
    <3>3. /\ Len(Append(q, x)) = L + 1
          /\ Append(q, x)[L + 1] = x
          /\ \A k \in 1..L : Append(q, x)[k] = q[k]
      BY <2>3, <3>2
    <3> QED BY <3>1, <3>2, <3>3 DEF q
  <2>10. ASSUME NEW i \in Logged(c)'
         PROVE  caseEvents'[c][Rank(c, i)'].to = StatusAfter(timeline'[c][i])
    <3>1. CASE i = n
      BY <2>5, <2>9, <3>1
    <3>2. CASE i \in Logged(c)
      <4>1. caseEvents[c][Rank(c, i)].to = StatusAfter(timeline[c][i])
        BY <3>2 DEF EventsMirror
      <4>2. caseEvents'[c][Rank(c, i)'] = caseEvents[c][Rank(c, i)]
        BY <2>6, <2>9, <3>2
      <4>3. timeline'[c][i] = timeline[c][i]
        BY <1>2, <3>2
      <4> QED BY <4>1, <4>2, <4>3
    <3> QED BY <2>1, <3>1, <3>2
  <2> QED BY <2>4, <2>9, <2>10 DEF EventsMirror, StatusAfter
<1> QED BY <1>3, <1>4

LEMMA EventsStep ==
  ASSUME HistoryInv, EventsMirrorTimeline, [Next]_vars
  PROVE  EventsMirrorTimeline'
<1> SUFFICES ASSUME NEW c \in Case PROVE EventsMirror(c)'
  BY DEF EventsMirrorTimeline, EventsMirror
<1>1. TypeOK /\ EventsMirror(c) /\ Effect
  BY StepEffect DEF HistoryInv, EventsMirrorTimeline, EventsMirror
<1>2. CASE Quiet
  BY <1>1, <1>2, QuietCases, EventsMirrorKept
<1>3. ASSUME NEW d \in Case, NEW e \in TimelineEntry, NEW row \in Row, Committed(d, e, row)
      PROVE  EventsMirror(c)'
  <2>1. CASE d = c
    BY <1>1, <1>3, <2>1, EventsMirrorCommitted
  <2>2. CASE d # c
    BY <1>1, <1>3, <2>2, CommittedCases, EventsMirrorKept
  <2> QED BY <2>1, <2>2
<1> QED BY <1>1, <1>2, <1>3 DEF Effect

LEMMA InitEvents == Init => EventsMirrorTimeline
<1> SUFFICES ASSUME Init, NEW c \in Case PROVE EventsMirror(c)
  BY DEF EventsMirrorTimeline, EventsMirror
<1>1. caseEvents[c] = << >>
  BY DEF Init, StoreInit
<1>2. Logged(c) = {}
  BY InitRecords DEF Logged
<1> QED BY <1>1, <1>2, FS_EmptySet DEF EventsMirror

\* updateCaseStatus, escalateCase, createCase and the engine write a CaseEvent with every
\* timeline record that announces a status, whatever commits in between; the statuses
\* and their order are the same in both logs.
THEOREM EventsMirrored == Spec => []EventsMirrorTimeline
<1>1. HistoryInv /\ EventsMirrorTimeline /\ [Next]_vars => EventsMirrorTimeline'
  BY EventsStep
<1> QED BY HistoryCorrect, InitEvents, <1>1, PTL DEF Spec

-----------------------------------------------------------------------------
(* Breaches and notifications                                              *)

\* A scan that is about to tell an owner is one of finitely many, and
\* NotificationsFollowBreaches holds.
NotifyInv ==
  /\ \A c \in Case : IsFiniteSet(TellersOf(c))
  /\ NotificationsFollowBreaches

\* generateComplaintPackage, recordSubmission and uploadEvidence record no breach.
LEMMA ComplaintsRecordNoBreach ==
  ASSUME TypeOK, ComplaintsNext, NEW c \in Case
  PROVE  Breaches(c)' = Breaches(c)
<1> USE DEF TypeOK, ComplaintsTypeOK
<1> PICK r \in ComplaintRequest :
      \/ \E d \in Case : ReadForComplaint(r, d)
      \/ \E k \in Complaint : CommitComplaint(r, k) \/ ReadComplaint(r, k)
      \/ CommitSubmission(r)
      \/ ComplaintRequestFails(r)
  BY DEF ComplaintsNext
<1>1. ASSUME NEW d \in Case, NEW t \in {"COMPLAINT_GENERATED", "COMPLAINT_SUBMITTED"},
             AppendTimeline(d, Entry(t))
      PROVE  Breaches(c)' = Breaches(c)
  <2>1. Entry(t) \in TimelineEntry /\ Entry(t).eventType # "AUTOMATED_SLA_BREACH"
    BY EntryTyped DEF PlainEventType, Entry
  <2> QED BY <1>1, <2>1, RecordsAppended DEF Breaches
<1>2. ASSUME \/ \E d \in Case : ReadForComplaint(r, d)
             \/ \E k \in Complaint : ReadComplaint(r, k)
             \/ ComplaintRequestFails(r)
      PROVE  Breaches(c)' = Breaches(c)
  <2>1. timeline' = timeline
    BY <1>2 DEF ReadForComplaint, ReadComplaint, ComplaintRequestFails, storeVars
  <2> QED BY <2>1, RecordsSame DEF Breaches
<1>3. ASSUME NEW k \in Complaint, CommitComplaint(r, k) PROVE Breaches(c)' = Breaches(c)
  <2>1. complaintRequest[r].case \in Case
    BY <1>3 DEF CommitComplaint, IdleComplaintRequest, GenerateRequest, SubmitRequest
  <2> QED BY <1>1, <1>3, <2>1 DEF CommitComplaint
<1>4. ASSUME CommitSubmission(r) PROVE Breaches(c)' = Breaches(c)
  <2>1. complaintRequest[r] \in SubmitRequest
    BY <1>4 DEF CommitSubmission, IdleComplaintRequest, GenerateRequest, SubmitRequest
  <2>2. complaintRequest[r].case \in Case
    BY <2>1 DEF SubmitRequest
  <2> QED BY <1>1, <1>4, <2>2 DEF CommitSubmission
<1> QED BY <1>2, <1>3, <1>4

LEMMA EvidenceRecordsNoBreach ==
  ASSUME TypeOK, EvidenceNext, NEW c \in Case
  PROVE  Breaches(c)' = Breaches(c)
<1> USE DEF TypeOK, EvidenceTypeOK
<1> PICK r \in EvidenceRequest :
      \/ \E d \in Case : ReadForUpload(r, d)
      \/ UploadFile(r)
      \/ \E e \in Evidence : CommitEvidence(r, e)
      \/ UploadFails(r)
  BY DEF EvidenceNext
<1>1. ASSUME (\E d \in Case : ReadForUpload(r, d)) \/ UploadFile(r) \/ UploadFails(r)
      PROVE  Breaches(c)' = Breaches(c)
  <2>1. timeline' = timeline
    BY <1>1 DEF ReadForUpload, UploadFile, UploadFails, storeVars
  <2> QED BY <2>1, RecordsSame DEF Breaches
<1>2. ASSUME NEW e \in Evidence, CommitEvidence(r, e) PROVE Breaches(c)' = Breaches(c)
  <2>1. evidenceRequest[r].case \in Case
    BY <1>2 DEF CommitEvidence, IdleUpload, Upload
  <2>2. /\ Entry("EVIDENCE_UPLOADED") \in TimelineEntry
        /\ Entry("EVIDENCE_UPLOADED").eventType # "AUTOMATED_SLA_BREACH"
    BY EntryTyped DEF PlainEventType, Entry
  <2> QED BY <1>2, <2>1, <2>2, RecordsAppended DEF CommitEvidence, Breaches
<1> QED BY <1>1, <1>2

\* What a step that is none of the engine's leaves of the notifications.
LEMMA OthersKeepNotify ==
  ASSUME NotifyInv, UNCHANGED engineVars, \A c \in Case : Breaches(c)' = Breaches(c)
  PROVE  NotifyInv'
<1>1. \A c \in Case : TellersOf(c)' = TellersOf(c)
  BY DEF TellersOf, engineVars
<1> QED BY <1>1 DEF NotifyInv, NotificationsFollowBreaches, engineVars

\* A scan that moves joins or leaves the tellers of a case.
LEMMA TellersMove ==
  ASSUME EngineTypeOK, NEW s \in Scanner, NEW q, scan' = [scan EXCEPT ![s] = q],
         NEW c \in Case, IsFiniteSet(TellersOf(c))
  PROVE  /\ IsFiniteSet(TellersOf(c)')
         /\ Cardinality(TellersOf(c)) \in Nat
         /\ Cardinality(TellersOf(c)') =
              Cardinality(TellersOf(c)) + (IF q.current = c THEN 1 ELSE 0)
                                        - (IF scan[s].current = c THEN 1 ELSE 0)
<1> DEFINE T == TellersOf(c)
<1>1. scan'[s] = q /\ \A p \in Scanner : p # s => scan'[p] = scan[p]
  BY DEF EngineTypeOK
<1>2. /\ s \in T <=> scan[s].current = c
      /\ TellersOf(c)' = IF q.current = c THEN T \cup {s} ELSE T \ {s}
  BY <1>1 DEF TellersOf
<1> HIDE DEF T
<1>3. IsFiniteSet(T) /\ Cardinality(T) \in Nat
  BY FS_CardinalityType DEF T
<1>4. CASE q.current = c /\ s \notin T
  <2>1. IsFiniteSet(T \cup {s}) /\ Cardinality(T \cup {s}) = Cardinality(T) + 1
    BY <1>3, <1>4, FS_AddElement
  <2> QED BY <1>2, <1>3, <1>4, <2>1 DEF T
<1>5. CASE q.current # c /\ s \in T
  <2>1. IsFiniteSet(T \ {s}) /\ Cardinality(T \ {s}) = Cardinality(T) - 1
    BY <1>3, <1>5, FS_RemoveElement
  <2> QED BY <1>2, <1>3, <1>5, <2>1 DEF T
<1>6. CASE q.current = c <=> s \in T
  <2>1. TellersOf(c)' = T
    BY <1>2, <1>6
  <2>2. (q.current = c) = (scan[s].current = c)
    BY <1>2, <1>6
  <2>3. (IF q.current = c THEN 1 ELSE 0) = (IF scan[s].current = c THEN 1 ELSE 0)
          /\ (IF q.current = c THEN 1 ELSE 0) \in Int
    BY <2>2
  <2> QED BY <1>3, <2>1, <2>3 DEF T
<1> QED BY <1>4, <1>5, <1>6

\* What a scan breaches, tells and loses in one step has to add up.
Balance(c, s, q) ==
  (Breaches(c)' - Breaches(c)) - (notifications'[c] - notifications[c])
    - (IF q.current = c THEN 1 ELSE 0) + (IF scan[s].current = c THEN 1 ELSE 0)

LEMMA BalancedStep ==
  ASSUME TypeOK, NotifyInv, NEW s \in Scanner, NEW q, scan' = [scan EXCEPT ![s] = q],
         NEW lost \in Nat, failures' = failures + lost,
         \A c \in Case : notifications'[c] \in Nat /\ Breaches(c)' \in Nat,
         \A c \in Case : Balance(c, s, q) \in 0..lost
  PROVE  NotifyInv'
<1> SUFFICES ASSUME NEW c \in Case
             PROVE  /\ IsFiniteSet(TellersOf(c)')
                    /\ notifications'[c] + Cardinality(TellersOf(c)') <= Breaches(c)'
                    /\ Breaches(c)' <= notifications'[c] + Cardinality(TellersOf(c)') + failures'
  BY DEF NotifyInv, NotificationsFollowBreaches
<1> DEFINE T == Cardinality(TellersOf(c))
           U == Cardinality(TellersOf(c)')
           joins == IF q.current = c THEN 1 ELSE 0
           leaves == IF scan[s].current = c THEN 1 ELSE 0
<1>1. EngineTypeOK /\ IsFiniteSet(TellersOf(c))
  BY DEF TypeOK, NotifyInv
<1>2. IsFiniteSet(TellersOf(c)') /\ T \in Nat /\ U = T + joins - leaves
  BY <1>1, TellersMove
<1>3. notifications[c] \in Nat /\ failures \in Nat /\ Breaches(c) \in Nat
  BY <1>1, MaxFailuresAssumption, RecordsFinite DEF EngineTypeOK, Breaches
<1>4. /\ notifications[c] + T <= Breaches(c)
      /\ Breaches(c) <= notifications[c] + T + failures
  BY DEF NotifyInv, NotificationsFollowBreaches
<1>5. joins \in {0, 1} /\ leaves \in {0, 1}
  OBVIOUS
<1>6. (Breaches(c)' - Breaches(c)) - (notifications'[c] - notifications[c]) - joins + leaves \in 0..lost
  BY DEF Balance
<1>7. Breaches(c)' \in Nat /\ notifications'[c] \in Nat
  OBVIOUS
<1> HIDE DEF T, U, joins, leaves
<1> QED BY <1>2, <1>3, <1>4, <1>5, <1>6, <1>7 DEF U

\* A step of a scan.
LEMMA EngineKeepsNotify ==
  ASSUME HistoryInv, NotifyInv, EngineNext
  PROVE  NotifyInv'
<1>0. TypeOK /\ EngineTypeOK
  BY DEF HistoryInv, TypeOK
<1> PICK s \in Scanner :
      \/ StartScan(s)
      \/ \E x \in scan[s].queue : EscalateNext(s, x)
      \/ NotifyUser(s)
      \/ FinishScan(s)
      \/ ScanFails(s)
  BY DEF EngineNext
<1>1. /\ scan[s].phase # "notifying" => scan[s].current = Null
      /\ scan[s].phase = "notifying" => scan[s].current \in Case
  BY <1>0 DEF EngineTypeOK, Scan, IdleScan
<1>2. /\ failures \in Nat /\ notifications \in [Case -> Nat]
      /\ \A c \in Case : Breaches(c) \in Nat /\ c # Null
  BY <1>0, NullAssumption, MaxFailuresAssumption, RecordsFinite DEF EngineTypeOK, Breaches
<1>3. timeline' = timeline => \A c \in Case : Breaches(c)' = Breaches(c)
  BY RecordsSame DEF Breaches
<1>4. ASSUME StartScan(s) \/ FinishScan(s) PROVE NotifyInv'
  <2>1. /\ scan[s].current = Null /\ timeline' = timeline
        /\ notifications' = notifications /\ failures' = failures + 0
    BY <1>1, <1>2, <1>4 DEF StartScan, FinishScan, storeVars
  <2>2. ASSUME NEW q, q.current = Null, scan' = [scan EXCEPT ![s] = q] PROVE NotifyInv'
    <3>1. \A c \in Case : Balance(c, s, q) = 0
      BY <1>2, <1>3, <2>1, <2>2 DEF Balance
    <3>2. 0 \in Nat /\ 0 \in 0..0
      OBVIOUS
    <3>3. \A c \in Case : notifications'[c] \in Nat /\ Breaches(c)' \in Nat
      BY <1>2, <1>3, <2>1
    <3>4. \A c \in Case : Balance(c, s, q) \in 0..0
      BY <3>1, <3>2
    <3> QED BY <1>0, <2>1, <2>2, <3>2, <3>3, <3>4, BalancedStep
  <2>3. IdleScan.current = Null
    BY DEF IdleScan
  <2> QED BY <1>4, <2>2, <2>3 DEF StartScan, FinishScan
<1>5. ASSUME NEW x \in scan[s].queue, EscalateNext(s, x) PROVE NotifyInv'
  <2>1. x.case \in Case
    <3>1. scan[s] \in Scan
      BY <1>0 DEF EngineTypeOK
    <3>2. x \in Snapshot
      BY <3>1 DEF Scan, IdleScan
    <3> QED BY <3>2 DEF Snapshot
  <2> DEFINE q == [phase |-> "notifying", queue |-> scan[s].queue \ {x}, current |-> x.case]
  <2>2. scan' = [scan EXCEPT ![s] = q] /\ AppendTimeline(x.case, Entry("AUTOMATED_SLA_BREACH"))
    BY <1>5 DEF EscalateNext
  <2>3. q.current = x.case
    OBVIOUS
  <2>4. scan[s].current = Null /\ notifications' = notifications /\ failures' = failures + 0
    <3>1. scan[s].phase = "escalating" /\ UNCHANGED <<notifications, failures>>
      BY <1>5, Zenon DEF EscalateNext
    <3> QED BY <1>1, <1>2, <3>1
  <2>5. \A c \in Case : Breaches(c)' = IF c = x.case THEN Breaches(c) + 1 ELSE Breaches(c)
    BY <1>0, <2>1, <2>2, BreachEntry, RecordsAppended DEF Breaches
  <2> HIDE DEF q
  <2>6. \A c \in Case : Balance(c, s, q) = 0
    BY <1>2, <2>3, <2>4, <2>5 DEF Balance
  <2>7. 0 \in Nat /\ 0 \in 0..0
    OBVIOUS
  <2>8. \A c \in Case : notifications'[c] \in Nat /\ Breaches(c)' \in Nat
    BY <1>2, <2>4, <2>5
  <2> QED BY <1>0, <2>2, <2>4, <2>6, <2>7, <2>8, BalancedStep
<1>6. ASSUME NotifyUser(s) PROVE NotifyInv'
  <2> PICK d \in Case : scan[s].current = d
    BY <1>1, <1>6 DEF NotifyUser
  <2> DEFINE q == [phase |-> "escalating", queue |-> scan[s].queue, current |-> Null]
  <2>1. scan' = [scan EXCEPT ![s] = q] /\ q.current = Null
    BY <1>6 DEF NotifyUser
  <2>2. timeline' = timeline /\ failures' = failures + 0
    BY <1>2, <1>6 DEF NotifyUser, storeVars
  <2>3. \A c \in Case : notifications'[c] = IF c = d THEN notifications[c] + 1 ELSE notifications[c]
    BY <1>2, <1>6 DEF NotifyUser
  <2> HIDE DEF q
  <2>4. \A c \in Case : Balance(c, s, q) = 0
    BY <1>2, <1>3, <2>1, <2>2, <2>3 DEF Balance
  <2>5. 0 \in Nat /\ 0 \in 0..0
    OBVIOUS
  <2>6. \A c \in Case : notifications'[c] \in Nat /\ Breaches(c)' \in Nat
    BY <1>2, <1>3, <2>2, <2>3
  <2> QED BY <1>0, <2>1, <2>2, <2>4, <2>5, <2>6, BalancedStep
<1>7. ASSUME ScanFails(s) PROVE NotifyInv'
  <2>1. scan' = [scan EXCEPT ![s] = IdleScan] /\ IdleScan.current = Null
    BY <1>7 DEF ScanFails, IdleScan
  <2>2. timeline' = timeline /\ notifications' = notifications /\ failures' = failures + 1
    BY <1>7 DEF ScanFails, storeVars
  <2>3. \A c \in Case : Balance(c, s, IdleScan) \in 0..1
    BY <1>2, <1>3, <2>1, <2>2 DEF Balance
  <2>4. 1 \in Nat
    OBVIOUS
  <2>5. \A c \in Case : notifications'[c] \in Nat /\ Breaches(c)' \in Nat
    BY <1>2, <1>3, <2>2
  <2> QED BY <1>0, <2>1, <2>2, <2>3, <2>4, <2>5, BalancedStep
<1> QED BY <1>4, <1>5, <1>6, <1>7

LEMMA NotifyStep ==
  ASSUME HistoryInv, NotifyInv, [Next]_vars
  PROVE  NotifyInv'
<1>0. TypeOK
  BY DEF HistoryInv
<1>1. CASE CasesNext /\ UNCHANGED <<complaintVars, evidenceVars, engineVars>>
  BY <1>1, CasesRecord, OthersKeepNotify DEF Breaches
<1>2. CASE ComplaintsNext /\ UNCHANGED <<casesVars, evidenceVars, engineVars>>
  BY <1>0, <1>2, ComplaintsRecordNoBreach, OthersKeepNotify
<1>3. CASE EvidenceNext /\ UNCHANGED <<casesVars, complaintVars, engineVars>>
  BY <1>0, <1>3, EvidenceRecordsNoBreach, OthersKeepNotify
<1>4. CASE Clock /\ UNCHANGED <<casesVars, complaintVars, evidenceVars, engineVars>>
  <2>1. timeline' = timeline
    BY <1>4 DEF Clock, DeadlinePasses
  <2> QED BY <1>4, <2>1, RecordsSame, OthersKeepNotify DEF Breaches
<1>5. CASE UNCHANGED vars
  <2>1. timeline' = timeline /\ UNCHANGED engineVars
    BY <1>5 DEF vars, storeVars
  <2> QED BY <2>1, RecordsSame, OthersKeepNotify DEF Breaches
<1> QED BY <1>1, <1>2, <1>3, <1>4, <1>5, EngineKeepsNotify DEF Next

LEMMA InitNotify == Init => NotifyInv
<1> SUFFICES ASSUME Init PROVE NotifyInv
  OBVIOUS
<1>1. /\ \A s \in Scanner : scan[s].current = Null
      /\ \A c \in Case : notifications[c] = 0
      /\ failures = 0
  BY DEF Init, EngineInit, IdleScan
<1>2. \A c \in Case : TellersOf(c) = {} /\ Breaches(c) = 0
  BY <1>1, NullAssumption, InitRecords DEF TellersOf, Breaches
<1> QED BY <1>1, <1>2, FS_EmptySet DEF NotifyInv, NotificationsFollowBreaches

\* processSlaExpirations tells the owner of a breach only after its transaction has
\* committed, and however many scans run at once a breach goes untold only while its scan
\* is about to tell it or because a scan failed.
THEOREM NotificationsCorrect == Spec => []NotificationsFollowBreaches
<1>1. HistoryInv /\ NotifyInv /\ [Next]_vars => NotifyInv'
  BY NotifyStep
<1>2. NotifyInv => NotificationsFollowBreaches
  BY DEF NotifyInv
<1> QED BY HistoryCorrect, InitNotify, <1>1, <1>2, PTL DEF Spec
=============================================================================
