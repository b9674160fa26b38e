--------------------------- MODULE ComplaintsService ---------------------------
(***************************************************************************)
(* ComplaintsService: generateComplaintPackage and recordSubmission.  Both *)
(* move the case without looking at the status it is in, and neither       *)
(* writes a CaseEvent.                                                     *)
(***************************************************************************)
EXTENDS CaseStore

CONSTANTS
  Complaint,        \* ids of the Complaint rows that may be created
  ComplaintRequest  \* requests the service may be handling at the same time

VARIABLES
  complaintCase,    \* Complaint.caseId; Null while the row does not exist
  submissions,      \* how many ComplaintSubmission rows a complaint has
  complaintRequest  \* the request in each slot

complaintVars == <<complaintCase, submissions, complaintRequest>>

IdleComplaintRequest == [op |-> "idle"]

GenerateRequest == [op : {"generate"}, case : Case]

SubmitRequest == [op : {"submit"}, complaint : Complaint, case : Case]

ComplaintsTypeOK ==
  /\ complaintCase \in [Complaint -> Case \cup {Null}]
  /\ submissions \in [Complaint -> Nat]
  /\ complaintRequest \in [ComplaintRequest ->
       {IdleComplaintRequest} \cup GenerateRequest \cup SubmitRequest]

ComplaintsInit ==
  /\ complaintCase    = [k \in Complaint |-> Null]
  /\ submissions      = [k \in Complaint |-> 0]
  /\ complaintRequest = [r \in ComplaintRequest |-> IdleComplaintRequest]

ComplaintReply(r) ==
  complaintRequest' = [complaintRequest EXCEPT ![r] = IdleComplaintRequest]

-----------------------------------------------------------------------------
(* generateComplaintPackage *)

ReadForComplaint(r, c) ==
  /\ complaintRequest[r].op = "idle"
  /\ Filed(c)
  /\ Receive
  /\ complaintRequest' = [complaintRequest EXCEPT ![r] = [op |-> "generate", case |-> c]]
  /\ UNCHANGED <<rescueCase, timeline, caseEvents, complaintCase, submissions>>

\* Mutant: the timeline records a plain status change, not a complaint.
CommitComplaintMislabelled(r, k) ==
  LET c == complaintRequest[r].case IN
  /\ complaintRequest[r].op = "generate"
  /\ complaintCase[k] = Null
  /\ complaintCase' = [complaintCase EXCEPT ![k] = c]
  /\ UpdateRow(c, [rescueCase[c] EXCEPT !.status = "COMPLAINT_PREPARED"])
  /\ AppendTimeline(c, StatusEntry("COMPLAINT_PREPARED"))
  /\ ComplaintReply(r)
  /\ UNCHANGED <<caseEvents, requests, submissions>>

CommitComplaint(r, k) ==
  LET c == complaintRequest[r].case IN
  /\ complaintRequest[r].op = "generate"
  /\ complaintCase[k] = Null
  /\ complaintCase' = [complaintCase EXCEPT ![k] = c]
  /\ UpdateRow(c, [rescueCase[c] EXCEPT !.status = "COMPLAINT_PREPARED"])
  /\ AppendTimeline(c, Entry("COMPLAINT_GENERATED"))
  /\ ComplaintReply(r)
  /\ UNCHANGED <<caseEvents, requests, submissions>>

-----------------------------------------------------------------------------
(* recordSubmission *)

ReadComplaint(r, k) ==
  /\ complaintRequest[r].op = "idle"
  /\ complaintCase[k] # Null
  /\ Receive
  /\ complaintRequest' = [complaintRequest EXCEPT ![r] =
       [op |-> "submit", complaint |-> k, case |-> complaintCase[k]]]
  /\ UNCHANGED <<rescueCase, timeline, caseEvents, complaintCase, submissions>>

\* Mutant: only the first submission of a complaint gets a row.
CommitSubmissionOnce(r) ==
  LET q == complaintRequest[r] IN
  /\ q.op = "submit"
  /\ submissions' = [submissions EXCEPT ![q.complaint] = 1]
  /\ UpdateRow(q.case, [rescueCase[q.case] EXCEPT !.status = "SUBMITTED"])
  /\ AppendTimeline(q.case, Entry("COMPLAINT_SUBMITTED"))
  /\ ComplaintReply(r)
  /\ UNCHANGED <<caseEvents, requests, complaintCase>>

CommitSubmission(r) ==
  LET q == complaintRequest[r] IN
  /\ q.op = "submit"
  /\ submissions' = [submissions EXCEPT ![q.complaint] = @ + 1]
  /\ UpdateRow(q.case, [rescueCase[q.case] EXCEPT !.status = "SUBMITTED"])
  /\ AppendTimeline(q.case, Entry("COMPLAINT_SUBMITTED"))
  /\ ComplaintReply(r)
  /\ UNCHANGED <<caseEvents, requests, complaintCase>>

-----------------------------------------------------------------------------
\* A statement rejects or the process stops between the read and the commit.
ComplaintRequestFails(r) ==
  /\ complaintRequest[r].op # "idle"
  /\ ComplaintReply(r)
  /\ UNCHANGED <<storeVars, complaintCase, submissions>>

ComplaintsNext ==
  \E r \in ComplaintRequest :
    \/ \E c \in Case : ReadForComplaint(r, c)
    \/ \E k \in Complaint : CommitComplaint(r, k) \/ ReadComplaint(r, k)
    \/ CommitSubmission(r)
    \/ ComplaintRequestFails(r)
=============================================================================
