------------------------------ MODULE CaseStore ------------------------------
(***************************************************************************)
(* The PostgreSQL tables every case handler shares: RescueCase,            *)
(* CaseTimelineRecord and CaseEvent (prisma/schema.prisma).  A handler     *)
(* reads a row in one statement and writes it later in a $transaction, so  *)
(* each handler of the modules that extend this one is a read action and a *)
(* commit action; a commit is atomic and locks the row it updates.         *)
(*                                                                         *)
(* A request reaches the server only while the budget MaxRequests lasts;   *)
(* that is the bound that keeps the state space finite.                    *)
(***************************************************************************)
EXTENDS Integers, Sequences

CONSTANTS
  Case,         \* ids of the RescueCase rows that may be created
  Transaction,  \* ids of the Transaction rows that may be created
  Note,         \* texts an operator may give as resolutionNotes
  Null,         \* SQL NULL; as a status: the row does not exist
  MaxRequests   \* how many requests the server receives in a behaviour

CaseStatus ==
  { "OPEN", "EVIDENCE_REQUIRED", "EVIDENCE_REVIEW", "READY_FOR_COMPLAINT",
    "COMPLAINT_PREPARED", "SUBMITTED", "PROVIDER_REVIEW", "PENDING",
    "RESOLVED", "PARTIALLY_RESOLVED", "REJECTED", "ESCALATED", "CLOSED" }

ASSUME NullAssumption ==
  /\ Null \notin CaseStatus
  /\ Null \notin Transaction
  /\ Null \notin Note
  /\ Null \notin Case

ASSUME MaxRequestsAssumption == MaxRequests \in Nat

VARIABLES
  rescueCase,  \* the RescueCase table
  timeline,    \* the CaseTimelineRecord rows of a case, in commit order
  caseEvents,  \* the CaseEvent rows of a case, in commit order
  requests     \* how many requests the server has received

storeVars == <<rescueCase, timeline, caseEvents, requests>>

(***************************************************************************)
(* slaDeadline is abstracted to how it compares with the clock: it is      *)
(* null, in the future, or passed.                                         *)
(***************************************************************************)
SlaDeadline == { "none", "running", "expired" }

Level == 0..2

Row ==
  [ status      : CaseStatus \cup {Null},
    level       : Level,
    transaction : Transaction \cup {Null},
    sla         : SlaDeadline,
    notes       : Note \cup {Null},
    resolvedAt  : BOOLEAN,    \* the column is not null
    closedAt    : BOOLEAN ]

NoRow ==
  [ status |-> Null, level |-> 0, transaction |-> Null, sla |-> "none",
    notes |-> Null, resolvedAt |-> FALSE, closedAt |-> FALSE ]

Filed(c) == rescueCase[c].status # Null

-----------------------------------------------------------------------------
(***************************************************************************)
(* Timeline records.  `STATUS_${toStatus}` is the event type "STATUS" with *)
(* the status as its argument; every other type stands alone.              *)
(***************************************************************************)
Entry(eventType) == [eventType |-> eventType, status |-> Null]

StatusEntry(toStatus) == [eventType |-> "STATUS", status |-> toStatus]

PlainEventType ==
  { "CASE_CREATED", "ESCALATION", "AUTOMATED_SLA_BREACH",
    "COMPLAINT_GENERATED", "COMPLAINT_SUBMITTED", "EVIDENCE_UPLOADED" }

TimelineEntry ==
  { Entry(t) : t \in PlainEventType } \cup { StatusEntry(s) : s \in CaseStatus }

\* The status a case is left in by the transaction that wrote the entry; Null
\* for an entry that leaves the status alone.
StatusAfter(e) ==
  CASE e.eventType = "STATUS"               -> e.status
    [] e.eventType = "CASE_CREATED"         -> "OPEN"
    [] e.eventType = "ESCALATION"           -> "ESCALATED"
    [] e.eventType = "AUTOMATED_SLA_BREACH" -> "ESCALATED"
    [] e.eventType = "COMPLAINT_GENERATED"  -> "COMPLAINT_PREPARED"
    [] e.eventType = "COMPLAINT_SUBMITTED"  -> "SUBMITTED"
    [] OTHER                                -> Null

CaseEvent == [from : CaseStatus \cup {Null}, to : CaseStatus]

-----------------------------------------------------------------------------
(* The writes a $transaction is made of. *)

UpdateRow(c, row) == rescueCase' = [rescueCase EXCEPT ![c] = row]

AppendTimeline(c, e) == timeline' = [timeline EXCEPT ![c] = Append(@, e)]

AppendEvent(c, from, to) ==
  caseEvents' = [caseEvents EXCEPT ![c] = Append(@, [from |-> from, to |-> to])]

\* A request arrives; it is counted against the bound.
Receive ==
  /\ requests < MaxRequests
  /\ requests' = requests + 1

StoreInit ==
  /\ rescueCase = [c \in Case |-> NoRow]
  /\ timeline   = [c \in Case |-> << >>]
  /\ caseEvents = [c \in Case |-> << >>]
  /\ requests   = 0

StoreTypeOK ==
  /\ rescueCase \in [Case -> Row]
  /\ timeline   \in [Case -> Seq(TimelineEntry)]
  /\ caseEvents \in [Case -> Seq(CaseEvent)]
  /\ requests   \in 0..MaxRequests

\* Time reaches the deadline of a case.
DeadlinePasses(c) ==
  /\ rescueCase[c].sla = "running"
  /\ UpdateRow(c, [rescueCase[c] EXCEPT !.sla = "expired"])
  /\ UNCHANGED <<timeline, caseEvents, requests>>
=============================================================================
