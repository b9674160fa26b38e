----------------------------- MODULE CasesService -----------------------------
(***************************************************************************)
(* CasesService: createCase, updateCaseStatus and escalateCase.  A slot of *)
(* CaseRequest holds one request in flight with what it has read so far.   *)
(***************************************************************************)
EXTENDS CaseStore

CONSTANTS
  CaseRequest,     \* requests the service may be handling at the same time
  RequestedStatus  \* the statuses an operator asks for

ASSUME RequestedStatusAssumption == RequestedStatus \subseteq CaseStatus

VARIABLES
  transactions,  \* the Transaction rows that exist
  caseRequest    \* the request in each slot

casesVars == <<transactions, caseRequest>>

IdleRequest == [op |-> "idle"]

CreateRequest == [op : {"create"}, transaction : Transaction]

UpdateRequest ==
  [ op       : {"update"},
    case     : Case,
    from     : CaseStatus,             \* rescueCase.status as it was read
    oldNotes : Note \cup {Null},       \* rescueCase.resolutionNotes as read
    to       : RequestedStatus,        \* input.status
    notes    : Note \cup {Null} ]      \* input.resolutionNotes

EscalateRequest ==
  [ op : {"escalate"}, case : Case, from : CaseStatus, level : Level ]

CasesTypeOK ==
  /\ transactions \subseteq Transaction
  /\ caseRequest \in [CaseRequest ->
       {IdleRequest} \cup CreateRequest \cup UpdateRequest \cup EscalateRequest]

CasesInit ==
  /\ transactions = {}
  /\ caseRequest  = [r \in CaseRequest |-> IdleRequest]

Reply(r) == caseRequest' = [caseRequest EXCEPT ![r] = IdleRequest]

-----------------------------------------------------------------------------
(* createCase *)

\* The request carries transactionDetails: a new Transaction row is committed
\* on its own, before the case.
CreateTransaction(r, t) ==
  /\ caseRequest[r].op = "idle"
  /\ t \notin transactions
  /\ Receive
  /\ transactions' = transactions \cup {t}
  /\ caseRequest'  = [caseRequest EXCEPT ![r] = [op |-> "create", transaction |-> t]]
  /\ UNCHANGED <<rescueCase, timeline, caseEvents>>

\* The request names an existing transaction by its id.
UseTransaction(r, t) ==
  /\ caseRequest[r].op = "idle"
  /\ Receive
  /\ caseRequest' = [caseRequest EXCEPT ![r] = [op |-> "create", transaction |-> t]]
  /\ UNCHANGED <<rescueCase, timeline, caseEvents, transactions>>

NewCase(t, sla) ==
  [ status |-> "OPEN", level |-> 0, transaction |-> t, sla |-> sla,
    notes |-> Null, resolvedAt |-> FALSE, closedAt |-> FALSE ]

\* The case, its first event and its first timeline record, in one transaction.
\* The foreign key rejects an unknown transaction; the deadline is null unless
\* the request names a provider that exists.
InsertCase(r, c, sla) ==
  LET t == caseRequest[r].transaction IN
  /\ caseRequest[r].op = "create"
  /\ ~Filed(c)
  /\ t \in transactions
  /\ UpdateRow(c, NewCase(t, sla))
  /\ AppendEvent(c, Null, "OPEN")
  /\ AppendTimeline(c, Entry("CASE_CREATED"))
  /\ Reply(r)
  /\ UNCHANGED <<requests, transactions>>

-----------------------------------------------------------------------------
(* updateCaseStatus *)

ReadForUpdate(r, c, toStatus, notes) ==
  /\ caseRequest[r].op = "idle"
  /\ Filed(c)
  /\ Receive
  /\ caseRequest' = [caseRequest EXCEPT ![r] =
       [ op |-> "update", case |-> c, from |-> rescueCase[c].status,
         oldNotes |-> rescueCase[c].notes, to |-> toStatus, notes |-> notes ]]
  /\ UNCHANGED <<rescueCase, timeline, caseEvents, transactions>>

Resolves(toStatus) == toStatus \in {"RESOLVED", "PARTIALLY_RESOLVED"}

\* Mutant: the update clears the stamps it does not set.
StatusUpdateClearsStamps(row, q) ==
  [ row EXCEPT
      !.status     = q.to,
      !.notes      = IF q.notes # Null THEN q.notes ELSE q.oldNotes,
      !.resolvedAt = Resolves(q.to),
      !.closedAt   = q.to = "CLOSED" ]

\* Mutant: the update takes the case back to the provider's level.
StatusUpdateResetsLevel(row, q) ==
  [ row EXCEPT
      !.status     = q.to,
      !.level      = 0,
      !.notes      = IF q.notes # Null THEN q.notes ELSE q.oldNotes,
      !.resolvedAt = @ \/ Resolves(q.to),
      !.closedAt   = @ \/ q.to = "CLOSED" ]

StatusUpdate(row, q) ==
  [ row EXCEPT
      !.status     = q.to,
      !.notes      = IF q.notes # Null THEN q.notes ELSE q.oldNotes,
      !.resolvedAt = @ \/ Resolves(q.to),
      !.closedAt   = @ \/ q.to = "CLOSED" ]

\* Mutant: the timeline record is forgotten.
CommitUpdateUnrecorded(r) ==
  LET q == caseRequest[r] IN
  /\ q.op = "update"
  /\ UpdateRow(q.case, StatusUpdate(rescueCase[q.case], q))
  /\ AppendEvent(q.case, q.from, q.to)
  /\ Reply(r)
  /\ UNCHANGED <<timeline, requests, transactions>>

\* Mutant: the event is written without its fromStatus.
CommitUpdateWithoutFrom(r) ==
  LET q == caseRequest[r] IN
  /\ q.op = "update"
  /\ UpdateRow(q.case, StatusUpdate(rescueCase[q.case], q))
  /\ AppendEvent(q.case, Null, q.to)
  /\ AppendTimeline(q.case, StatusEntry(q.to))
  /\ Reply(r)
  /\ UNCHANGED <<requests, transactions>>

CommitUpdate(r) ==
  LET q == caseRequest[r] IN
  /\ q.op = "update"
  /\ UpdateRow(q.case, StatusUpdate(rescueCase[q.case], q))
  /\ AppendEvent(q.case, q.from, q.to)
  /\ AppendTimeline(q.case, StatusEntry(q.to))
  /\ Reply(r)
  /\ UNCHANGED <<requests, transactions>>

-----------------------------------------------------------------------------
(* escalateCase *)

ReadForEscalation(r, c) ==
  /\ caseRequest[r].op = "idle"
  /\ Filed(c)
  /\ Receive
  /\ caseRequest' = [caseRequest EXCEPT ![r] =
       [ op |-> "escalate", case |-> c, from |-> rescueCase[c].status,
         level |-> rescueCase[c].level ]]
  /\ UNCHANGED <<rescueCase, timeline, caseEvents, transactions>>

\* Mutant: the level is not capped.
NextLevelUncapped(level) == level + 1

\* Math.min(2, level + 1)
NextLevel(level) == IF level < 2 THEN level + 1 ELSE 2

CommitEscalation(r) ==
  LET q == caseRequest[r] IN
  /\ q.op = "escalate"
  /\ UpdateRow(q.case, [rescueCase[q.case] EXCEPT
                          !.status = "ESCALATED", !.level = NextLevel(q.level)])
  /\ AppendEvent(q.case, q.from, "ESCALATED")
  /\ AppendTimeline(q.case, Entry("ESCALATION"))
  /\ Reply(r)
  /\ UNCHANGED <<requests, transactions>>

-----------------------------------------------------------------------------
\* A statement rejects or the process stops: what was committed stays, what the
\* request had read is forgotten.
CaseRequestFails(r) ==
  /\ caseRequest[r].op # "idle"
  /\ Reply(r)
  /\ UNCHANGED <<storeVars, transactions>>

CasesNext ==
  \E r \in CaseRequest :
    \/ \E t \in Transaction : CreateTransaction(r, t) \/ UseTransaction(r, t)
    \/ \E c \in Case, sla \in {"none", "running"} : InsertCase(r, c, sla)
    \/ \E c \in Case, to \in RequestedStatus, notes \in Note \cup {Null} :
         ReadForUpdate(r, c, to, notes)
    \/ CommitUpdate(r)
    \/ \E c \in Case : ReadForEscalation(r, c)
    \/ CommitEscalation(r)
    \/ CaseRequestFails(r)
=============================================================================
