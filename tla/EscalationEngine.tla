--------------------------- MODULE EscalationEngine ---------------------------
(***************************************************************************)
(* EscalationEngine.processSlaExpirations.  One findMany takes a snapshot  *)
(* of the overdue cases; the loop then handles them one by one, each with  *)
(* a transaction computed from the snapshot and, after that transaction    *)
(* has committed, a notification.  A step that throws ends the scan.       *)
(***************************************************************************)
EXTENDS CaseStore

CONSTANTS
  Scanner,     \* scans that may run at the same time
  MaxFailures  \* how many scans may fail in a behaviour

ASSUME MaxFailuresAssumption == MaxFailures \in Nat

VARIABLES
  scan,           \* the scan each scanner is running
  notifications,  \* how many breach notifications a case's owner was sent
  failures        \* how many scans have failed

engineVars == <<scan, notifications, failures>>

\* What the loop uses of a row: c.id, c.status, c.escalationLevel.
Snapshot == [case : Case, status : CaseStatus, level : Level]

IdleScan == [phase |-> "idle", queue |-> {}, current |-> Null]

\* queue: the cases of the snapshot not yet handled; current: the case that was
\* escalated and whose owner is to be notified next.
Scan ==
  {IdleScan}
    \cup [phase : {"escalating"}, queue : SUBSET Snapshot, current : {Null}]
    \cup [phase : {"notifying"},  queue : SUBSET Snapshot, current : Case]

EngineTypeOK ==
  /\ scan \in [Scanner -> Scan]
  /\ notifications \in [Case -> Nat]
  /\ failures \in 0..MaxFailures

EngineInit ==
  /\ scan          = [s \in Scanner |-> IdleScan]
  /\ notifications = [c \in Case |-> 0]
  /\ failures      = 0

AwaitsProvider == {"SUBMITTED", "PROVIDER_REVIEW", "PENDING"}

\* Mutant: the deadline is not compared with the clock.
OverdueAnyDeadline(c) == rescueCase[c].status \in AwaitsProvider

\* Mutant: the status filter of the query is dropped.
OverdueAnyStatus(c) == Filed(c) /\ rescueCase[c].sla = "expired"

Overdue(c) ==
  /\ rescueCase[c].status \in AwaitsProvider
  /\ rescueCase[c].sla = "expired"

Snap(c) ==
  [case |-> c, status |-> rescueCase[c].status, level |-> rescueCase[c].level]

\* Mutant: the query leaves out the cases that are already at the top level.
StartScanBelowTop(s) ==
  /\ scan[s].phase = "idle"
  /\ scan' = [scan EXCEPT ![s] =
       [ phase   |-> "escalating",
         queue   |-> { Snap(c) : c \in { d \in Case : Overdue(d) /\ rescueCase[d].level < 2 } },
         current |-> Null ]]
  /\ UNCHANGED <<storeVars, notifications, failures>>

StartScan(s) ==
  /\ scan[s].phase = "idle"
  /\ scan' = [scan EXCEPT ![s] =
       [ phase   |-> "escalating",
         queue   |-> { Snap(c) : c \in { d \in Case : Overdue(d) } },
         current |-> Null ]]
  /\ UNCHANGED <<storeVars, notifications, failures>>

\* Mutant: a breach goes straight to the top level.
NewEscalationLevelTop(level) == 2

\* Math.min(2, c.escalationLevel + 1)
NewEscalationLevel(level) == IF level < 2 THEN level + 1 ELSE 2

\* Mutant: the CaseEvent is forgotten.
EscalateNextUnlogged(s, x) ==
  /\ scan[s].phase = "escalating"
  /\ x \in scan[s].queue
  /\ UpdateRow(x.case, [rescueCase[x.case] EXCEPT
                          !.status = "ESCALATED",
                          !.level  = NewEscalationLevel(x.level)])
  /\ AppendTimeline(x.case, Entry("AUTOMATED_SLA_BREACH"))
  /\ scan' = [scan EXCEPT ![s] =
       [phase |-> "notifying", queue |-> @.queue \ {x}, current |-> x.case]]
  /\ UNCHANGED <<caseEvents, requests, notifications, failures>>

\* Mutant: the loop moves on without telling the owner.
EscalateNextUntold(s, x) ==
  /\ scan[s].phase = "escalating"
  /\ x \in scan[s].queue
  /\ UpdateRow(x.case, [rescueCase[x.case] EXCEPT
                          !.status = "ESCALATED",
                          !.level  = NewEscalationLevel(x.level)])
  /\ AppendEvent(x.case, x.status, "ESCALATED")
  /\ AppendTimeline(x.case, Entry("AUTOMATED_SLA_BREACH"))
  /\ scan' = [scan EXCEPT ![s] =
       [phase |-> "escalating", queue |-> @.queue \ {x}, current |-> Null]]
  /\ UNCHANGED <<requests, notifications, failures>>

\* findMany has no orderBy, so the loop meets the cases in any order.
EscalateNext(s, x) ==
  /\ scan[s].phase = "escalating"
  /\ x \in scan[s].queue
  /\ UpdateRow(x.case, [rescueCase[x.case] EXCEPT
                          !.status = "ESCALATED",
                          !.level  = NewEscalationLevel(x.level)])
  /\ AppendEvent(x.case, x.status, "ESCALATED")
  /\ AppendTimeline(x.case, Entry("AUTOMATED_SLA_BREACH"))
  /\ scan' = [scan EXCEPT ![s] =
       [phase |-> "notifying", queue |-> @.queue \ {x}, current |-> x.case]]
  /\ UNCHANGED <<requests, notifications, failures>>

\* Mutant: the owner is told twice.
NotifyUserTwice(s) ==
  /\ scan[s].phase = "notifying"
  /\ notifications' = [notifications EXCEPT ![scan[s].current] = @ + 2]
  /\ scan' = [scan EXCEPT ![s] =
       [phase |-> "escalating", queue |-> @.queue, current |-> Null]]
  /\ UNCHANGED <<storeVars, failures>>

\* sendNotification on the default IN_APP channel inserts one row.
NotifyUser(s) ==
  /\ scan[s].phase = "notifying"
  /\ notifications' = [notifications EXCEPT ![scan[s].current] = @ + 1]
  /\ scan' = [scan EXCEPT ![s] =
       [phase |-> "escalating", queue |-> @.queue, current |-> Null]]
  /\ UNCHANGED <<storeVars, failures>>

FinishScan(s) ==
  /\ scan[s].phase = "escalating"
  /\ scan[s].queue = {}
  /\ scan' = [scan EXCEPT ![s] = IdleScan]
  /\ UNCHANGED <<storeVars, notifications, failures>>

\* A statement rejects or the process stops: the rest of the snapshot is dropped,
\* and so is the notification of a case already escalated.
ScanFails(s) ==
  /\ scan[s].phase # "idle"
  /\ failures < MaxFailures
  /\ failures' = failures + 1
  /\ scan' = [scan EXCEPT ![s] = IdleScan]
  /\ UNCHANGED <<storeVars, notifications>>

EngineNext ==
  \E s \in Scanner :
    \/ StartScan(s)
    \/ \E x \in scan[s].queue : EscalateNext(s, x)
    \/ NotifyUser(s)
    \/ FinishScan(s)
    \/ ScanFails(s)
=============================================================================
