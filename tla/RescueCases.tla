------------------------------ MODULE RescueCases ------------------------------
(***************************************************************************)
(* The rescue-case subsystem: the case, complaint and evidence handlers    *)
(* and the SLA engine, interleaved at their awaits over the shared tables. *)
(***************************************************************************)
EXTENDS CasesService, ComplaintsService, EvidenceService, EscalationEngine, FiniteSets

vars == <<storeVars, casesVars, complaintVars, evidenceVars, engineVars>>

Init ==
  /\ StoreInit
  /\ CasesInit
  /\ ComplaintsInit
  /\ EvidenceInit
  /\ EngineInit

Clock == \E c \in Case : DeadlinePasses(c)

Next ==
  \/ CasesNext      /\ UNCHANGED <<complaintVars, evidenceVars, engineVars>>
  \/ ComplaintsNext /\ UNCHANGED <<casesVars, evidenceVars, engineVars>>
  \/ EvidenceNext   /\ UNCHANGED <<casesVars, complaintVars, engineVars>>
  \/ EngineNext     /\ UNCHANGED <<casesVars, complaintVars, evidenceVars>>
  \/ Clock          /\ UNCHANGED <<casesVars, complaintVars, evidenceVars, engineVars>>

Spec == Init /\ [][Next]_vars

(***************************************************************************)
(* Fairness.  A scan that runs keeps running: between two awaits Node does *)
(* not stop.  That a scan is started again and again is an assumption on   *)
(* the environment: the repository exposes POST /trigger-sla-check for an  *)
(* "Admin or Cron worker" and schedules nothing itself.  No request is     *)
(* assumed to arrive or to complete.                                       *)
(***************************************************************************)
ScanStep(s) ==
  /\ \/ StartScan(s)
     \/ \E x \in scan[s].queue : EscalateNext(s, x)
     \/ NotifyUser(s)
     \/ FinishScan(s)
  /\ UNCHANGED <<casesVars, complaintVars, evidenceVars>>

CronSpec == Spec /\ \A s \in Scanner : WF_vars(ScanStep(s))

-----------------------------------------------------------------------------
(* Invariants *)

TypeOK ==
  /\ StoreTypeOK
  /\ CasesTypeOK
  /\ ComplaintsTypeOK
  /\ EvidenceTypeOK
  /\ EngineTypeOK

\* Positions of the timeline of c.
Positions(c) == DOMAIN timeline[c]

IsEscalation(e) == e.eventType \in {"ESCALATION", "AUTOMATED_SLA_BREACH"}

IsBreach(e) == e.eventType = "AUTOMATED_SLA_BREACH"

IsComplaintEntry(e) == e.eventType \in {"COMPLAINT_GENERATED", "COMPLAINT_SUBMITTED"}

IsRemark(e) == StatusAfter(e) = Null

Opened(c) == timeline[c] # << >>

Announced(c, s) == \E i \in Positions(c) : StatusAfter(timeline[c][i]) = s

Recorded(c, t) == \E i \in Positions(c) : timeline[c][i].eventType = t

Escalated(c) == \E i \in Positions(c) : IsEscalation(timeline[c][i])

\* How many records of the type t the timeline of c has.
Records(c, t) == Cardinality({ i \in Positions(c) : timeline[c][i].eventType = t })

Breaches(c) == Records(c, "AUTOMATED_SLA_BREACH")

\* The records of c that come with a CaseEvent, and which of them the one at i is.
Logged(c) ==
  { i \in Positions(c) : ~IsComplaintEntry(timeline[c][i]) /\ ~IsRemark(timeline[c][i]) }

Rank(c, i) == Cardinality({ j \in Logged(c) : j <= i })

\* The rows that belong to c: its complaints, their submissions, its evidence.
ComplaintsOf(c) == { k \in Complaint : complaintCase[k] = c }

SubmissionsOf(c) == UNION { {k} \X (1..submissions[k]) : k \in ComplaintsOf(c) }

EvidenceOf(c) == { e \in Evidence : evidenceCase[e] = c }

\* The scans that are about to tell the owner of c.
TellersOf(c) == { s \in Scanner : scan[s].current = c }

\* The public timeline tells the truth: whatever handlers raced, the status in
\* the RescueCase row is the one the last status-changing timeline record
\* announces, and a case without a row has no timeline.
TimelineDeterminesStatus ==
  \A c \in Case :
    IF Filed(c)
      THEN \E i \in Positions(c) :
             /\ StatusAfter(timeline[c][i]) = rescueCase[c].status
             /\ \A j \in Positions(c) : j > i => IsRemark(timeline[c][j])
      ELSE timeline[c] = << >>

\* A case has CaseEvents exactly when it is filed.  A stale read may put the
\* wrong predecessor in one, but never a status the case did not have: every
\* fromStatus after the opening event was announced by the timeline.
EventPredecessorsWereHeld ==
  \A c \in Case :
    /\ Filed(c) <=> caseEvents[c] # << >>
    /\ \A n \in DOMAIN caseEvents[c] :
         IF n = 1 THEN caseEvents[c][n].from = Null
                  ELSE Announced(c, caseEvents[c][n].from)

\* The escalation level is earned: it is above 0 exactly when the timeline holds
\* an escalation, manual or automated, and it is 2 only when it holds two.
\* Every level is written from a level read earlier, so a handler that read
\* before another one committed must not credit more than what happened.
EscalationLevelIsEarned ==
  \A c \in Case :
    LET escalations == { i \in Positions(c) : IsEscalation(timeline[c][i]) } IN
    /\ rescueCase[c].level = 0 <=> escalations = {}
    /\ rescueCase[c].level = 2 => \E i, j \in escalations : i < j

\* resolvedAt and closedAt agree with history: the column is set exactly when
\* the timeline records such a resolution or closure.
StampsMatchHistory ==
  \A c \in Case :
    /\ rescueCase[c].resolvedAt
         <=> \E i \in Positions(c) : timeline[c][i].eventType = "STATUS" /\ Resolves(timeline[c][i].status)
    /\ rescueCase[c].closedAt
         <=> \E i \in Positions(c) : timeline[c][i] = StatusEntry("CLOSED")

\* Nothing is dispatched that was not prepared: a COMPLAINT_SUBMITTED record
\* has a COMPLAINT_GENERATED record before it on the same case.
SubmissionsWerePrepared ==
  \A c \in Case : \A i \in Positions(c) :
    timeline[c][i].eventType = "COMPLAINT_SUBMITTED" =>
      \E j \in Positions(c) : j < i /\ timeline[c][j].eventType = "COMPLAINT_GENERATED"

\* An automated breach is only ever recorded on a case whose deadline has passed
\* and which, at some time before, was waiting for its provider.
BreachesWereDue ==
  \A c \in Case : \A i \in Positions(c) :
    IsBreach(timeline[c][i]) =>
      /\ rescueCase[c].sla = "expired"
      /\ \E j \in Positions(c) : j < i /\ StatusAfter(timeline[c][j]) \in AwaitsProvider

CaseReadIsHistory(q) ==
  /\ q.op \in {"update", "escalate"} => Announced(q.case, q.from)
  /\ q.op = "escalate" /\ q.level > 0 => Escalated(q.case)

ComplaintReadIsHistory(q) ==
  /\ q.op = "generate" => Opened(q.case)
  /\ q.op = "submit"   => Recorded(q.case, "COMPLAINT_GENERATED")

SnapshotIsHistory(x) ==
  /\ x.status \in AwaitsProvider
  /\ Announced(x.case, x.status)
  /\ rescueCase[x.case].sla = "expired"
  /\ x.level > 0 => Escalated(x.case)

\* What a handler in flight remembers is history, if no longer the present:
\* the status and the level it read, the complaint it will submit, and the
\* wait and the deadline that put a case in the snapshot of a scan.
ReadsAreHistory ==
  /\ \A r \in CaseRequest : CaseReadIsHistory(caseRequest[r])
  /\ \A r \in ComplaintRequest : ComplaintReadIsHistory(complaintRequest[r])
  /\ \A k \in Complaint :
       complaintCase[k] # Null => Recorded(complaintCase[k], "COMPLAINT_GENERATED")
  /\ \A r \in EvidenceRequest :
       evidenceRequest[r].op # "idle" => Opened(evidenceRequest[r].case)
  /\ \A s \in Scanner : \A x \in scan[s].queue : SnapshotIsHistory(x)

\* The inductive invariant behind the theorems: the tables are typed, agree with
\* the timeline, and so does what every handler in flight remembers.
HistoryInv ==
  /\ TypeOK
  /\ TimelineDeterminesStatus
  /\ EventPredecessorsWereHeld
  /\ EscalationLevelIsEarned
  /\ StampsMatchHistory
  /\ SubmissionsWerePrepared
  /\ BreachesWereDue
  /\ ReadsAreHistory

\* The two logs agree: leaving out complaint records and remarks, the timeline
\* announces the very statuses, in the very order, that the CaseEvents record.
EventsMirrorTimeline ==
  \A c \in Case :
    /\ Cardinality(Logged(c)) = Len(caseEvents[c])
    /\ \A i \in Logged(c) : caseEvents[c][Rank(c, i)].to = StatusAfter(timeline[c][i])

\* Every submission and every generated complaint or evidence row has its own
\* timeline record, and no record is without its row.
RowsMatchTimeline ==
  \A c \in Case :
    /\ Records(c, "COMPLAINT_GENERATED") = Cardinality(ComplaintsOf(c))
    /\ Records(c, "COMPLAINT_SUBMITTED") = Cardinality(SubmissionsOf(c))
    /\ Records(c, "EVIDENCE_UPLOADED")   = Cardinality(EvidenceOf(c))

\* The owner is told of a breach only after it was committed, and a breach goes
\* untold only while its scan is about to tell it or because a scan failed.
NotificationsFollowBreaches ==
  \A c \in Case :
    LET told == notifications[c] + Cardinality(TellersOf(c)) IN
    told <= Breaches(c) /\ Breaches(c) <= told + failures

-----------------------------------------------------------------------------
(* Refinement and liveness *)

Journal ==
  INSTANCE CaseJournal WITH
    Record  <- TimelineEntry,
    journal <- timeline,
    status  <- [c \in Case |-> rescueCase[c].status],
    level   <- [c \in Case |-> rescueCase[c].level]

\* The interleaved handlers implement the append-only journal.
ImplementsJournal == Journal!Spec

\* With scans triggered again and again, a case whose deadline has passed while
\* it awaits its provider does not stay so: it is escalated (or moved by
\* somebody), even when scans fail on the way.
OverdueCasesMoveOn == \A c \in Case : Overdue(c) ~> ~Overdue(c)

\* No failure, no silence: again and again, all breaches of a case but at most
\* one per failed scan have been notified.
BreachesAreTold == \A c \in Case : []<>(Breaches(c) <= notifications[c] + failures)

-----------------------------------------------------------------------------
(* What the repository says, and the code does not do. *)

\* The timeline text of an automated breach: "The regulatory response window has
\* expired without provider resolution."  A breach is recorded only on a case
\* that is not resolved or closed at that moment.
BreachMeansUnresolved ==
  [][\A c \in Case :
       (Len(timeline'[c]) > Len(timeline[c]) /\ IsBreach(timeline'[c][Len(timeline'[c])]))
         => rescueCase[c].status \notin {"RESOLVED", "PARTIALLY_RESOLVED", "CLOSED"}]_vars

\* "1. Advance escalation level": an automated breach never moves a case back to
\* a lower level.
BreachAdvancesLevel ==
  [][\A c \in Case :
       (Len(timeline'[c]) > Len(timeline[c]) /\ IsBreach(timeline'[c][Len(timeline'[c])]))
         => rescueCase'[c].level >= rescueCase[c].level]_vars
=============================================================================
