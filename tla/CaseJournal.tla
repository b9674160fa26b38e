------------------------------ MODULE CaseJournal ------------------------------
(***************************************************************************)
(* What the case service promises about the history of a case, whichever   *)
(* handler acts: a case opens once; from then on a step writes one record  *)
(* in the journal of one case; the status of a case is the one its last    *)
(* status-changing record announces; the escalation level moves only with  *)
(* an escalation record, and then to the regulator (1) or to legal (2).    *)
(* Nothing written is ever removed or rewritten.                           *)
(***************************************************************************)
EXTENDS Naturals, Sequences

CONSTANTS
  Case,
  Record,             \* the records a journal may hold
  Null,
  StatusAfter(_),     \* the status a record announces; Null if it announces none
  IsEscalation(_)     \* whether a record announces an escalation

VARIABLES journal, status, level

journalVars == <<journal, status, level>>

Init ==
  /\ journal = [c \in Case |-> << >>]
  /\ status  = [c \in Case |-> Null]
  /\ level   = [c \in Case |-> 0]

Write(c, e) == journal' = [journal EXCEPT ![c] = Append(@, e)]

Open(c, e) ==
  /\ journal[c] = << >>
  /\ StatusAfter(e) = "OPEN"
  /\ ~IsEscalation(e)
  /\ Write(c, e)
  /\ status' = [status EXCEPT ![c] = "OPEN"]
  /\ UNCHANGED level

Move(c, e) ==
  /\ journal[c] # << >>
  /\ StatusAfter(e) # Null
  /\ ~IsEscalation(e)
  /\ Write(c, e)
  /\ status' = [status EXCEPT ![c] = StatusAfter(e)]
  /\ UNCHANGED level

Escalate(c, e) ==
  /\ journal[c] # << >>
  /\ StatusAfter(e) # Null
  /\ IsEscalation(e)
  /\ Write(c, e)
  /\ status' = [status EXCEPT ![c] = StatusAfter(e)]
  /\ \E l \in 1..2 : level' = [level EXCEPT ![c] = l]

Remark(c, e) ==
  /\ journal[c] # << >>
  /\ StatusAfter(e) = Null
  /\ Write(c, e)
  /\ UNCHANGED <<status, level>>

Next ==
  \E c \in Case, e \in Record : Open(c, e) \/ Move(c, e) \/ Escalate(c, e) \/ Remark(c, e)

Spec == Init /\ [][Next]_journalVars
=============================================================================
