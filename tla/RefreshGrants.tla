------------------------------ MODULE RefreshGrants ------------------------------
(***************************************************************************)
(* What a refresh token is good for, apart from time: at most one token    *)
(* opens a session, no token opens two, and a session that was closed is   *)
(* never opened again.                                                     *)
(***************************************************************************)
CONSTANTS SessionId, Token

VARIABLES
  good,   \* the pairs <<s, t>> where t refreshes s
  closed  \* the sessions that were closed

vars == <<good, closed>>

Open(s) == \E t \in Token : <<s, t>> \in good

Init == good = {} /\ closed = {}

Free(t) == \A s \in SessionId : <<s, t>> \notin good

Grant(s, t) ==
  /\ ~Open(s)
  /\ s \notin closed
  /\ Free(t)
  /\ good' = good \cup {<<s, t>>}
  /\ UNCHANGED closed

\* A new token replaces the one that was good.
Renew(s, t) ==
  /\ Open(s)
  /\ Free(t)
  /\ good' = { g \in good : g[1] # s } \cup {<<s, t>>}
  /\ UNCHANGED closed

Close(S) ==
  /\ good' = { g \in good : g[1] \notin S }
  /\ closed' = closed \cup S

Next ==
  \/ \E s \in SessionId, t \in Token : Grant(s, t) \/ Renew(s, t)
  \/ \E S \in SUBSET { s \in SessionId : Open(s) } : Close(S)

Spec == Init /\ [][Next]_vars
=============================================================================
