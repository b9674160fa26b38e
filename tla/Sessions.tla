-------------------------------- MODULE Sessions --------------------------------
(***************************************************************************)
(* Accounts and sessions: requests of several clients interleaved at their *)
(* awaits, with time, rejected handlers and lost answers.                  *)
(***************************************************************************)
EXTENDS AuthService

vars == <<accountVars, authVars>>

Init == AccountInit /\ AuthInit

Next ==
  \/ AuthNext
  \/ SecondPasses /\ UNCHANGED authVars

Spec == Init /\ [][Next]_vars

-----------------------------------------------------------------------------
TypeOK == AccountTypeOK /\ AuthTypeOK

\* Rotation and cookie agree: a client whose user never overlapped the calls of
\* one client nor lost an answer holds the token its session has now, whatever
\* other clients, resets and suspensions do meanwhile.
JarIsCurrent ==
  \A c \in Client :
    jar[c] # NoToken /\ jar[c].sub \notin disturbed /\ ~Busy(c) => Carrying(jar[c]) # {}

\* After an orderly logout the token is dead for good: no session that is or will
\* be valid carries it, not even one a login in the same second would open.
LogoutSticks ==
  \A t \in loggedOut : \A s \in Carrying(t) : session[s].state = "invalid"

\* A reset that was answered closed every session that existed when it wrote the
\* password, and none of them is ever valid again.
AnsweredResetsClosed == \A s \in swept : session[s].state = "invalid"

\* The audit log tells how a status came about: the last change ends in it, and
\* each change names a predecessor the account did have, though another
\* administrator may have replaced it in the meantime.
AuditTellsStatus ==
  \A u \in User :
    /\ account[u].status = IF audit[u] = << >> THEN "ACTIVE" ELSE audit[u][Len(audit[u])].to
    /\ \A n \in DOMAIN audit[u] :
         audit[u][n].from \in {"ACTIVE"} \cup { audit[u][m].to : m \in 1..(n - 1) }

-----------------------------------------------------------------------------
good == { <<s, session[s].token>> : s \in { x \in SessionId : session[x].state = "valid" } }

closed == { s \in SessionId : session[s].state = "invalid" }

Grants == INSTANCE RefreshGrants

\* The Session table implements RefreshGrants: one token per session, one session
\* per token, and no way back from isValid = false.
ImplementsGrants == Grants!Spec
=============================================================================
