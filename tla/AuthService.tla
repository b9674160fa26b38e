------------------------------- MODULE AuthService -------------------------------
(***************************************************************************)
(* AuthDomainService with its controller, AdminService.updateUserStatus,   *)
(* and the cookies of the clients that call them. A slot of call is one    *)
(* request; between two of its steps any other request may run. Requests   *)
(* refused for what they bring (a wrong password, an unknown email, a      *)
(* token that is not accepted) change nothing and are left out.            *)
(***************************************************************************)
EXTENDS AccountStore

CONSTANTS
  Client,     \* cookie jars: browsers and API clients
  Slot,       \* requests that may be in flight at the same time
  NewStatus,  \* the statuses an administrator gives
  MaxCalls    \* bound: requests that change sessions or accounts

ASSUME AuthAssumption ==
  /\ NewStatus \subseteq AccountStatus
  /\ MaxCalls \in Nat
  /\ Null \notin Client \cup SessionId

VARIABLES
  call,       \* the request in each slot
  jar,        \* the refresh_token cookie of each client
  calls,      \* how many requests were received
  disturbed,  \* history: users one of whose clients overlapped its calls or lost an answer
  loggedOut,  \* history: tokens with which an undisturbed user's client logged out
  swept       \* history: sessions that existed when an answered reset wrote its password

authVars == <<call, jar, calls, disturbed, loggedOut, swept>>

Idle == [op |-> "idle"]

\* What a handler remembers between two awaits.
Registration == [op : {"register"}, client : Client, user : User, password : Password]
\* session: the row to rotate, Null to create one.
Signing      == [op : {"sign"}, client : Client, user : User, session : SessionId \cup {Null}]
Writing      == [op : {"write"}, client : Client, session : SessionId \cup {Null}, token : Token]
Leaving      == [op : {"logout"}, client : Client, token : Token]
\* The answer on its way, which sets the cookies to token or clears them.
Answer       == [op : {"answer"}, client : Client, was : Token, token : Token \cup {NoToken}]
Forgetting   == [op : {"forgot"}, user : User]
Resetting    == [op : {"reset"}, user : User, password : Password]
Sweeping     == [op : {"sweep"}, user : User, found : SUBSET SessionId]
Changing     == [op : {"change"}, user : User, password : Password]
Ruling       == [op : {"status"}, user : User, from : AccountStatus, to : AccountStatus]

AuthTypeOK ==
  /\ call \in [Slot -> {Idle} \cup Registration \cup Signing \cup Writing \cup Leaving \cup Answer
                       \cup Forgetting \cup Resetting \cup Sweeping \cup Changing \cup Ruling]
  /\ jar \in [Client -> Token \cup {NoToken}]
  /\ calls \in 0..MaxCalls
  /\ disturbed \subseteq User
  /\ loggedOut \subseteq Token
  /\ swept \subseteq SessionId

AuthInit ==
  /\ call = [r \in Slot |-> Idle]
  /\ jar  = [c \in Client |-> NoToken]
  /\ calls = 0
  /\ disturbed = {} /\ loggedOut = {} /\ swept = {}

\* The request in slot r carries cookies of client c.
ByClient(r, c) ==
  call[r].op \in {"register", "sign", "write", "logout", "answer"} /\ call[r].client = c

Busy(c) == \E r \in Slot : ByClient(r, c)

\* A request of client c for user u arrives in slot r and goes on as q.
Begin(r, c, u, q) ==
  /\ call[r] = Idle
  /\ calls < MaxCalls
  /\ calls' = calls + 1
  /\ call'  = [call EXCEPT ![r] = q]
  /\ disturbed' = IF Busy(c) THEN disturbed \cup {u} ELSE disturbed
  /\ UNCHANGED <<jar, loggedOut, swept>>

\* A request that touches no cookies arrives.
BeginPlain(r, q) ==
  /\ call[r] = Idle
  /\ calls < MaxCalls
  /\ calls' = calls + 1
  /\ call'  = [call EXCEPT ![r] = q]
  /\ UNCHANGED <<jar, disturbed, loggedOut, swept>>

Continue(r, q) ==
  /\ call' = [call EXCEPT ![r] = q]
  /\ UNCHANGED <<jar, calls, disturbed, loggedOut, swept>>

-----------------------------------------------------------------------------
(* register, login, refreshToken *)

\* register finds neither the email nor the phone number in use.
RegisterReads(r, c, u, p) ==
  /\ ~Registered(u)
  /\ Begin(r, c, u, [op |-> "register", client |-> c, user |-> u, password |-> p])
  /\ UNCHANGED accountVars

\* The user is created with its business; a second one violates the unique email.
RegisterCommits(r) ==
  LET q == call[r] IN
  /\ q.op = "register"
  /\ ~Registered(q.user)
  /\ account' = [account EXCEPT ![q.user] = [NoAccount EXCEPT !.password = q.password]]
  /\ Continue(r, [op |-> "sign", client |-> q.client, user |-> q.user, session |-> Null])
  /\ UNCHANGED <<session, audit, resets, now>>

\* login reads the row whose password and status it then accepts.
LoginReads(r, c, u, p) ==
  /\ account[u].password = p
  /\ account[u].status = "ACTIVE"
  /\ Begin(r, c, u, [op |-> "sign", client |-> c, user |-> u, session |-> Null])
  /\ UNCHANGED accountVars

\* refreshToken accepts the token and finds its session valid.
RefreshReads(r, c, s) ==
  /\ session[s].state = "valid"
  /\ session[s].token = jar[c]
  /\ RefreshGood(jar[c])
  /\ Begin(r, c, jar[c].sub,
           [op |-> "sign", client |-> c, user |-> session[s].token.sub, session |-> s])
  /\ UNCHANGED accountVars

\* The handler resumes and signs; its statement is on the way.
SignTokens(r) ==
  LET q == call[r] IN
  /\ q.op = "sign"
  /\ Continue(r, [ op |-> "write", client |-> q.client, session |-> q.session,
                   token |-> Signed(q.user) ])
  /\ UNCHANGED accountVars

Answering(q) == [op |-> "answer", client |-> q.client, was |-> q.token, token |-> q.token]

\* Mutant: the schema does not make refreshToken unique.
OpenSharedSession(r, s) ==
  LET q == call[r] IN
  /\ q.op = "write" /\ q.session = Null
  /\ ~Present(s)
  /\ session' = [session EXCEPT ![s] = [state |-> "valid", token |-> q.token]]
  /\ Continue(r, Answering(q))
  /\ UNCHANGED <<account, audit, resets, now>>

\* session.create, unless a row has the token already.
OpenSession(r, s) ==
  LET q == call[r] IN
  /\ q.op = "write" /\ q.session = Null
  /\ ~Present(s)
  /\ Unused(q.token, s)
  /\ session' = [session EXCEPT ![s] = [state |-> "valid", token |-> q.token]]
  /\ Continue(r, Answering(q))
  /\ UNCHANGED <<account, audit, resets, now>>

\* Mutant: the rotation revives the session.
RotateAndRevive(r) ==
  LET q == call[r] IN
  /\ q.op = "write" /\ q.session # Null
  /\ Unused(q.token, q.session)
  /\ session' = [session EXCEPT ![q.session] = [state |-> "valid", token |-> q.token]]
  /\ Continue(r, Answering(q))
  /\ UNCHANGED <<account, audit, resets, now>>

\* session.update by id: neither the old token nor isValid is looked at again.
RotateSession(r) ==
  LET q == call[r] IN
  /\ q.op = "write" /\ q.session # Null
  /\ Unused(q.token, q.session)
  /\ session' = [session EXCEPT ![q.session].token = q.token]
  /\ Continue(r, Answering(q))
  /\ UNCHANGED <<account, audit, resets, now>>

-----------------------------------------------------------------------------
(* logout *)

LogoutArrives(r, c) ==
  /\ jar[c] # NoToken
  /\ Begin(r, c, jar[c].sub, [op |-> "logout", client |-> c, token |-> jar[c]])
  /\ UNCHANGED accountVars

Cleared(q) == [op |-> "answer", client |-> q.client, was |-> q.token, token |-> NoToken]

LogoutCommits(r) ==
  LET q == call[r] IN
  /\ q.op = "logout"
  /\ session' = Invalidated(Carrying(q.token))
  /\ Continue(r, Cleared(q))
  /\ UNCHANGED <<account, audit, resets, now>>

\* The statement fails, the catch swallows it, and the cookies are cleared all the same.
LogoutSwallowsError(r) ==
  LET q == call[r] IN
  /\ q.op = "logout"
  /\ call' = [call EXCEPT ![r] = Cleared(q)]
  /\ disturbed' = disturbed \cup {q.token.sub}
  /\ UNCHANGED <<accountVars, jar, calls, loggedOut, swept>>

\* The answer reaches the client.
AnswerArrives(r) ==
  LET q == call[r] IN
  /\ q.op = "answer"
  /\ jar' = [jar EXCEPT ![q.client] = q.token]
  /\ loggedOut' = IF q.token = NoToken /\ q.was.sub \notin disturbed
                  THEN loggedOut \cup {q.was} ELSE loggedOut
  /\ call' = [call EXCEPT ![r] = Idle]
  /\ UNCHANGED <<accountVars, calls, disturbed, swept>>

-----------------------------------------------------------------------------
(* forgotPassword, resetPassword, changePassword *)

ForgotReads(r, u) ==
  /\ Registered(u)
  /\ BeginPlain(r, [op |-> "forgot", user |-> u])
  /\ UNCHANGED accountVars

ForgotCommits(r) ==
  LET q == call[r] IN
  /\ q.op = "forgot"
  /\ resets < MaxResets
  /\ resets' = resets + 1
  /\ account' = [account EXCEPT ![q.user].reset =
       [serial |-> resets + 1, expires |-> now + ResetLifetime]]
  /\ Continue(r, Idle)
  /\ UNCHANGED <<session, audit, now>>

\* Somebody brings the token of the row while it is good; the hashing begins.
ResetReads(r, u, p) ==
  /\ account[u].reset # NoReset
  /\ account[u].reset.expires > now
  /\ BeginPlain(r, [op |-> "reset", user |-> u, password |-> p])
  /\ UNCHANGED accountVars

\* user.update by id: whatever reset token the row has now is cleared.
ResetWrites(r) ==
  LET q == call[r] IN
  /\ q.op = "reset"
  /\ account' = [account EXCEPT ![q.user].password = q.password, ![q.user].reset = NoReset]
  /\ Continue(r, [op |-> "sweep", user |-> q.user, found |-> SessionsOf(q.user)])
  /\ UNCHANGED <<session, audit, resets, now>>

\* Mutant: the reset closes only the sessions that are still good.
ResetSweepsGood(r) ==
  LET q == call[r] IN
  /\ q.op = "sweep"
  /\ session' = Invalidated({ s \in SessionsOf(q.user) : AccessGood(session[s].token) })
  /\ swept' = swept \cup q.found
  /\ call' = [call EXCEPT ![r] = Idle]
  /\ UNCHANGED <<account, audit, resets, now, jar, calls, disturbed, loggedOut>>

\* session.updateMany, and the answer.
ResetSweeps(r) ==
  LET q == call[r] IN
  /\ q.op = "sweep"
  /\ session' = Invalidated(SessionsOf(q.user))
  /\ swept' = swept \cup q.found
  /\ call' = [call EXCEPT ![r] = Idle]
  /\ UNCHANGED <<account, audit, resets, now, jar, calls, disturbed, loggedOut>>

\* authenticate: the access cookie is good and the user active when it is looked up.
Authenticated(c) ==
  /\ jar[c] # NoToken
  /\ AccessGood(jar[c])
  /\ account[jar[c].sub].status = "ACTIVE"

\* The current password is right.
ChangeReads(r, c, p) ==
  /\ Authenticated(c)
  /\ Registered(jar[c].sub)
  /\ BeginPlain(r, [op |-> "change", user |-> jar[c].sub, password |-> p])
  /\ UNCHANGED accountVars

\* No session is closed.
ChangeCommits(r) ==
  LET q == call[r] IN
  /\ q.op = "change"
  /\ account' = [account EXCEPT ![q.user].password = q.password]
  /\ Continue(r, Idle)
  /\ UNCHANGED <<session, audit, resets, now>>

-----------------------------------------------------------------------------
(* AdminService.updateUserStatus *)

StatusReads(r, c, u, to) ==
  /\ Authenticated(c)
  /\ jar[c].sub \in Admin
  /\ Registered(u)
  /\ BeginPlain(r, [op |-> "status", user |-> u, from |-> account[u].status, to |-> to])
  /\ UNCHANGED accountVars

\* Mutant: the audit is written only when the status read was another one.
StatusCommitsQuietly(r) ==
  LET q == call[r] IN
  /\ q.op = "status"
  /\ account' = [account EXCEPT ![q.user].status = q.to]
  /\ audit' = IF q.from # q.to
              THEN [audit EXCEPT ![q.user] = Append(@, [from |-> q.from, to |-> q.to])]
              ELSE audit
  /\ Continue(r, Idle)
  /\ UNCHANGED <<session, resets, now>>

StatusCommits(r) ==
  LET q == call[r] IN
  /\ q.op = "status"
  /\ account' = [account EXCEPT ![q.user].status = q.to]
  /\ audit' = [audit EXCEPT ![q.user] = Append(@, [from |-> q.from, to |-> q.to])]
  /\ Continue(r, Idle)
  /\ UNCHANGED <<session, resets, now>>

-----------------------------------------------------------------------------
\* A handler rejects, the process stops, or the answer is lost on its way: what
\* was committed stays and the cookies do not change.
CallFails(r) ==
  LET q == call[r] IN
  /\ q # Idle
  /\ call' = [call EXCEPT ![r] = Idle]
  /\ disturbed' = IF q.op = "answer" THEN disturbed \cup {q.was.sub} ELSE disturbed
  /\ UNCHANGED <<accountVars, jar, calls, loggedOut, swept>>

ClientCalls(r) ==
  \E c \in Client :
    \/ \E u \in User, p \in Password : RegisterReads(r, c, u, p) \/ LoginReads(r, c, u, p)
    \/ \E s \in SessionId : RefreshReads(r, c, s)
    \/ LogoutArrives(r, c)
    \/ \E p \in Password : ChangeReads(r, c, p)
    \/ \E u \in User, to \in NewStatus : StatusReads(r, c, u, to)

AuthNext ==
  \E r \in Slot :
    \/ ClientCalls(r)
    \/ RegisterCommits(r)
    \/ SignTokens(r)
    \/ \E s \in SessionId : OpenSession(r, s)
    \/ RotateSession(r)
    \/ LogoutCommits(r)
    \/ LogoutSwallowsError(r)
    \/ AnswerArrives(r)
    \/ \E u \in User : ForgotReads(r, u)
    \/ ForgotCommits(r)
    \/ \E u \in User, p \in Password : ResetReads(r, u, p)
    \/ ResetWrites(r)
    \/ ResetSweeps(r)
    \/ ChangeCommits(r)
    \/ StatusCommits(r)
    \/ CallFails(r)
=============================================================================
