------------------------------ MODULE CookieProofs ------------------------------
(***************************************************************************)
(* Proofs about Sessions: what the clients hold and what they logged out   *)
(* with, for every set of users, clients, rows, passwords and requests.    *)
(***************************************************************************)
EXTENDS SessionsProofs

\* Request q carries cookies of client c and is about user u.
Serves(q, c, u) ==
  \/ q.op \in {"register", "sign"} /\ q.client = c /\ q.user = u
  \/ q.op \in {"write", "logout"} /\ q.client = c /\ q.token.sub = u
  \/ q.op = "answer" /\ q.client = c /\ q.was.sub = u

\* Request q relies on a session with token t: it rotates it, closes it, or tells of it.
Relies(q, t) ==
  \/ q.op \in {"sign", "write"} /\ q.session # Null /\ session[q.session].token = t
  \/ q.op \in {"logout", "answer"} /\ q.token = t

\* Client c counts on a session of u with token t: by its cookie, unless an answer is
\* about to replace it, or by a request in flight.
Holds(c, u, t) ==
  \/ /\ jar[c] = t /\ t.sub = u
     /\ \A r \in Slot : call[r].op = "answer" => ~Serves(call[r], c, u)
  \/ \E r \in Slot : Serves(call[r], c, u) /\ Relies(call[r], t)

\* The calls of an undisturbed user's clients do not overlap.
CallsAlone ==
  \A r, x \in Slot : \A c \in Client : \A u \in User \ disturbed :
    Serves(call[r], c, u) /\ Serves(call[x], c, u) => r = x

\* What an undisturbed user's client counts on is there, and is its alone.
HoldsCurrent ==
  \A c \in Client : \A u \in User \ disturbed : \A t \in Token :
    Holds(c, u, t) => /\ Carrying(t) # {}
                      /\ \A d \in Client \ {c} : ~Holds(d, u, t)

\* An answer sets the cookie to the token it was asked for.
AnswersOwn ==
  \A r \in Slot : call[r].op = "answer" /\ call[r].token # NoToken => call[r].token = call[r].was

\* No session carries t but closed ones, at least one does, and none is being rotated.
Dead(t) ==
  /\ Carrying(t) # {}
  /\ \A s \in Carrying(t) :
       /\ session[s].state = "invalid"
       /\ \A r \in Slot : call[r].op \in {"sign", "write"} => call[r].session # s

\* Tokens an undisturbed user has logged out with, or is about to hear so, are dead.
LogoutsKill ==
  /\ \A t \in loggedOut : Dead(t)
  /\ \A r \in Slot :
       call[r].op = "answer" /\ call[r].token = NoToken /\ call[r].was.sub \notin disturbed
         => Dead(call[r].was)

\* The inductive invariant of cookies and logouts.
CookieInv == CallsAlone /\ HoldsCurrent /\ AnswersOwn /\ LogoutsKill

\* A client counts on tokens of the user it names.
LEMMA HoldsOwn ==
  ASSUME TypeOK, RotatesOwn, AnswersOwn, NEW c \in Client, NEW u \in User, NEW t \in Token,
         Holds(c, u, t)
  PROVE  t.sub = u
<1>1. ASSUME NEW r \in Slot, Serves(call[r], c, u), Relies(call[r], t) PROVE t.sub = u
  <2>1. CASE call[r].op = "answer"
    BY <1>1, <2>1, TokenKinds DEF Serves, Relies, AnswersOwn
  <2>2. CASE call[r].op = "logout"
    BY <1>1, <2>2 DEF Serves, Relies
  <2>3. CASE call[r].op \in {"sign", "write"}
    BY <1>1, <2>3 DEF Serves, Relies, RotatesOwn
  <2> QED BY <1>1, <2>1, <2>2, <2>3 DEF Relies
<1> QED BY <1>1 DEF Holds

\* Slots but r keep what they rely on as long as no row gets another token.
LEMMA ReliesKept ==
  ASSUME TypeOK, NEW q \in Request, NEW t,
         \A s \in SessionId : session'[s].token = session[s].token
  PROVE  Relies(q, t)' <=> Relies(q, t)
<1>1. q.op \in {"sign", "write"} /\ q.session # Null => q.session \in SessionId
  BY OpTellsRecord DEF Signing, Writing
<1> QED BY <1>1 DEF Relies

\* A step that changes one slot and no token: the clients count on nothing new.
LEMMA SlotStep ==
  ASSUME TypeOK, CallsAlone, HoldsCurrent,
         NEW r \in Slot, NEW q \in Request, call' = [call EXCEPT ![r] = q],
         jar' = jar, disturbed \subseteq disturbed',
         \A s \in SessionId : session'[s].token = session[s].token,
         \A c \in Client, u \in User \ disturbed' :
           Serves(q, c, u) => Serves(call[r], c, u) \/ \A x \in Slot : ~Serves(call[x], c, u),
         \A c \in Client, u \in User \ disturbed', t \in Token :
           Serves(q, c, u) /\ Relies(q, t) => Holds(c, u, t),
         \A c \in Client, u \in User \ disturbed' : call[r].op = "answer" => ~Serves(call[r], c, u)
  PROVE  CallsAlone' /\ HoldsCurrent'
<1>1. \A x \in Slot : call[x] \in Request
  BY DEF TypeOK, AuthTypeOK, Request
<1>2. call'[r] = q /\ \A x \in Slot \ {r} : call'[x] = call[x]
  BY DEF TypeOK, AuthTypeOK
<1>3. CallsAlone'
  <2> SUFFICES ASSUME NEW x \in Slot, NEW y \in Slot, NEW c \in Client, NEW u \in User \ disturbed',
                      Serves(call'[x], c, u), Serves(call'[y], c, u), x # y
               PROVE  FALSE
    BY DEF CallsAlone, Serves
  <2>1. CASE x # r /\ y # r
    BY <1>2, <2>1 DEF CallsAlone
  <2>2. CASE x = r \/ y = r
    BY <1>2, <2>2 DEF CallsAlone
  <2> QED BY <2>1, <2>2
<1>4. ASSUME NEW c \in Client, NEW u \in User \ disturbed', NEW t \in Token, Holds(c, u, t)'
      PROVE  Holds(c, u, t)
  <2>1. ASSUME NEW x \in Slot, Serves(call'[x], c, u), Relies(call[x], t)', x # r PROVE Holds(c, u, t)
    <3>1. call'[x] = call[x]
      BY <1>2, <2>1
    <3> QED BY <1>1, <2>1, <3>1, ReliesKept DEF Holds, Relies
  <2>2. ASSUME Serves(call'[r], c, u), Relies(call[r], t)' PROVE Holds(c, u, t)
    <3>1. Relies(q, t)'
      BY <1>2, <2>2 DEF Relies
    <3> QED BY <1>2, <2>2, <3>1, ReliesKept
  <2>3. ASSUME jar'[c] = t, t.sub = u,
               \A x \in Slot : call'[x].op = "answer" => ~Serves(call'[x], c, u)
        PROVE  Holds(c, u, t)
    BY <1>2, <2>3 DEF Holds
  <2> QED BY <1>4, <2>1, <2>2, <2>3 DEF Holds, Serves
<1>5. \A t : Carrying(t)' = Carrying(t)
  BY DEF Carrying
<1>6. HoldsCurrent'
  <2> SUFFICES ASSUME NEW c \in Client, NEW u \in User \ disturbed', NEW t \in Token, Holds(c, u, t)'
               PROVE  Carrying(t)' # {} /\ \A d \in Client \ {c} : ~Holds(d, u, t)'
    BY DEF HoldsCurrent
  <2> QED BY <1>4, <1>5 DEF HoldsCurrent
<1> QED BY <1>3, <1>6

\* The cookies of an answer were counted on before it came.
LEMMA AnswerStep ==
  ASSUME TypeOK, CallsAlone, HoldsCurrent, AnswersOwn, NEW r \in Slot, AnswerArrives(r)
  PROVE  CallsAlone' /\ HoldsCurrent'
<1>1. call[r] \in Answer /\ call[r].op = "answer"
  <2>1. call[r] \in Request
    BY DEF TypeOK, AuthTypeOK, Request
  <2> QED BY <2>1, OpTellsRecord DEF AnswerArrives
<1>2. /\ call'[r] = Idle /\ \A x \in Slot \ {r} : call'[x] = call[x]
      /\ jar'[call[r].client] = call[r].token
      /\ \A c \in Client \ {call[r].client} : jar'[c] = jar[c]
      /\ disturbed' = disturbed /\ session' = session
  BY <1>1 DEF AnswerArrives, accountVars, TypeOK, AuthTypeOK, Answer
<1>3. \A c, u : ~Serves(Idle, c, u)
  BY DEF Serves, Idle
<1>4. CallsAlone'
  BY <1>2, <1>3 DEF CallsAlone, Serves
<1>5. ASSUME NEW c \in Client, NEW u \in User \ disturbed, NEW t \in Token, Holds(c, u, t)'
      PROVE  Holds(c, u, t)
  <2>1. ASSUME NEW x \in Slot, Serves(call'[x], c, u), Relies(call[x], t)' PROVE Holds(c, u, t)
    <3>1. x # r /\ call'[x] = call[x]
      BY <1>2, <1>3, <2>1
    <3>2. Relies(call[x], t)
      BY <1>2, <2>1, <3>1 DEF Relies
    <3> QED BY <2>1, <3>1, <3>2 DEF Holds
  <2>2. ASSUME jar'[c] = t, t.sub = u,
               \A x \in Slot : call'[x].op = "answer" => ~Serves(call'[x], c, u)
        PROVE  Holds(c, u, t)
    <3>1. CASE c = call[r].client
      <4>1. call[r].token = t /\ t = call[r].was
        BY <1>1, <1>2, <2>2, <3>1, TokenKinds DEF AnswersOwn
      <4> QED BY <1>1, <2>2, <3>1, <4>1 DEF Holds, Serves, Relies
    <3>2. CASE c # call[r].client
      <4>1. \A x \in Slot : call[x].op = "answer" => ~Serves(call[x], c, u)
        BY <1>1, <1>2, <2>2, <3>2 DEF Serves
      <4> QED BY <1>2, <2>2, <3>2, <4>1 DEF Holds
    <3> QED BY <3>1, <3>2
  <2> QED BY <1>5, <2>1, <2>2 DEF Holds, Serves
<1>6. \A t : Carrying(t)' = Carrying(t)
  BY <1>2 DEF Carrying
<1>7. HoldsCurrent'
  <2> SUFFICES ASSUME NEW c \in Client, NEW u \in User \ disturbed', NEW t \in Token, Holds(c, u, t)'
               PROVE  Carrying(t)' # {} /\ \A d \in Client \ {c} : ~Holds(d, u, t)'
    BY DEF HoldsCurrent
  <2> QED BY <1>2, <1>5, <1>6 DEF HoldsCurrent
<1> QED BY <1>4, <1>7

\* A row gets a token that no other row has: its client counts on that token alone.
LEMMA WriteStep ==
  ASSUME TypeOK, RotatesOwn, AnswersOwn, CallsAlone, HoldsCurrent,
         NEW r \in Slot, call[r].op = "write", NEW s \in SessionId, Unused(call[r].token, s),
         session[s].token = NoToken \/ call[r].session = s,
         session'[s].token = call[r].token,
         \A x \in SessionId \ {s} : session'[x].token = session[x].token,
         call' = [call EXCEPT ![r] = Answering(call[r])], jar' = jar, disturbed' = disturbed
  PROVE  CallsAlone' /\ HoldsCurrent'
<1> DEFINE q  == call[r]
           t0 == q.token
           u0 == t0.sub
           c0 == q.client
<1>0. \A x \in Slot : call[x] \in Request
  BY DEF TypeOK, AuthTypeOK, Request
<1>1. q \in Writing /\ q.op = "write" /\ t0 \in Token /\ u0 \in User /\ c0 \in Client
  <2>1. q \in Writing
    BY <1>0, OpTellsRecord
  <2> QED BY <2>1, TokenKinds DEF Writing
<1>2. /\ call'[r] = Answering(q) /\ \A x \in Slot \ {r} : call'[x] = call[x]
      /\ \A c, u : Serves(call'[r], c, u) <=> c = c0 /\ u = u0
      /\ \A c, u : Serves(call[r], c, u) <=> c = c0 /\ u = u0
  BY <1>1 DEF TypeOK, AuthTypeOK, Answering, Serves
<1>3. CallsAlone'
  BY <1>2 DEF CallsAlone, Serves
<1>4. call[r].session = s => session[s].token.sub = u0 /\ \A t : Relies(call[r], t) <=> session[s].token = t
  BY <1>1, AuthAssumption DEF RotatesOwn, Relies
<1>5. ASSUME NEW c \in Client, NEW u \in User \ disturbed, NEW t \in Token, Holds(c, u, t),
             c # c0 \/ u # u0
      PROVE  t # t0 /\ \E y \in SessionId \ {s} : session[y].token = t
  <2>1. PICK y \in SessionId : session[y].token = t
    BY <1>5 DEF HoldsCurrent, Carrying
  <2>2. y # s
    <3> SUFFICES ASSUME y = s PROVE FALSE
      OBVIOUS
    <3>1. call[r].session = s
      BY <2>1, TokenKinds
    <3>2. u = u0
      BY <1>4, <1>5, <2>1, <3>1, HoldsOwn
    <3>3. Holds(c0, u0, t)
      BY <1>2, <1>4, <2>1, <3>1 DEF Holds
    <3> QED BY <1>1, <1>5, <3>2, <3>3 DEF HoldsCurrent
  <2> QED BY <2>1, <2>2 DEF Unused
<1>6. ASSUME NEW c \in Client, NEW u \in User \ disturbed, NEW t \in Token, Holds(c, u, t)'
      PROVE  (c = c0 /\ u = u0 /\ t = t0) \/ (Holds(c, u, t) /\ (c # c0 \/ u # u0))
  <2>1. ASSUME NEW x \in Slot, x # r, Serves(call[x], c, u), Relies(call[x], t)'
        PROVE  Holds(c, u, t) /\ (c # c0 \/ u # u0)
    <3>1. c # c0 \/ u # u0
      BY <1>1, <1>2, <2>1 DEF CallsAlone
    <3>2. call'[x] = call[x] /\ call[x] \in Request
      BY <1>0, <1>2, <2>1
    <3>3. CASE call[x].op \in {"logout", "answer"}
      <4>1. Relies(call[x], t)
        BY <2>1, <3>2, <3>3 DEF Relies
      <4> QED BY <2>1, <3>1, <4>1 DEF Holds
    <3>4. CASE call[x].op \in {"sign", "write"}
      <4>1. call[x].session \in SessionId /\ call[x].session # Null /\ session'[call[x].session].token = t
        <5>1. call[x].session # Null /\ session'[call[x].session].token = t
          BY <2>1, <3>2, <3>4 DEF Relies
        <5>2. call[x].session \in SessionId \cup {Null}
          BY <3>2, <3>4, OpTellsRecord DEF Signing, Writing
        <5> QED BY <5>1, <5>2
      <4>2. CASE call[x].session # s
        <5>1. Relies(call[x], t)
          BY <3>4, <4>1, <4>2 DEF Relies
        <5> QED BY <2>1, <3>1, <5>1 DEF Holds
      <4>3. CASE call[x].session = s
        <5> DEFINE old == session[s].token
        <5>1. Relies(call[x], old) /\ old.sub = u /\ Present(s)
          BY <2>1, <3>4, <4>1, <4>3 DEF Relies, RotatesOwn, Serves
        <5>2. old \in Token
          BY <5>1 DEF TypeOK, AccountTypeOK, Session
        <5>3. call[r].session = s /\ old.sub = u0
          BY <1>4, <5>2, TokenKinds
        <5>4. Holds(c, u, old) /\ Holds(c0, u0, old)
          BY <1>2, <1>4, <2>1, <5>1, <5>3 DEF Holds
        <5>5. c # c0 /\ u = u0
          BY <3>1, <5>1, <5>3
        <5> QED BY <1>1, <5>2, <5>4, <5>5 DEF HoldsCurrent
      <4> QED BY <4>2, <4>3
    <3> QED BY <2>1, <3>2, <3>3, <3>4 DEF Relies
  <2>2. ASSUME Serves(call'[r], c, u), Relies(call[r], t)'
        PROVE  c = c0 /\ u = u0 /\ t = t0
    BY <1>2, <2>2 DEF Relies, Answering
  <2>3. ASSUME jar[c] = t, t.sub = u,
               \A x \in Slot : call'[x].op = "answer" => ~Serves(call'[x], c, u)
        PROVE  Holds(c, u, t) /\ (c # c0 \/ u # u0)
    <3>1. c # c0 \/ u # u0
      BY <1>2, <2>3 DEF Answering
    <3>2. \A x \in Slot : call[x].op = "answer" => ~Serves(call[x], c, u)
      BY <1>1, <1>2, <2>3
    <3> QED BY <2>3, <3>1, <3>2 DEF Holds
  <2>4. CASE \E x \in Slot : Serves(call'[x], c, u) /\ Relies(call[x], t)'
    BY <1>2, <2>1, <2>2, <2>4 DEF Serves
  <2>5. CASE jar'[c] = t /\ t.sub = u /\ \A x \in Slot : call'[x].op = "answer" => ~Serves(call'[x], c, u)
    BY <2>3, <2>5
  <2> QED BY <1>6, <2>4, <2>5 DEF Holds, Serves
<1>7. \A t : t = t0 => s \in Carrying(t)'
  BY DEF Carrying
<1>8. ASSUME NEW c \in Client, NEW u \in User \ disturbed, NEW t \in Token, Holds(c, u, t)'
      PROVE  Carrying(t)' # {}
  BY <1>5, <1>6, <1>7, <1>8 DEF Carrying
<1>9. ASSUME NEW c \in Client, NEW d \in Client \ {c}, NEW u \in User \ disturbed, NEW t \in Token,
             Holds(c, u, t)', Holds(d, u, t)'
      PROVE  FALSE
  <2>1. \/ c = c0 /\ u = u0 /\ t = t0
        \/ Holds(c, u, t) /\ (c # c0 \/ u # u0)
    BY <1>6, <1>9
  <2>2. \/ d = c0 /\ u = u0 /\ t = t0
        \/ Holds(d, u, t) /\ (d # c0 \/ u # u0)
    BY <1>6, <1>9
  <2>3. ~(Holds(c, u, t) /\ Holds(d, u, t))
    BY DEF HoldsCurrent
  <2>4. Holds(c, u, t) /\ (c # c0 \/ u # u0) => t # t0
    BY <1>5
  <2>5. Holds(d, u, t) /\ (d # c0 \/ u # u0) => t # t0
    BY <1>5
  <2> QED BY <2>1, <2>2, <2>3, <2>4, <2>5
<1>10. HoldsCurrent'
  BY <1>8, <1>9 DEF HoldsCurrent
<1> QED BY <1>3, <1>10

\* A row gets another token only from a request that writes it, and no other row has it.
LEMMA TokensMove ==
  ASSUME TypeOK, RotatesOwn, [Next]_vars, NEW s \in SessionId, session'[s].token # session[s].token
  PROVE  \E r \in Slot : /\ call[r].op = "write"
                         /\ Unused(call[r].token, s)
                         /\ session'[s].token = call[r].token
                         /\ session[s].token = NoToken \/ call[r].session = s
<1>1. ASSUME NEW S \in SUBSET SessionId, session' = Invalidated(S) PROVE FALSE
  BY <1>1 DEF Invalidated, TypeOK, AccountTypeOK, Session
<1>2. ASSUME NEW r \in Slot, NEW x \in SessionId, OpenSession(r, x)
      PROVE  x = s /\ call[r].op = "write" /\ Unused(call[r].token, s) /\ session'[s].token = call[r].token
             /\ session[s].token = NoToken
  BY <1>2 DEF OpenSession, TypeOK, AccountTypeOK, Present
<1>3. ASSUME NEW r \in Slot, RotateSession(r)
      PROVE  call[r].op = "write" /\ Unused(call[r].token, s) /\ session'[s].token = call[r].token
             /\ call[r].session = s
  <2>1. session' = [session EXCEPT ![call[r].session].token = call[r].token]
    BY <1>3 DEF RotateSession
  <2>2. call[r].session = s
    BY <2>1 DEF TypeOK, AccountTypeOK
  <2> QED BY <1>3, <2>1, <2>2 DEF RotateSession, TypeOK, AccountTypeOK, Session
<1>4. ASSUME NEW r \in Slot, LogoutCommits(r) PROVE FALSE
  BY <1>1, <1>4 DEF LogoutCommits, Carrying
<1>5. ASSUME NEW r \in Slot, ResetSweeps(r) PROVE FALSE
  BY <1>1, <1>5 DEF ResetSweeps, SessionsOf
<1>6. ASSUME NEW r \in Slot, ClientCalls(r) PROVE UNCHANGED session
  BY <1>6 DEF ClientCalls, RegisterReads, LoginReads, RefreshReads, LogoutArrives, ChangeReads,
              StatusReads, accountVars
<1>7. ASSUME NEW r \in Slot, \/ RegisterCommits(r) \/ SignTokens(r) \/ LogoutSwallowsError(r)
             \/ AnswerArrives(r) \/ ForgotCommits(r) \/ ResetWrites(r) \/ ChangeCommits(r)
             \/ StatusCommits(r) \/ CallFails(r)
             \/ \E u \in User : ForgotReads(r, u) \/ \E p \in Password : ResetReads(r, u, p)
      PROVE  UNCHANGED session
  BY <1>7 DEF RegisterCommits, SignTokens, LogoutSwallowsError, AnswerArrives, ForgotCommits,
              ResetWrites, ChangeCommits, StatusCommits, CallFails, ForgotReads, ResetReads, accountVars
<1>8. CASE AuthNext
  BY <1>2, <1>3, <1>4, <1>5, <1>6, <1>7, <1>8 DEF AuthNext
<1> QED BY <1>8 DEF Next, SecondPasses, vars, accountVars

\* What may be rotated is valid when the rotation begins.
LEMMA RotationsBegin ==
  ASSUME TypeOK, [Next]_vars, NEW r \in Slot, NEW s \in SessionId,
         call'[r].op \in {"sign", "write"}, call'[r].session = s
  PROVE  \/ call[r].op \in {"sign", "write"} /\ call[r].session = s
         \/ session[s].state = "valid"
<1> DEFINE Other(q) == q.op \notin {"sign", "write"} \/ q.session # s
<1>0. s # Null
  BY AuthAssumption
<1>1. ASSUME NEW x \in Slot, NEW q, Other(q), call' = [call EXCEPT ![x] = q]
      PROVE  call'[r] = call[r]
  BY <1>1 DEF TypeOK, AuthTypeOK
<1>2. ASSUME NEW x \in Slot, SignTokens(x)
      PROVE  call'[r] = call[r] \/ (r = x /\ call[r].op = "sign" /\ call[r].session = call'[r].session)
  BY <1>2 DEF SignTokens, Continue, TypeOK, AuthTypeOK
<1>3. ASSUME NEW x \in Slot, NEW c \in Client, NEW y \in SessionId, RefreshReads(x, c, y)
      PROVE  call'[r] = call[r] \/ (r = x /\ y = s /\ session[s].state = "valid")
  BY <1>3 DEF RefreshReads, Begin, TypeOK, AuthTypeOK
<1>4. ASSUME NEW x \in Slot, NEW c \in Client, NEW u \in User, NEW p \in Password,
             RegisterReads(x, c, u, p) \/ LoginReads(x, c, u, p)
      PROVE  call'[r] = call[r]
  BY <1>0, <1>1, <1>4 DEF RegisterReads, LoginReads, Begin
<1>5. ASSUME NEW x \in Slot, NEW c \in Client,
             \/ LogoutArrives(x, c)
             \/ \E p \in Password : ChangeReads(x, c, p)
             \/ \E u \in User, to \in NewStatus : StatusReads(x, c, u, to)
      PROVE  call'[r] = call[r]
  BY <1>1, <1>5 DEF LogoutArrives, ChangeReads, StatusReads, Begin, BeginPlain
<1>6. ASSUME NEW x \in Slot, ClientCalls(x)
      PROVE  call'[r] = call[r] \/ (r = x /\ session[s].state = "valid")
  BY <1>3, <1>4, <1>5, <1>6 DEF ClientCalls
<1>7. ASSUME NEW x \in Slot, RegisterCommits(x) PROVE call'[r] = call[r]
  BY <1>0, <1>1, <1>7 DEF RegisterCommits, Continue
<1>8. ASSUME NEW x \in Slot, LogoutSwallowsError(x) \/ LogoutCommits(x) PROVE call'[r] = call[r]
  BY <1>1, <1>8 DEF LogoutSwallowsError, LogoutCommits, Continue, Cleared
<1>9. ASSUME NEW x \in Slot, AnswerArrives(x) \/ ResetSweeps(x) \/ CallFails(x)
      PROVE  call'[r] = call[r]
  BY <1>1, <1>9 DEF AnswerArrives, ResetSweeps, CallFails, Idle
<1>10. ASSUME NEW x \in Slot, ForgotCommits(x) \/ ChangeCommits(x) \/ StatusCommits(x)
       PROVE  call'[r] = call[r]
  BY <1>1, <1>10 DEF ForgotCommits, ChangeCommits, StatusCommits, Continue, Idle
<1>11. ASSUME NEW x \in Slot, RotateSession(x) \/ \E y \in SessionId : OpenSession(x, y)
       PROVE  call'[r] = call[r]
  BY <1>1, <1>11 DEF RotateSession, OpenSession, Continue, Answering
<1>12. ASSUME NEW x \in Slot, ResetWrites(x) PROVE call'[r] = call[r]
  BY <1>1, <1>12 DEF ResetWrites, Continue
<1>13. ASSUME NEW x \in Slot, NEW u \in User,
              ForgotReads(x, u) \/ \E p \in Password : ResetReads(x, u, p)
       PROVE  call'[r] = call[r]
  BY <1>1, <1>13 DEF ForgotReads, ResetReads, BeginPlain
<1>14. CASE AuthNext
  BY <1>2, <1>6, <1>7, <1>8, <1>9, <1>10, <1>11, <1>12, <1>13, <1>14 DEF AuthNext
<1>15. CASE UNCHANGED call
  BY <1>15
<1> QED BY <1>14, <1>15 DEF Next, vars, authVars

\* A dead token stays dead.
LEMMA DeadKept ==
  ASSUME TypeOK, RotatesOwn, [Next]_vars, NEW t \in Token, Dead(t)
  PROVE  Dead(t)'
<1>1. PICK k \in SessionId : session[k].token = t
  BY DEF Dead, Carrying
<1>2. RowsKept
  BY StepKeepsRows
<1>3. ASSUME NEW s \in SessionId, session[s].token = t PROVE session'[s].token = t
  <2> SUFFICES ASSUME session'[s].token # t PROVE FALSE
    OBVIOUS
  <2>1. PICK r \in Slot : call[r].op = "write" /\ (session[s].token = NoToken \/ call[r].session = s)
    BY <1>3, TokensMove
  <2> QED BY <1>3, <2>1, TokenKinds DEF Dead, Carrying
<1>4. ASSUME NEW s \in SessionId, session'[s].token = t PROVE session[s].token = t
  <2> SUFFICES ASSUME session[s].token # t PROVE FALSE
    OBVIOUS
  <2>1. PICK r \in Slot : Unused(call[r].token, s) /\ call[r].token = t
    BY <1>4, TokensMove
  <2> QED BY <1>1, <2>1 DEF Unused
<1>5. ASSUME NEW s \in SessionId, session'[s].token = t
      PROVE  /\ session'[s].state = "invalid"
             /\ \A r \in Slot : call'[r].op \in {"sign", "write"} => call'[r].session # s
  <2>1. session[s].token = t /\ session[s].state = "invalid"
        /\ \A r \in Slot : call[r].op \in {"sign", "write"} => call[r].session # s
    BY <1>4, <1>5 DEF Dead, Carrying
  <2>2. Present(s)
    BY <2>1 DEF Present
  <2> QED BY <1>2, <2>1, <2>2, RotationsBegin DEF RowsKept
<1> QED BY <1>1, <1>3, <1>5 DEF Dead, Carrying

\* An answer comes from a token that was written, or from a logout.
LEMMA AnswersBegin ==
  ASSUME TypeOK, [Next]_vars, NEW r \in Slot, call'[r].op = "answer", call'[r] # call[r]
  PROVE  \/ call[r].op = "write" /\ call'[r] = Answering(call[r])
         \/ LogoutCommits(r)
         \/ LogoutSwallowsError(r)
<1>0. ASSUME NEW x \in Slot, NEW q, call' = [call EXCEPT ![x] = q] PROVE x = r
  BY <1>0 DEF TypeOK, AuthTypeOK
<1>1. ASSUME NEW x \in Slot, NEW q, q.op # "answer", call' = [call EXCEPT ![x] = q] PROVE FALSE
  BY <1>1 DEF TypeOK, AuthTypeOK
<1>2. ASSUME NEW x \in Slot, ClientCalls(x) PROVE FALSE
  <2>1. ASSUME NEW c \in Client, NEW u \in User, NEW p \in Password,
               RegisterReads(x, c, u, p) \/ LoginReads(x, c, u, p)
        PROVE  FALSE
    BY <1>1, <2>1 DEF RegisterReads, LoginReads, Begin
  <2>2. ASSUME NEW c \in Client, LogoutArrives(x, c) \/ \E s \in SessionId : RefreshReads(x, c, s)
        PROVE  FALSE
    BY <1>1, <2>2 DEF LogoutArrives, RefreshReads, Begin
  <2>3. ASSUME NEW c \in Client, NEW p \in Password, ChangeReads(x, c, p) PROVE FALSE
    BY <1>1, <2>3 DEF ChangeReads, BeginPlain
  <2>4. ASSUME NEW c \in Client, NEW u \in User, NEW to \in NewStatus, StatusReads(x, c, u, to)
        PROVE  FALSE
    BY <1>1, <2>4 DEF StatusReads, BeginPlain
  <2> QED BY <1>2, <2>1, <2>2, <2>3, <2>4 DEF ClientCalls
<1>3. ASSUME NEW x \in Slot, RegisterCommits(x) PROVE FALSE
  BY <1>1, <1>3 DEF RegisterCommits, Continue
<1>4. ASSUME NEW x \in Slot, SignTokens(x) PROVE FALSE
  BY <1>1, <1>4 DEF SignTokens, Continue
<1>5. ASSUME NEW x \in Slot, AnswerArrives(x) \/ ResetSweeps(x) \/ CallFails(x) PROVE FALSE
  BY <1>1, <1>5 DEF AnswerArrives, ResetSweeps, CallFails, Idle
<1>6. ASSUME NEW x \in Slot, ForgotCommits(x) \/ ChangeCommits(x) \/ StatusCommits(x) PROVE FALSE
  BY <1>1, <1>6 DEF ForgotCommits, ChangeCommits, StatusCommits, Continue, Idle
<1>7. ASSUME NEW x \in Slot, ResetWrites(x) PROVE FALSE
  BY <1>1, <1>7 DEF ResetWrites, Continue
<1>8. ASSUME NEW x \in Slot, NEW u \in User,
             ForgotReads(x, u) \/ \E p \in Password : ResetReads(x, u, p)
      PROVE  FALSE
  BY <1>1, <1>8 DEF ForgotReads, ResetReads, BeginPlain
<1>9. ASSUME NEW x \in Slot, RotateSession(x) \/ \E y \in SessionId : OpenSession(x, y)
      PROVE  call[r].op = "write" /\ call'[r] = Answering(call[r])
  <2>1. call' = [call EXCEPT ![x] = Answering(call[x])] /\ call[x].op = "write"
    BY <1>9 DEF RotateSession, OpenSession, Continue
  <2> QED BY <1>0, <2>1 DEF TypeOK, AuthTypeOK
<1>10. ASSUME NEW x \in Slot, LogoutCommits(x) \/ LogoutSwallowsError(x) PROVE x = r
  BY <1>0, <1>10 DEF LogoutCommits, LogoutSwallowsError, Continue
<1>11. CASE AuthNext
  BY <1>2, <1>3, <1>4, <1>5, <1>6, <1>7, <1>8, <1>9, <1>10, <1>11 DEF AuthNext
<1> QED BY <1>11 DEF Next, vars, authVars

\* Who was disturbed stays so, and an answer alone logs a token out.
LEMMA HistoryGrows ==
  ASSUME [Next]_vars
  PROVE  /\ disturbed \subseteq disturbed'
         /\ loggedOut' = loggedOut \/ \E r \in Slot : AnswerArrives(r)
<1> DEFINE Goal == disturbed \subseteq disturbed' /\ loggedOut' = loggedOut
<1>1. ASSUME NEW r \in Slot, ClientCalls(r) PROVE Goal
  BY <1>1 DEF ClientCalls, RegisterReads, LoginReads, RefreshReads, LogoutArrives, ChangeReads,
              StatusReads, Begin, BeginPlain
<1>2. ASSUME NEW r \in Slot, \/ RegisterCommits(r) \/ SignTokens(r) \/ RotateSession(r)
             \/ LogoutCommits(r) \/ ForgotCommits(r) \/ ResetWrites(r) \/ ChangeCommits(r)
             \/ StatusCommits(r) \/ \E s \in SessionId : OpenSession(r, s)
      PROVE  Goal
  BY <1>2 DEF RegisterCommits, SignTokens, RotateSession, LogoutCommits, ForgotCommits, ResetWrites,
              ChangeCommits, StatusCommits, OpenSession, Continue
<1>3. ASSUME NEW r \in Slot, LogoutSwallowsError(r) \/ ResetSweeps(r) \/ CallFails(r) PROVE Goal
  BY <1>3 DEF LogoutSwallowsError, ResetSweeps, CallFails
<1>4. ASSUME NEW r \in Slot, NEW u \in User,
             ForgotReads(r, u) \/ \E p \in Password : ResetReads(r, u, p)
      PROVE  Goal
  BY <1>4 DEF ForgotReads, ResetReads, BeginPlain
<1>5. ASSUME NEW r \in Slot, AnswerArrives(r) PROVE disturbed' = disturbed
  BY <1>5 DEF AnswerArrives
<1>6. CASE AuthNext
  BY <1>1, <1>2, <1>3, <1>4, <1>5, <1>6 DEF AuthNext
<1> QED BY <1>6 DEF Next, vars, authVars

\* An answer keeps to the token it was asked for.
LEMMA AnswersOwnKept ==
  ASSUME TypeOK, AnswersOwn, [Next]_vars
  PROVE  AnswersOwn'
<1> SUFFICES ASSUME NEW r \in Slot, call'[r].op = "answer", call'[r].token # NoToken
             PROVE  call'[r].token = call'[r].was
  BY DEF AnswersOwn
<1>1. CASE call'[r] = call[r]
  BY <1>1 DEF AnswersOwn
<1>2. ASSUME NEW q, call'[r] = q, q = Answering(call[r]) \/ q = Cleared(call[r])
      PROVE  call'[r].token = call'[r].was
  BY <1>2 DEF Answering, Cleared
<1>3. ASSUME LogoutCommits(r) \/ LogoutSwallowsError(r) PROVE call'[r] = Cleared(call[r])
  BY <1>3 DEF LogoutCommits, LogoutSwallowsError, Continue, TypeOK, AuthTypeOK
<1> QED BY <1>1, <1>2, <1>3, AnswersBegin

\* What an undisturbed user's clients log out with dies with the statement of the logout, for
\* no other request of theirs is at the token.
LEMMA LogoutsKept ==
  ASSUME TypeOK, RotatesOwn, CallsAlone, HoldsCurrent, LogoutsKill, [Next]_vars
  PROVE  LogoutsKill'
<1> DEFINE Heard(r) ==
      call[r].op = "answer" /\ call[r].token = NoToken /\ call[r].was.sub \notin disturbed
        => Dead(call[r].was)
<1>a. \A x \in Slot : call[x] \in Request
  BY DEF TypeOK, AuthTypeOK, Request
<1>b. \A x \in Slot : call[x].op = "answer" => call[x].was \in Token
  BY <1>a, OpTellsRecord DEF Answer
<1>c. \A t \in loggedOut : Dead(t)'
  BY DeadKept DEF LogoutsKill, TypeOK, AuthTypeOK
<1>d. ASSUME NEW x \in Slot, call'[x] = call[x], disturbed \subseteq disturbed' PROVE Heard(x)'
  <2>1. CASE call[x].op = "answer" /\ call[x].token = NoToken /\ call[x].was.sub \notin disturbed
    <3>1. Dead(call[x].was)
      BY <2>1 DEF LogoutsKill
    <3>2. PICK t \in Token : t = call[x].was
      BY <1>b, <2>1
    <3>3. Dead(t)'
      BY <3>1, <3>2, DeadKept
    <3> QED BY <1>d, <3>2, <3>3 DEF Dead, Carrying
  <2>2. CASE ~(call[x].op = "answer" /\ call[x].token = NoToken /\ call[x].was.sub \notin disturbed)
    BY <1>d, <2>2
  <2> QED BY <2>1, <2>2
<1> HIDE DEF Heard
<1>1. ASSUME NEW r \in Slot, LogoutCommits(r) PROVE Heard(r)'
  <2>1. call[r] \in Leaving /\ call[r].op = "logout"
    BY <1>1, <1>a, OpTellsRecord DEF LogoutCommits
  <2>2. PICK t \in Token : t = call[r].token
    BY <2>1 DEF Leaving
  <2>3. call'[r] = Cleared(call[r]) /\ (\A x \in Slot \ {r} : call'[x] = call[x])
        /\ disturbed' = disturbed /\ loggedOut' = loggedOut /\ session' = Invalidated(Carrying(t))
    BY <1>1, <2>2 DEF LogoutCommits, Continue, TypeOK, AuthTypeOK
  <2>4. ASSUME t.sub \notin disturbed PROVE Dead(t)'
    <3>1. t.sub \in User \ disturbed /\ call[r].client \in Client
      BY <2>1, <2>4, TokenKinds DEF Leaving
    <3>2. Serves(call[r], call[r].client, t.sub) /\ Relies(call[r], t)
      BY <2>1, <2>2 DEF Serves, Relies
    <3>3. Holds(call[r].client, t.sub, t)
      BY <3>2 DEF Holds
    <3>4. /\ Carrying(t) # {}
          /\ \A d \in Client \ {call[r].client} : ~Holds(d, t.sub, t)
      BY <3>1, <3>3 DEF HoldsCurrent
    <3>5. ASSUME NEW s \in SessionId, session[s].token = t, NEW x \in Slot,
                 call[x].op \in {"sign", "write"}, call[x].session = s
          PROVE  FALSE
      <4>1. call[x] \in Signing \cup Writing /\ s # Null
        BY <1>a, <3>5, OpTellsRecord, AuthAssumption
      <4>2. Serves(call[x], call[x].client, t.sub) /\ Relies(call[x], t) /\ call[x].client \in Client
        BY <3>5, <4>1 DEF RotatesOwn, Serves, Relies, Signing, Writing
      <4>3. Holds(call[x].client, t.sub, t)
        BY <4>2 DEF Holds
      <4>4. call[x].client = call[r].client
        BY <3>4, <4>2, <4>3
      <4>5. x = r
        BY <3>1, <3>2, <4>2, <4>4 DEF CallsAlone
      <4> QED BY <2>1, <3>5, <4>5
    <3>6. \A s \in SessionId : /\ session'[s].token = session[s].token
                               /\ session[s].token = t => session'[s].state = "invalid"
      BY <2>3 DEF Invalidated, Carrying, TypeOK, AccountTypeOK, Session
    <3>7. \A x \in Slot : call'[x].op \in {"sign", "write"} => call'[x] = call[x]
      BY <2>3 DEF Cleared
    <3> QED BY <3>4, <3>5, <3>6, <3>7 DEF Dead, Carrying
  <2>5. call'[r].was = t
    BY <2>2, <2>3 DEF Cleared
  <2> QED BY <2>3, <2>4, <2>5 DEF Heard, Dead, Carrying
<1>2. ASSUME NEW r \in Slot, LogoutSwallowsError(r) PROVE Heard(r)'
  <2>1. call'[r] = Cleared(call[r]) /\ disturbed' = disturbed \cup {call[r].token.sub}
    BY <1>2 DEF LogoutSwallowsError, TypeOK, AuthTypeOK
  <2> QED BY <2>1 DEF Heard, Cleared
<1>3. ASSUME NEW r \in Slot, call[r].op = "write", call'[r] = Answering(call[r]) PROVE Heard(r)'
  <2>1. call[r].token # NoToken
    BY <1>a, <1>3, OpTellsRecord, TokenKinds DEF Writing
  <2> QED BY <1>3, <2>1 DEF Heard, Answering
<1>4. \A r \in Slot : Heard(r)'
  <2> SUFFICES ASSUME NEW r \in Slot, ~(Heard(r)') PROVE FALSE
    OBVIOUS
  <2>1. call'[r].op = "answer"
    BY DEF Heard
  <2>2. CASE call'[r] = call[r]
    BY <1>d, <2>2, HistoryGrows
  <2> QED BY <1>1, <1>2, <1>3, <2>1, <2>2, AnswersBegin
<1>5. ASSUME NEW t \in loggedOut' PROVE Dead(t)'
  <2>1. CASE t \in loggedOut
    BY <1>c, <2>1
  <2>2. CASE t \notin loggedOut
    <3>1. PICK r \in Slot : AnswerArrives(r)
      BY <1>5, <2>2, HistoryGrows
    <3>2. call[r].op = "answer" /\ t = call[r].was
          /\ call[r].token = NoToken /\ call[r].was.sub \notin disturbed
      BY <1>5, <2>2, <3>1 DEF AnswerArrives
    <3>3. Dead(t) /\ t \in Token
      BY <1>b, <3>2 DEF LogoutsKill
    <3> QED BY <3>3, DeadKept
  <2> QED BY <2>1, <2>2
<1> QED BY <1>4, <1>5 DEF LogoutsKill, Heard

\* A call with cookies that begins disturbs its user, or is the only one of its client.
LEMMA BeginStep ==
  ASSUME TypeOK, CallsAlone, HoldsCurrent,
         NEW r \in Slot, NEW c0 \in Client, NEW u0 \in User, NEW q \in Request,
         Begin(r, c0, u0, q), UNCHANGED session,
         \A c, u : Serves(q, c, u) => c = c0 /\ u = u0,
         \A t \in Token : Relies(q, t) => jar[c0] = t /\ t.sub = u0
  PROVE  CallsAlone' /\ HoldsCurrent'
<1>1. /\ call[r] = Idle /\ call' = [call EXCEPT ![r] = q] /\ jar' = jar
      /\ disturbed \subseteq disturbed' /\ (Busy(c0) => u0 \in disturbed')
  BY DEF Begin
<1>2. \A x \in Slot : \A u : Serves(call[x], c0, u) => Busy(c0)
  BY DEF Serves, Busy, ByClient
<1>3. \A c \in Client, u \in User \ disturbed' :
        Serves(q, c, u) => Serves(call[r], c, u) \/ \A x \in Slot : ~Serves(call[x], c, u)
  BY <1>1, <1>2
<1>4. \A c \in Client, u \in User \ disturbed', t \in Token : Serves(q, c, u) /\ Relies(q, t) => Holds(c, u, t)
  BY <1>1, <1>2 DEF Holds
<1>5. \A c \in Client, u \in User \ disturbed' : call[r].op = "answer" => ~Serves(call[r], c, u)
  BY <1>1 DEF Idle
<1> QED BY <1>1, <1>3, <1>4, <1>5, SlotStep

\* A request that carries no cookies, or stops carrying them, disturbs no client.
LEMMA PlainStep ==
  ASSUME TypeOK, CallsAlone, HoldsCurrent,
         NEW r \in Slot, NEW q \in Request, call' = [call EXCEPT ![r] = q], jar' = jar,
         disturbed \subseteq disturbed', call[r].op = "answer" => call[r].was.sub \in disturbed',
         \A s \in SessionId : session'[s].token = session[s].token,
         q.op \notin {"register", "sign", "write", "logout", "answer"}
  PROVE  CallsAlone' /\ HoldsCurrent'
<1>1. \A c, u : ~Serves(q, c, u)
  BY DEF Serves
<1>2. \A c \in Client, u \in User \ disturbed' : call[r].op = "answer" => ~Serves(call[r], c, u)
  BY DEF Serves
<1> QED BY <1>1, <1>2, SlotStep

\* A request that goes on for the same client and user keeps to what it relied on.
LEMMA GoesOnStep ==
  ASSUME TypeOK, CallsAlone, HoldsCurrent,
         NEW r \in Slot, NEW q \in Request, call' = [call EXCEPT ![r] = q], jar' = jar,
         disturbed \subseteq disturbed', call[r].op # "answer",
         \A s \in SessionId : session'[s].token = session[s].token,
         \A c, u : Serves(q, c, u) => Serves(call[r], c, u),
         \A t \in Token : Relies(q, t) => Relies(call[r], t)
  PROVE  CallsAlone' /\ HoldsCurrent'
<1>1. \A c \in Client, u \in User \ disturbed', t \in Token : Serves(q, c, u) /\ Relies(q, t) => Holds(c, u, t)
  BY DEF Holds
<1> QED BY <1>1, SlotStep

\* Every step keeps the calls of undisturbed users apart, and what their clients count on there.
LEMMA CookiesKept ==
  ASSUME TypeOK, RotatesOwn, CallsAlone, HoldsCurrent, AnswersOwn, [Next]_vars
  PROVE  CallsAlone' /\ HoldsCurrent'
<1> DEFINE Goal == CallsAlone' /\ HoldsCurrent'
<1>a. \A r \in Slot : call[r] \in Request
  BY DEF TypeOK, AuthTypeOK, Request
<1>b. Idle \in Request
  BY DEF Request
<1>c. ASSUME NEW S, session' = Invalidated(S) PROVE \A s \in SessionId : session'[s].token = session[s].token
  BY <1>c DEF Invalidated, TypeOK, AccountTypeOK, Session
<1>1. ASSUME NEW r \in Slot, ClientCalls(r) PROVE Goal
  <2>1. ASSUME NEW c \in Client, NEW u \in User, NEW p \in Password, RegisterReads(r, c, u, p) PROVE Goal
    <3> DEFINE q == [op |-> "register", client |-> c, user |-> u, password |-> p]
    <3>1. q \in Request /\ Begin(r, c, u, q) /\ UNCHANGED session
      BY <2>1 DEF RegisterReads, Request, Registration, accountVars
    <3>2. (\A d, v : Serves(q, d, v) => d = c /\ v = u) /\ \A t \in Token : ~Relies(q, t)
      BY DEF Serves, Relies
    <3> HIDE DEF q
    <3> QED BY <3>1, <3>2, BeginStep
  <2>2. ASSUME NEW c \in Client, NEW u \in User, NEW p \in Password, LoginReads(r, c, u, p) PROVE Goal
    <3> DEFINE q == [op |-> "sign", client |-> c, user |-> u, session |-> Null]
    <3>1. q \in Request /\ Begin(r, c, u, q) /\ UNCHANGED session
      BY <2>2 DEF LoginReads, Request, Signing, accountVars
    <3>2. (\A d, v : Serves(q, d, v) => d = c /\ v = u) /\ \A t \in Token : ~Relies(q, t)
      BY DEF Serves, Relies
    <3> HIDE DEF q
    <3> QED BY <3>1, <3>2, BeginStep
  <2>3. ASSUME NEW c \in Client, NEW s \in SessionId, RefreshReads(r, c, s) PROVE Goal
    <3> DEFINE q == [op |-> "sign", client |-> c, user |-> session[s].token.sub, session |-> s]
    <3>1. session[s].token = jar[c] /\ jar[c] \in Token /\ jar[c].sub \in User
      BY <2>3, TokenKinds DEF RefreshReads, TypeOK, AccountTypeOK, AuthTypeOK, Present
    <3>2. q \in Request /\ Begin(r, c, jar[c].sub, q) /\ UNCHANGED session
      BY <2>3, <3>1 DEF RefreshReads, Request, Signing, accountVars
    <3>3. (\A d, v : Serves(q, d, v) => d = c /\ v = jar[c].sub)
          /\ \A t \in Token : Relies(q, t) => jar[c] = t /\ t.sub = jar[c].sub
      BY <3>1 DEF Serves, Relies
    <3> HIDE DEF q
    <3> QED BY <3>1, <3>2, <3>3, BeginStep
  <2>4. ASSUME NEW c \in Client, LogoutArrives(r, c) PROVE Goal
    <3> DEFINE q == [op |-> "logout", client |-> c, token |-> jar[c]]
    <3>1. jar[c] \in Token /\ jar[c].sub \in User
      BY <2>4, TokenKinds DEF LogoutArrives, TypeOK, AuthTypeOK
    <3>2. q \in Request /\ Begin(r, c, jar[c].sub, q) /\ UNCHANGED session
      BY <2>4, <3>1 DEF LogoutArrives, Request, Leaving, accountVars
    <3>3. (\A d, v : Serves(q, d, v) => d = c /\ v = jar[c].sub)
          /\ \A t \in Token : Relies(q, t) => jar[c] = t /\ t.sub = jar[c].sub
      BY DEF Serves, Relies
    <3> HIDE DEF q
    <3> QED BY <3>1, <3>2, <3>3, BeginStep
  <2>5. ASSUME NEW q \in Request, BeginPlain(r, q), UNCHANGED session, q.op \in {"change", "status"} PROVE Goal
    <3>1. call[r].op # "answer" /\ call' = [call EXCEPT ![r] = q] /\ jar' = jar /\ disturbed' = disturbed
      BY <2>5 DEF BeginPlain, Idle
    <3>2. q.op \notin {"register", "sign", "write", "logout", "answer"}
      BY <2>5
    <3> QED BY <2>5, <3>1, <3>2, PlainStep
  <2>6. ASSUME NEW c \in Client, NEW p \in Password, ChangeReads(r, c, p) PROVE Goal
    <3> DEFINE q == [op |-> "change", user |-> jar[c].sub, password |-> p]
    <3>1. jar[c].sub \in User
      BY <2>6, TokenKinds DEF ChangeReads, Authenticated, TypeOK, AuthTypeOK
    <3>2. q \in Request /\ BeginPlain(r, q) /\ UNCHANGED session /\ q.op = "change"
      BY <2>6, <3>1 DEF ChangeReads, Request, Changing, accountVars
    <3> HIDE DEF q
    <3> QED BY <2>5, <3>2
  <2>7. ASSUME NEW c \in Client, NEW u \in User, NEW to \in NewStatus, StatusReads(r, c, u, to) PROVE Goal
    <3> DEFINE q == [op |-> "status", user |-> u, from |-> account[u].status, to |-> to]
    <3>1. account[u].status \in AccountStatus /\ to \in AccountStatus
      BY AuthAssumption DEF TypeOK, AccountTypeOK, Account
    <3>2. q \in Request /\ BeginPlain(r, q) /\ UNCHANGED session /\ q.op = "status"
      BY <2>7, <3>1 DEF StatusReads, Request, Ruling, accountVars
    <3> HIDE DEF q
    <3> QED BY <2>5, <3>2
  <2> QED BY <1>1, <2>1, <2>2, <2>3, <2>4, <2>6, <2>7 DEF ClientCalls
<1>2. ASSUME NEW r \in Slot, RegisterCommits(r) PROVE Goal
  <2> DEFINE q == [op |-> "sign", client |-> call[r].client, user |-> call[r].user, session |-> Null]
  <2>1. call[r] \in Registration /\ call[r].op = "register"
    BY <1>2, <1>a, OpTellsRecord DEF RegisterCommits
  <2>2. q \in Request /\ Continue(r, q) /\ UNCHANGED session
    BY <1>2, <2>1 DEF RegisterCommits, Request, Registration, Signing
  <2>3. (\A d, v : Serves(q, d, v) => Serves(call[r], d, v)) /\ \A t \in Token : ~Relies(q, t)
    BY <2>1 DEF Serves, Relies
  <2> HIDE DEF q
  <2> QED BY <2>1, <2>2, <2>3, GoesOnStep DEF Continue
<1>3. ASSUME NEW r \in Slot, SignTokens(r) PROVE Goal
  <2> DEFINE q == [op |-> "write", client |-> call[r].client, session |-> call[r].session,
                   token |-> Signed(call[r].user)]
  <2>1. call[r] \in Signing /\ call[r].op = "sign" /\ Signed(call[r].user) \in Token
    BY <1>3, <1>a, OpTellsRecord, TokenKinds DEF SignTokens, Signing, TypeOK, AccountTypeOK
  <2>2. q \in Request /\ Continue(r, q) /\ UNCHANGED session
    BY <1>3, <2>1 DEF SignTokens, Request, Signing, Writing, accountVars
  <2>3. (\A d, v : Serves(q, d, v) => Serves(call[r], d, v)) /\ \A t \in Token : Relies(q, t) => Relies(call[r], t)
    BY <2>1 DEF Serves, Relies, Signed
  <2> HIDE DEF q
  <2> QED BY <2>1, <2>2, <2>3, GoesOnStep DEF Continue
<1>4. ASSUME NEW r \in Slot, NEW s \in SessionId, OpenSession(r, s) PROVE Goal
  <2>1. /\ call[r].op = "write" /\ Unused(call[r].token, s) /\ session[s].token = NoToken
        /\ session'[s].token = call[r].token
        /\ \A x \in SessionId \ {s} : session'[x].token = session[x].token
    BY <1>4 DEF OpenSession, TypeOK, AccountTypeOK, Present
  <2> QED BY <1>4, <2>1, WriteStep DEF OpenSession, Continue
<1>5. ASSUME NEW r \in Slot, RotateSession(r) PROVE Goal
  <2>1. PICK s \in SessionId : s = call[r].session
    BY <1>5, <1>a, OpTellsRecord DEF RotateSession, Writing
  <2>2. /\ call[r].op = "write" /\ Unused(call[r].token, s)
        /\ session'[s].token = call[r].token
        /\ \A x \in SessionId \ {s} : session'[x].token = session[x].token
    BY <1>5, <2>1 DEF RotateSession, TypeOK, AccountTypeOK, Session
  <2> QED BY <1>5, <2>1, <2>2, WriteStep DEF RotateSession, Continue
<1>6. ASSUME NEW r \in Slot, LogoutCommits(r) \/ LogoutSwallowsError(r) PROVE Goal
  <2>1. call[r] \in Leaving /\ call[r].op = "logout"
    BY <1>6, <1>a, OpTellsRecord DEF LogoutCommits, LogoutSwallowsError
  <2>2. Cleared(call[r]) \in Request
    BY <2>1 DEF Request, Cleared, Leaving, Answer
  <2>3. call' = [call EXCEPT ![r] = Cleared(call[r])] /\ jar' = jar /\ disturbed \subseteq disturbed'
    BY <1>6 DEF LogoutCommits, LogoutSwallowsError, Continue
  <2>4. \A s \in SessionId : session'[s].token = session[s].token
    BY <1>6, <1>c DEF LogoutCommits, LogoutSwallowsError, accountVars
  <2>5. (\A d, v : Serves(Cleared(call[r]), d, v) => Serves(call[r], d, v))
        /\ \A t \in Token : ~Relies(Cleared(call[r]), t)
    BY <2>1, TokenKinds DEF Serves, Relies, Cleared
  <2> QED BY <2>1, <2>2, <2>3, <2>4, <2>5, GoesOnStep
<1>7. ASSUME NEW r \in Slot, ForgotCommits(r) \/ ChangeCommits(r) \/ StatusCommits(r) \/ ResetSweeps(r) PROVE Goal
  <2>1. call' = [call EXCEPT ![r] = Idle] /\ jar' = jar /\ disturbed' = disturbed /\ call[r].op # "answer"
    BY <1>7 DEF ForgotCommits, ChangeCommits, StatusCommits, ResetSweeps, Continue
  <2>2. \A s \in SessionId : session'[s].token = session[s].token
    BY <1>7, <1>c DEF ForgotCommits, ChangeCommits, StatusCommits, ResetSweeps
  <2> QED BY <1>b, <2>1, <2>2, PlainStep DEF Idle
<1>8. ASSUME NEW r \in Slot, ResetWrites(r) PROVE Goal
  <2> DEFINE q == [op |-> "sweep", user |-> call[r].user, found |-> SessionsOf(call[r].user)]
  <2>1. call[r] \in Resetting /\ call[r].op = "reset"
    BY <1>8, <1>a, OpTellsRecord DEF ResetWrites
  <2>2. q \in Request /\ Continue(r, q) /\ UNCHANGED session /\ q.op = "sweep"
    BY <1>8, <2>1 DEF ResetWrites, Request, Resetting, Sweeping, SessionsOf
  <2> HIDE DEF q
  <2> QED BY <2>1, <2>2, PlainStep DEF Continue
<1>9. ASSUME NEW r \in Slot, NEW u \in User,
             ForgotReads(r, u) \/ \E p \in Password : ResetReads(r, u, p)
      PROVE  Goal
  <2>1. ASSUME NEW q \in Request, BeginPlain(r, q), UNCHANGED session, q.op \in {"forgot", "reset"} PROVE Goal
    <3>1. call[r].op # "answer" /\ call' = [call EXCEPT ![r] = q] /\ jar' = jar /\ disturbed' = disturbed
      BY <2>1 DEF BeginPlain, Idle
    <3>2. q.op \notin {"register", "sign", "write", "logout", "answer"}
      BY <2>1
    <3> QED BY <2>1, <3>1, <3>2, PlainStep
  <2>2. CASE ForgotReads(r, u)
    <3> DEFINE q == [op |-> "forgot", user |-> u]
    <3>1. q \in Request /\ BeginPlain(r, q) /\ UNCHANGED session /\ q.op = "forgot"
      BY <2>2 DEF ForgotReads, Request, Forgetting, accountVars
    <3> HIDE DEF q
    <3> QED BY <2>1, <3>1
  <2>3. ASSUME NEW p \in Password, ResetReads(r, u, p) PROVE Goal
    <3> DEFINE q == [op |-> "reset", user |-> u, password |-> p]
    <3>1. q \in Request /\ BeginPlain(r, q) /\ UNCHANGED session /\ q.op = "reset"
      BY <2>3 DEF ResetReads, Request, Resetting, accountVars
    <3> HIDE DEF q
    <3> QED BY <2>1, <3>1
  <2> QED BY <1>9, <2>2, <2>3
<1>10. ASSUME NEW r \in Slot, CallFails(r) PROVE Goal
  <2>1. /\ call' = [call EXCEPT ![r] = Idle] /\ jar' = jar /\ UNCHANGED session
        /\ disturbed \subseteq disturbed' /\ (call[r].op = "answer" => call[r].was.sub \in disturbed')
    BY <1>10 DEF CallFails, accountVars
  <2> QED BY <1>b, <2>1, PlainStep DEF Idle
<1>11. ASSUME NEW r \in Slot, AnswerArrives(r) PROVE Goal
  BY <1>11, AnswerStep
<1>12. CASE AuthNext
  BY <1>1, <1>2, <1>3, <1>4, <1>5, <1>6, <1>7, <1>8, <1>9, <1>10, <1>11, <1>12 DEF AuthNext
<1>13. CASE UNCHANGED <<session, call, jar, disturbed>>
  BY <1>13 DEF Goal, CallsAlone, HoldsCurrent, Holds, Serves, Relies, Carrying
<1> QED BY <1>12, <1>13 DEF Next, SecondPasses, vars, authVars, accountVars

\* Nobody is signed in at first.
LEMMA InitCookies == Init => CookieInv
<1> SUFFICES ASSUME Init PROVE CookieInv
  OBVIOUS
<1>1. \A r \in Slot : call[r] = Idle
  BY DEF Init, AuthInit
<1>2. loggedOut = {} /\ \A c \in Client : jar[c] = NoToken
  BY DEF Init, AuthInit
<1>3. \A c, u, t : Serves(Idle, c, u) \/ Relies(Idle, t) => FALSE
  BY DEF Serves, Relies, Idle
<1>4. \A c \in Client, u \in User, t \in Token : ~Holds(c, u, t)
  BY <1>1, <1>2, <1>3, TokenKinds DEF Holds
<1> QED BY <1>1, <1>2, <1>3, <1>4 DEF CookieInv, CallsAlone, HoldsCurrent, AnswersOwn, LogoutsKill, Idle

\* Cookies and sessions agree throughout.
LEMMA CookiesAgree == Spec => [](TypeOK /\ RotatesOwn /\ CookieInv)
<1>1. Init => RotatesOwn
  BY DEF Init, AuthInit, RotatesOwn, Idle
<1>2. TypeOK /\ RotatesOwn /\ CookieInv /\ [Next]_vars => RotatesOwn' /\ CookieInv'
  BY RotatesOwnKept, CookiesKept, AnswersOwnKept, LogoutsKept DEF CookieInv
<1> QED BY TypeCorrect, InitCookies, <1>1, <1>2, PTL DEF Spec

\* A client whose user never overlapped the calls of one client nor lost an answer holds the
\* token its session has now, whatever the other clients of the user, resets and suspensions do
\* between the read and the write of a rotation.
THEOREM CookiesCurrent == Spec => []JarIsCurrent
<1>1. TypeOK /\ CookieInv => JarIsCurrent
  <2> SUFFICES ASSUME TypeOK, CookieInv, NEW c \in Client, jar[c] # NoToken,
                      jar[c].sub \notin disturbed, ~Busy(c)
               PROVE  Carrying(jar[c]) # {}
    BY DEF JarIsCurrent
  <2>1. jar[c] \in Token /\ jar[c].sub \in User \ disturbed
    BY TokenKinds DEF TypeOK, AuthTypeOK
  <2>2. Holds(c, jar[c].sub, jar[c])
    BY DEF Holds, Serves, Busy, ByClient
  <2> QED BY <2>1, <2>2 DEF CookieInv, HoldsCurrent
<1> QED BY CookiesAgree, <1>1, PTL

\* After an orderly logout the token is dead for good: every session that carries it is closed,
\* and no rotation that began before the logout can bring it back.
THEOREM LogoutsStick == Spec => []LogoutSticks
<1>1. CookieInv => LogoutSticks
  BY DEF CookieInv, LogoutsKill, Dead, LogoutSticks
<1> QED BY CookiesAgree, <1>1, PTL
=============================================================================
