----------------------------- MODULE SessionsProofs -----------------------------
(***************************************************************************)
(* Proofs about Sessions for every set of users, clients, rows, passwords  *)
(* and requests, and for every bound.                                      *)
(***************************************************************************)
EXTENDS Sessions, TLAPS

\* What a slot may hold.
Request ==
  {Idle} \cup Registration \cup Signing \cup Writing \cup Leaving \cup Answer
    \cup Forgetting \cup Resetting \cup Sweeping \cup Changing \cup Ruling

\* A rotation in flight is one of a row that exists, for the user the row belongs to.
RotatesOwn ==
  \A r \in Slot :
    call[r].op \in {"sign", "write"} /\ call[r].session # Null
      => /\ Present(call[r].session)
         /\ session[call[r].session].token.sub =
              IF call[r].op = "sign" THEN call[r].user ELSE call[r].token.sub

\* The operation of a request tells its record.
LEMMA OpTellsRecord ==
  ASSUME NEW q \in Request
  PROVE  /\ q.op = "register" => q \in Registration
         /\ q.op = "sign"     => q \in Signing
         /\ q.op = "write"    => q \in Writing
         /\ q.op = "logout"   => q \in Leaving
         /\ q.op = "answer"   => q \in Answer
         /\ q.op = "forgot"   => q \in Forgetting
         /\ q.op = "reset"    => q \in Resetting
         /\ q.op = "sweep"    => q \in Sweeping
         /\ q.op = "change"   => q \in Changing
         /\ q.op = "status"   => q \in Ruling
BY DEF Request, Idle, Registration, Signing, Writing, Leaving, Answer, Forgetting, Resetting,
       Sweeping, Changing, Ruling


\* The initial state is typed.
LEMMA InitTyped == Init => TypeOK
BY AccountAssumption, AuthAssumption
   DEF Init, AccountInit, AuthInit, TypeOK, AccountTypeOK, AuthTypeOK, Account, NoAccount,
       NoReset, AccountStatus, Session, NoSession, Present, NoToken, Token, Idle

\* A call that begins, a call that goes on and one that ends keep the types of AuthService.
LEMMA BeginTyped ==
  ASSUME AuthTypeOK, NEW r \in Slot, NEW c, NEW u \in User, NEW q \in Request, Begin(r, c, u, q)
  PROVE  AuthTypeOK'
BY AuthAssumption DEF AuthTypeOK, Begin, Request

LEMMA BeginPlainTyped ==
  ASSUME AuthTypeOK, NEW r \in Slot, NEW q \in Request, BeginPlain(r, q)
  PROVE  AuthTypeOK'
BY AuthAssumption DEF AuthTypeOK, BeginPlain, Request

LEMMA ContinueTyped ==
  ASSUME AuthTypeOK, NEW r \in Slot, NEW q \in Request, Continue(r, q)
  PROVE  AuthTypeOK'
BY DEF AuthTypeOK, Continue, Request

\* A token that is not NoToken belongs to a user.
LEMMA TokenKinds ==
  /\ NoToken \notin Token
  /\ \A t \in Token : t.sub \in User
  /\ now \in 0..MaxNow => \A u \in User : Signed(u) \in Token
BY AccountAssumption DEF NoToken, Token, Signed

\* Closing sessions keeps the Session table typed.
LEMMA InvalidatedTyped ==
  ASSUME AccountTypeOK, NEW S, session' = Invalidated({s \in S : s \in SessionId /\ Present(s)})
  PROVE  /\ session' \in [SessionId -> Session]
         /\ \A s \in SessionId : Present(s)' <=> session'[s].token # NoToken
BY DEF AccountTypeOK, Invalidated, Session, Present

\* A call only begins for what it names: every action that receives a request keeps the types.
LEMMA ReceivingTyped ==
  ASSUME TypeOK, NEW r \in Slot, ClientCalls(r)
  PROVE  TypeOK'
<1> USE DEF TypeOK
<1>0. ASSUME UNCHANGED accountVars PROVE AccountTypeOK'
  BY <1>0 DEF AccountTypeOK, accountVars, Present
<1>1. ASSUME NEW c \in Client, NEW u \in User, NEW p \in Password, RegisterReads(r, c, u, p)
      PROVE  TypeOK'
  <2>1. [op |-> "register", client |-> c, user |-> u, password |-> p] \in Request
    BY DEF Request, Registration
  <2> QED BY <1>0, <1>1, <2>1, BeginTyped DEF RegisterReads
<1>2. ASSUME NEW c \in Client, NEW u \in User, NEW p \in Password, LoginReads(r, c, u, p)
      PROVE  TypeOK'
  <2>1. [op |-> "sign", client |-> c, user |-> u, session |-> Null] \in Request
    BY DEF Request, Signing
  <2> QED BY <1>0, <1>2, <2>1, BeginTyped DEF LoginReads
<1>3. ASSUME NEW c \in Client, NEW s \in SessionId, RefreshReads(r, c, s)
      PROVE  TypeOK'
  <2>1. jar[c] \in Token /\ jar[c].sub \in User
    BY <1>3, TokenKinds DEF RefreshReads, AccountTypeOK, AuthTypeOK, Present
  <2>2. [op |-> "sign", client |-> c, user |-> session[s].token.sub, session |-> s] \in Request
    BY <1>3, <2>1 DEF RefreshReads, Request, Signing
  <2> QED BY <1>0, <1>3, <2>1, <2>2, BeginTyped DEF RefreshReads
<1>4. ASSUME NEW c \in Client, LogoutArrives(r, c)
      PROVE  TypeOK'
  <2>1. jar[c] \in Token /\ jar[c].sub \in User
    BY <1>4, TokenKinds DEF LogoutArrives, AuthTypeOK
  <2>2. [op |-> "logout", client |-> c, token |-> jar[c]] \in Request
    BY <2>1 DEF Request, Leaving
  <2> QED BY <1>0, <1>4, <2>1, <2>2, BeginTyped DEF LogoutArrives
<1>5. ASSUME NEW c \in Client, NEW p \in Password, ChangeReads(r, c, p)
      PROVE  TypeOK'
  <2>1. jar[c].sub \in User
    BY <1>5, TokenKinds DEF ChangeReads, Authenticated, AuthTypeOK
  <2>2. [op |-> "change", user |-> jar[c].sub, password |-> p] \in Request
    BY <2>1 DEF Request, Changing
  <2> QED BY <1>0, <1>5, <2>2, BeginPlainTyped DEF ChangeReads
<1>6. ASSUME NEW c \in Client, NEW u \in User, NEW to \in NewStatus, StatusReads(r, c, u, to)
      PROVE  TypeOK'
  <2>1. account[u].status \in AccountStatus /\ to \in AccountStatus
    BY AuthAssumption DEF AccountTypeOK, Account
  <2>2. [op |-> "status", user |-> u, from |-> account[u].status, to |-> to] \in Request
    BY <2>1 DEF Request, Ruling
  <2> QED BY <1>0, <1>6, <2>2, BeginPlainTyped DEF StatusReads
<1> QED BY <1>1, <1>2, <1>3, <1>4, <1>5, <1>6 DEF ClientCalls

\* Every other step of a request keeps the types.
LEMMA StepTyped ==
  ASSUME TypeOK, RotatesOwn, AuthNext
  PROVE  TypeOK'
<1> USE DEF TypeOK
<1>0. ASSUME UNCHANGED accountVars PROVE AccountTypeOK'
  BY <1>0 DEF AccountTypeOK, accountVars, Present
<1>a. \A r \in Slot : call[r] \in Request
  BY DEF AuthTypeOK, Request
<1>b. Idle \in Request
  BY DEF Request
<1>1. ASSUME NEW r \in Slot, RegisterCommits(r) PROVE TypeOK'
  <2>1. call[r] \in Registration
    BY <1>1, <1>a, OpTellsRecord DEF RegisterCommits
  <2>2. [op |-> "sign", client |-> call[r].client, user |-> call[r].user, session |-> Null] \in Request
    BY <2>1 DEF Request, Registration, Signing
  <2>3. [NoAccount EXCEPT !.password = call[r].password] \in Account
    BY <2>1 DEF NoAccount, Account, AccountStatus, Registration
  <2>4. AccountTypeOK'
    BY <1>1, <2>3 DEF RegisterCommits, AccountTypeOK, Present
  <2> QED BY <1>1, <2>2, <2>4, ContinueTyped DEF RegisterCommits
<1>2. ASSUME NEW r \in Slot, SignTokens(r) PROVE TypeOK'
  <2>1. call[r] \in Signing
    BY <1>2, <1>a, OpTellsRecord DEF SignTokens
  <2>2. Signed(call[r].user) \in Token
    BY <2>1, TokenKinds DEF AccountTypeOK, Signing
  <2>3. [op |-> "write", client |-> call[r].client, session |-> call[r].session,
         token |-> Signed(call[r].user)] \in Request
    BY <2>1, <2>2 DEF Request, Signing, Writing
  <2> QED BY <1>0, <1>2, <2>3, ContinueTyped DEF SignTokens
<1>3. ASSUME NEW r \in Slot, call[r].op = "write"
      PROVE  /\ call[r] \in Writing
             /\ call[r].token \in Token \ {NoToken}
             /\ Answering(call[r]) \in Request
  <2>1. call[r] \in Writing
    BY <1>3, <1>a, OpTellsRecord
  <2> QED BY <2>1, TokenKinds DEF Request, Answering, Writing, Answer
<1>4. ASSUME NEW r \in Slot, NEW s \in SessionId, OpenSession(r, s) PROVE TypeOK'
  <2>1. AccountTypeOK'
    BY <1>3, <1>4 DEF OpenSession, AccountTypeOK, Present, Session
  <2> QED BY <1>3, <1>4, <2>1, ContinueTyped DEF OpenSession
<1>5. ASSUME NEW r \in Slot, RotateSession(r) PROVE TypeOK'
  <2>1. call[r].session \in SessionId
    BY <1>3, <1>5 DEF RotateSession, Writing
  <2>2. AccountTypeOK'
    <3>1. session' = [session EXCEPT ![call[r].session].token = call[r].token]
      BY <1>5 DEF RotateSession
    <3>2. session' \in [SessionId -> Session]
      BY <1>3, <1>5, <2>1, <3>1 DEF RotateSession, AccountTypeOK, Session
    <3>3. Present(call[r].session)
      BY <2>1, <1>5, AuthAssumption DEF RotateSession, RotatesOwn
    <3>4. \A s \in SessionId : Present(s)' <=> session'[s].token # NoToken
      BY <1>3, <1>5, <2>1, <3>1, <3>3 DEF RotateSession, AccountTypeOK, Present, Session
    <3> QED BY <1>5, <3>2, <3>4 DEF RotateSession, AccountTypeOK
  <2> QED BY <1>3, <1>5, <2>2, ContinueTyped DEF RotateSession
<1>6. ASSUME NEW S \in SUBSET SessionId, session' = Invalidated(S), \A s \in S : Present(s),
             UNCHANGED <<account, audit, resets, now>>
      PROVE  AccountTypeOK'
  BY <1>6 DEF AccountTypeOK, Invalidated, Present, Session
<1>7. ASSUME NEW r \in Slot, call[r].op = "logout"
      PROVE  call[r] \in Leaving /\ call[r].token \in Token /\ Cleared(call[r]) \in Request
  <2>1. call[r] \in Leaving
    BY <1>7, <1>a, OpTellsRecord
  <2> QED BY <2>1 DEF Request, Cleared, Leaving, Answer
<1>8. ASSUME NEW r \in Slot, LogoutCommits(r) PROVE TypeOK'
  <2>1. \A s \in Carrying(call[r].token) : Present(s)
    BY <1>7, <1>8, TokenKinds DEF LogoutCommits, Carrying, AccountTypeOK
  <2>2. AccountTypeOK'
    BY <1>6, <1>8, <2>1 DEF LogoutCommits, Carrying
  <2> QED BY <1>7, <1>8, <2>2, ContinueTyped DEF LogoutCommits
<1>9. ASSUME NEW r \in Slot, LogoutSwallowsError(r) PROVE TypeOK'
  <2>1. call[r].token.sub \in User
    BY <1>7, <1>9, TokenKinds DEF LogoutSwallowsError
  <2> QED BY <1>0, <1>7, <1>9, <2>1 DEF LogoutSwallowsError, AuthTypeOK, Request
<1>10. ASSUME NEW r \in Slot, AnswerArrives(r) PROVE TypeOK'
  <2>1. call[r] \in Answer
    BY <1>10, <1>a, OpTellsRecord DEF AnswerArrives
  <2> QED BY <1>0, <1>10, <2>1 DEF AnswerArrives, AuthTypeOK, Answer
<1>11. ASSUME NEW r \in Slot, NEW u \in User, ForgotReads(r, u) PROVE TypeOK'
  <2>1. [op |-> "forgot", user |-> u] \in Request
    BY DEF Request, Forgetting
  <2> QED BY <1>0, <1>11, <2>1, BeginPlainTyped DEF ForgotReads
<1>12. ASSUME NEW r \in Slot, ForgotCommits(r) PROVE TypeOK'
  <2>1. call[r] \in Forgetting
    BY <1>12, <1>a, OpTellsRecord DEF ForgotCommits
  <2>2. [serial |-> resets + 1, expires |-> now + ResetLifetime] \in ResetToken
    BY <1>12, AccountAssumption DEF ForgotCommits, ResetToken, AccountTypeOK
  <2>3. account' \in [User -> Account]
    BY <1>12, <2>1, <2>2 DEF ForgotCommits, AccountTypeOK, Account, Forgetting
  <2>4. resets' \in 0..MaxResets
    BY <1>12, AccountAssumption DEF ForgotCommits, AccountTypeOK
  <2>5. AccountTypeOK'
    BY <1>12, <2>3, <2>4 DEF ForgotCommits, AccountTypeOK, Present
  <2> QED BY <1>b, <1>12, <2>5, ContinueTyped DEF ForgotCommits
<1>13. ASSUME NEW r \in Slot, NEW u \in User, NEW p \in Password, ResetReads(r, u, p) PROVE TypeOK'
  <2>1. [op |-> "reset", user |-> u, password |-> p] \in Request
    BY DEF Request, Resetting
  <2> QED BY <1>0, <1>13, <2>1, BeginPlainTyped DEF ResetReads
<1>14. ASSUME NEW r \in Slot, ResetWrites(r) PROVE TypeOK'
  <2>1. call[r] \in Resetting
    BY <1>14, <1>a, OpTellsRecord DEF ResetWrites
  <2>2. [op |-> "sweep", user |-> call[r].user, found |-> SessionsOf(call[r].user)] \in Request
    BY <2>1 DEF Request, Resetting, Sweeping, SessionsOf
  <2>3. account' \in [User -> Account]
    <3>1. [account[call[r].user] EXCEPT !.password = call[r].password, !.reset = NoReset] \in Account
      <4>1. /\ account[call[r].user] \in Account /\ call[r].password \in Password
            /\ NoReset \in ResetToken \cup {NoReset}
        BY <2>1 DEF TypeOK, AccountTypeOK, Resetting
      <4>2. \A a \in Account, p \in Password :
              [a EXCEPT !.password = p, !.reset = NoReset] \in Account
        BY DEF Account
      <4> QED BY <4>1, <4>2
    <3>2. account' = [account EXCEPT ![call[r].user] =
                        [account[call[r].user] EXCEPT !.password = call[r].password, !.reset = NoReset]]
      BY <1>14, <2>1, Zenon DEF ResetWrites, AccountTypeOK, Account, Resetting
    <3> QED BY <3>1, <3>2 DEF AccountTypeOK
  <2>4. AccountTypeOK'
    BY <1>14, <2>3 DEF ResetWrites, AccountTypeOK, Present
  <2> QED BY <1>14, <2>2, <2>4, ContinueTyped DEF ResetWrites
<1>15. ASSUME NEW r \in Slot, ResetSweeps(r) PROVE TypeOK'
  <2>1. call[r] \in Sweeping
    BY <1>15, <1>a, OpTellsRecord DEF ResetSweeps
  <2>2. AccountTypeOK'
    BY <1>6, <1>15 DEF ResetSweeps, SessionsOf
  <2> QED BY <1>15, <2>1, <2>2 DEF ResetSweeps, AuthTypeOK, Sweeping
<1>16. ASSUME NEW r \in Slot, ChangeCommits(r) PROVE TypeOK'
  <2>1. call[r] \in Changing
    BY <1>16, <1>a, OpTellsRecord DEF ChangeCommits
  <2>2. AccountTypeOK'
    BY <1>16, <2>1 DEF ChangeCommits, AccountTypeOK, Account, Changing, Present
  <2> QED BY <1>b, <1>16, <2>2, ContinueTyped DEF ChangeCommits
<1>17. ASSUME NEW r \in Slot, StatusCommits(r) PROVE TypeOK'
  <2>1. call[r] \in Ruling
    BY <1>17, <1>a, OpTellsRecord DEF StatusCommits
  <2>2. [from |-> call[r].from, to |-> call[r].to] \in StatusChange
    BY <2>1 DEF Ruling, StatusChange
  <2>3. account' \in [User -> Account]
    BY <1>17, <2>1 DEF StatusCommits, AccountTypeOK, Account, Ruling
  <2>4. audit' \in [User -> Seq(StatusChange)]
    BY <1>17, <2>1, <2>2 DEF StatusCommits, AccountTypeOK, Ruling
  <2> QED BY <1>b, <1>17, <2>3, <2>4, ContinueTyped DEF StatusCommits, AccountTypeOK, Present
<1>18. ASSUME NEW r \in Slot, CallFails(r) PROVE TypeOK'
  <2>1. call[r].op = "answer" => call[r].was.sub \in User
    BY <1>a, OpTellsRecord, TokenKinds DEF Answer
  <2> QED BY <1>0, <1>18, <2>1 DEF CallFails, AuthTypeOK
<1> QED BY ReceivingTyped, <1>1, <1>2, <1>4, <1>5, <1>8, <1>9, <1>10, <1>11, <1>12, <1>13, <1>14,
           <1>15, <1>16, <1>17, <1>18 DEF AuthNext

-----------------------------------------------------------------------------
(* Rows of the Session table, through one step.                            *)

\* What a step does to the rows: they are opened, given a new token of their user or
\* closed, and that is all.
RowsKept ==
  \A s \in SessionId :
    Present(s) => /\ Present(s)' /\ session'[s].token.sub = session[s].token.sub
                  /\ session[s].state = "invalid" => session'[s].state = "invalid"

LEMMA StepKeepsRows ==
  ASSUME TypeOK, RotatesOwn, [Next]_vars
  PROVE  RowsKept
<1> USE DEF RowsKept
<1>0. ASSUME UNCHANGED session PROVE RowsKept
  BY <1>0 DEF Present
<1>1. ASSUME NEW S \in SUBSET SessionId, session' = Invalidated(S) PROVE RowsKept
  BY <1>1 DEF Invalidated, Present, TypeOK, AccountTypeOK, Session
<1>2. ASSUME NEW r \in Slot, NEW s \in SessionId, OpenSession(r, s) PROVE RowsKept
  BY <1>2 DEF OpenSession, Present, TypeOK, AccountTypeOK, Session
<1>3. ASSUME NEW r \in Slot, RotateSession(r) PROVE RowsKept
  <2>1. session' = [session EXCEPT ![call[r].session].token = call[r].token]
    BY <1>3 DEF RotateSession
  <2>2. session[call[r].session].token.sub = call[r].token.sub
    BY <1>3 DEF RotateSession, RotatesOwn
  <2> QED BY <2>1, <2>2 DEF Present, TypeOK, AccountTypeOK, Session
<1>4. ASSUME NEW r \in Slot, LogoutCommits(r) PROVE RowsKept
  BY <1>1, <1>4 DEF LogoutCommits, Carrying
<1>5. ASSUME NEW r \in Slot, ResetSweeps(r) PROVE RowsKept
  BY <1>1, <1>5 DEF ResetSweeps, SessionsOf
<1>6. ASSUME NEW r \in Slot, ClientCalls(r) PROVE UNCHANGED session
  BY <1>6 DEF ClientCalls, RegisterReads, LoginReads, RefreshReads, LogoutArrives, ChangeReads,
              StatusReads, accountVars
<1>7. ASSUME NEW r \in Slot, \/ RegisterCommits(r) \/ SignTokens(r) \/ LogoutSwallowsError(r)
             \/ AnswerArrives(r) \/ ForgotCommits(r) \/ ResetWrites(r) \/ ChangeCommits(r)
             \/ StatusCommits(r) \/ CallFails(r)
             \/ \E u \in User : ForgotReads(r, u) \/ \E p \in Password : ResetReads(r, u, p)
      PROVE  UNCHANGED session
  BY <1>7 DEF RegisterCommits, SignTokens, LogoutSwallowsError, AnswerArrives, ForgotCommits,
              ResetWrites, ChangeCommits, StatusCommits, CallFails, ForgotReads, ResetReads, accountVars
<1>8. CASE AuthNext
  BY <1>0, <1>2, <1>3, <1>4, <1>5, <1>6, <1>7, <1>8 DEF AuthNext
<1>9. CASE UNCHANGED session
  BY <1>0, <1>9
<1> QED BY <1>8, <1>9 DEF Next, SecondPasses, vars, accountVars

\* A rotation in flight stays one of an existing row of its user.
LEMMA RotatesOwnKept ==
  ASSUME TypeOK, RotatesOwn, [Next]_vars
  PROVE  RotatesOwn'
<1>0. RowsKept
  BY StepKeepsRows
<1>a. \A r \in Slot : call[r] \in Request
  BY DEF TypeOK, AuthTypeOK, Request
<1> DEFINE Own(r) == call[r].op \in {"sign", "write"} /\ call[r].session # Null
                       => /\ Present(call[r].session)
                          /\ session[call[r].session].token.sub =
                               IF call[r].op = "sign" THEN call[r].user ELSE call[r].token.sub
<1>b. \A r \in Slot : Own(r)
  BY DEF RotatesOwn
<1>c. ASSUME NEW r \in Slot, call'[r] = call[r] PROVE Own(r)'
  <2>1. call[r].op \in {"sign", "write"} /\ call[r].session # Null => call[r].session \in SessionId
    BY <1>a, OpTellsRecord DEF Signing, Writing
  <2> QED BY <1>0, <1>b, <1>c, <2>1 DEF RowsKept, Present
<1>d. ASSUME NEW r \in Slot, call'[r].op \notin {"sign", "write"} PROVE Own(r)'
  BY <1>d
<1>e. ASSUME NEW r \in Slot, NEW q, call' = [call EXCEPT ![r] = q], Own(r)' PROVE \A x \in Slot : Own(x)'
  BY <1>c, <1>e DEF TypeOK, AuthTypeOK
<1>1. ASSUME NEW r \in Slot, NEW c \in Client, NEW s \in SessionId, RefreshReads(r, c, s)
      PROVE  RotatesOwn'
  <2>1. call' = [call EXCEPT ![r] = [op |-> "sign", client |-> c, user |-> session[s].token.sub,
                                     session |-> s]]
    BY <1>1 DEF RefreshReads, Begin
  <2>2. Present(s) /\ UNCHANGED session
    BY <1>1 DEF RefreshReads, Present, accountVars
  <2>3. Own(r)'
    BY <2>1, <2>2 DEF Present, TypeOK, AuthTypeOK
  <2> QED BY <1>e, <2>1, <2>3 DEF RotatesOwn
<1>2. ASSUME NEW r \in Slot, SignTokens(r) PROVE RotatesOwn'
  <2>1. call' = [call EXCEPT ![r] = [op |-> "write", client |-> call[r].client,
                                     session |-> call[r].session, token |-> Signed(call[r].user)]]
    BY <1>2 DEF SignTokens, Continue
  <2>2. UNCHANGED session
    BY <1>2 DEF SignTokens, accountVars
  <2>3. Own(r)'
    BY <1>2, <1>b, <2>1, <2>2 DEF Present, TypeOK, AuthTypeOK, SignTokens, Signed
  <2> QED BY <1>e, <2>1, <2>3 DEF RotatesOwn
<1>3. ASSUME NEW r \in Slot, NEW q, call' = [call EXCEPT ![r] = q],
             q.op \notin {"sign", "write"} \/ (q.op = "sign" /\ q.session = Null)
      PROVE  RotatesOwn'
  <2>1. Own(r)'
    BY <1>3 DEF TypeOK, AuthTypeOK
  <2> QED BY <1>3, <1>e, <2>1 DEF RotatesOwn
<1> HIDE DEF Own
<1>4. ASSUME NEW r \in Slot, ClientCalls(r) PROVE RotatesOwn'
  <2>1. ASSUME NEW c \in Client, NEW u \in User, NEW p \in Password,
               RegisterReads(r, c, u, p) \/ LoginReads(r, c, u, p)
        PROVE  RotatesOwn'
    BY <1>3, <2>1 DEF RegisterReads, LoginReads, Begin
  <2>2. ASSUME NEW c \in Client, LogoutArrives(r, c) PROVE RotatesOwn'
    BY <1>3, <2>2 DEF LogoutArrives, Begin
  <2>3. ASSUME NEW c \in Client, NEW p \in Password, ChangeReads(r, c, p) PROVE RotatesOwn'
    BY <1>3, <2>3 DEF ChangeReads, BeginPlain
  <2>4. ASSUME NEW c \in Client, NEW u \in User, NEW to \in NewStatus, StatusReads(r, c, u, to)
        PROVE  RotatesOwn'
    BY <1>3, <2>4 DEF StatusReads, BeginPlain
  <2> QED BY <1>1, <1>4, <2>1, <2>2, <2>3, <2>4 DEF ClientCalls
<1>5. ASSUME NEW r \in Slot, \/ RegisterCommits(r) \/ LogoutSwallowsError(r) \/ LogoutCommits(r)
             \/ AnswerArrives(r) \/ ForgotCommits(r) \/ ResetWrites(r) \/ ChangeCommits(r)
             \/ ResetSweeps(r) \/ StatusCommits(r) \/ CallFails(r) \/ RotateSession(r)
             \/ (\E s \in SessionId : OpenSession(r, s))
             \/ (\E u \in User : ForgotReads(r, u) \/ \E p \in Password : ResetReads(r, u, p))
      PROVE  RotatesOwn'
  <2>1. SUFFICES \E q : /\ call' = [call EXCEPT ![r] = q]
                        /\ q.op \notin {"sign", "write"} \/ (q.op = "sign" /\ q.session = Null)
    BY <1>3
  <2>2. CASE AnswerArrives(r) \/ ResetSweeps(r) \/ CallFails(r)
    BY <2>2 DEF AnswerArrives, ResetSweeps, CallFails, Idle
  <2>3. CASE ForgotCommits(r) \/ ChangeCommits(r) \/ StatusCommits(r)
    BY <2>3 DEF ForgotCommits, ChangeCommits, StatusCommits, Continue, Idle
  <2>4. CASE LogoutSwallowsError(r) \/ LogoutCommits(r)
    BY <2>4 DEF LogoutSwallowsError, LogoutCommits, Continue, Cleared
  <2>5. CASE RotateSession(r) \/ \E s \in SessionId : OpenSession(r, s)
    BY <2>5 DEF RotateSession, OpenSession, Continue, Answering
  <2>6. CASE RegisterCommits(r)
    <3> DEFINE q == [op |-> "sign", client |-> call[r].client, user |-> call[r].user,
                     session |-> Null]
    <3>1. call' = [call EXCEPT ![r] = q]
      BY <2>6 DEF RegisterCommits, Continue
    <3>2. q.op = "sign" /\ q.session = Null
      OBVIOUS
    <3> QED BY <3>1, <3>2
  <2>7. CASE ResetWrites(r)
    <3> DEFINE q == [op |-> "sweep", user |-> call[r].user, found |-> SessionsOf(call[r].user)]
    <3>1. call' = [call EXCEPT ![r] = q]
      BY <2>7 DEF ResetWrites, Continue
    <3>2. q.op \notin {"sign", "write"}
      OBVIOUS
    <3> QED BY <3>1, <3>2
  <2>8. ASSUME NEW u \in User, ForgotReads(r, u) \/ \E p \in Password : ResetReads(r, u, p)
        PROVE  \E q : call' = [call EXCEPT ![r] = q] /\ q.op \notin {"sign", "write"}
    <3>1. CASE ForgotReads(r, u)
      <4> DEFINE q == [op |-> "forgot", user |-> u]
      <4>1. call' = [call EXCEPT ![r] = q] /\ q.op = "forgot"
        BY <3>1 DEF ForgotReads, BeginPlain
      <4> QED BY <4>1
    <3>2. ASSUME NEW p \in Password, ResetReads(r, u, p)
          PROVE  \E q : call' = [call EXCEPT ![r] = q] /\ q.op \notin {"sign", "write"}
      <4> DEFINE q == [op |-> "reset", user |-> u, password |-> p]
      <4>1. call' = [call EXCEPT ![r] = q] /\ q.op = "reset"
        BY <3>2 DEF ResetReads, BeginPlain
      <4> QED BY <4>1
    <3> QED BY <2>8, <3>1, <3>2
  <2> QED BY <1>5, <2>2, <2>3, <2>4, <2>5, <2>6, <2>7, <2>8
<1>6. CASE AuthNext
  BY <1>2, <1>4, <1>5, <1>6 DEF AuthNext
<1>7. CASE UNCHANGED call
  BY <1>c, <1>7 DEF RotatesOwn, Own
<1> QED BY <1>6, <1>7 DEF Next, vars, authVars

-----------------------------------------------------------------------------
(* Types, resets                                                           *)

\* Every reachable state of Sessions is typed: each row, cookie, counter and request in
\* flight keeps its shape through all interleavings, failures and lost answers. The proof
\* needs to know that a rotation never writes to a row that does not exist.
THEOREM TypeCorrect == Spec => []TypeOK
<1>1. Init => RotatesOwn
  BY DEF Init, AuthInit, RotatesOwn, Idle
<1>2. TypeOK /\ RotatesOwn /\ [Next]_vars => TypeOK' /\ RotatesOwn'
  <2> SUFFICES ASSUME TypeOK, RotatesOwn, [Next]_vars PROVE TypeOK'
    BY RotatesOwnKept
  <2>1. CASE SecondPasses /\ UNCHANGED authVars
    BY <2>1, AccountAssumption
       DEF SecondPasses, TypeOK, AccountTypeOK, AuthTypeOK, authVars, Present
  <2>2. CASE UNCHANGED vars
    BY <2>2 DEF vars, accountVars, authVars, TypeOK, AccountTypeOK, AuthTypeOK, Present
  <2> QED BY <2>1, <2>2, StepTyped DEF Next
<1> QED BY InitTyped, <1>1, <1>2, PTL DEF Spec

\* A sweep in flight found rows of its user.
SweepsOwn ==
  \A r \in Slot : call[r].op = "sweep" => call[r].found \subseteq SessionsOf(call[r].user)

\* Rows that a reset has found, or closed, stay so.
LEMMA ResetsKept ==
  ASSUME TypeOK, RotatesOwn, SweepsOwn, AnsweredResetsClosed, [Next]_vars
  PROVE  SweepsOwn' /\ AnsweredResetsClosed'
<1>0. RowsKept
  BY StepKeepsRows
<1>a. \A r \in Slot : call[r] \in Request
  BY DEF TypeOK, AuthTypeOK, Request
<1>b. \A u \in User : \A s \in SessionsOf(u) : s \in SessionsOf(u)'
  BY <1>0 DEF RowsKept, SessionsOf
<1>c. ASSUME NEW r \in Slot, call'[r] = call[r], call[r].op = "sweep"
      PROVE  (call[r].found \subseteq SessionsOf(call[r].user))'
  BY <1>a, <1>b, <1>c, OpTellsRecord DEF SweepsOwn, Sweeping
<1>d. UNCHANGED swept => AnsweredResetsClosed'
  BY <1>0 DEF AnsweredResetsClosed, RowsKept, Present, TypeOK, AuthTypeOK
<1>e. ASSUME NEW r \in Slot, NEW q, q.op # "sweep", call' = [call EXCEPT ![r] = q]
      PROVE  SweepsOwn'
  BY <1>c, <1>e DEF SweepsOwn, TypeOK, AuthTypeOK
<1>1. ASSUME NEW r \in Slot, ResetWrites(r) PROVE SweepsOwn' /\ AnsweredResetsClosed'
  <2>1. /\ call' = [call EXCEPT ![r] = [op |-> "sweep", user |-> call[r].user,
                                        found |-> SessionsOf(call[r].user)]]
        /\ UNCHANGED <<session, swept>>
    BY <1>1 DEF ResetWrites, Continue
  <2>2. (call[r].found \subseteq SessionsOf(call[r].user))'
    BY <2>1 DEF SessionsOf, Present, TypeOK, AuthTypeOK
  <2>3. \A x \in Slot \ {r} : call'[x] = call[x]
    BY <2>1 DEF TypeOK, AuthTypeOK
  <2> QED BY <1>c, <1>d, <2>1, <2>2, <2>3 DEF SweepsOwn
<1>2. ASSUME NEW r \in Slot, ResetSweeps(r) PROVE SweepsOwn' /\ AnsweredResetsClosed'
  <2>1. SweepsOwn'
    BY <1>2, <1>e DEF ResetSweeps, Idle
  <2>2. \A s \in SessionsOf(call[r].user) : session'[s].state = "invalid"
    BY <1>2 DEF ResetSweeps, Invalidated, SessionsOf, TypeOK, AccountTypeOK, Session
  <2>3. \A s \in call[r].found : session'[s].state = "invalid"
    BY <1>2, <2>2 DEF ResetSweeps, SweepsOwn
  <2>4. \A s \in swept : session'[s].state = "invalid"
    BY <1>0 DEF AnsweredResetsClosed, RowsKept, Present, TypeOK, AuthTypeOK
  <2> QED BY <1>2, <2>1, <2>3, <2>4 DEF ResetSweeps, AnsweredResetsClosed
<1>3. ASSUME NEW r \in Slot, ClientCalls(r) PROVE SweepsOwn' /\ UNCHANGED swept
  <2>1. ASSUME NEW c \in Client, NEW u \in User, NEW p \in Password,
               RegisterReads(r, c, u, p) \/ LoginReads(r, c, u, p)
        PROVE  SweepsOwn' /\ UNCHANGED swept
    BY <1>e, <2>1 DEF RegisterReads, LoginReads, Begin
  <2>2. ASSUME NEW c \in Client, NEW s \in SessionId, RefreshReads(r, c, s)
        PROVE  SweepsOwn' /\ UNCHANGED swept
    BY <1>e, <2>2 DEF RefreshReads, Begin
  <2>3. ASSUME NEW c \in Client, LogoutArrives(r, c) PROVE SweepsOwn' /\ UNCHANGED swept
    BY <1>e, <2>3 DEF LogoutArrives, Begin
  <2>4. ASSUME NEW c \in Client, NEW p \in Password, ChangeReads(r, c, p)
        PROVE  SweepsOwn' /\ UNCHANGED swept
    BY <1>e, <2>4 DEF ChangeReads, BeginPlain
  <2>5. ASSUME NEW c \in Client, NEW u \in User, NEW to \in NewStatus, StatusReads(r, c, u, to)
        PROVE  SweepsOwn' /\ UNCHANGED swept
    BY <1>e, <2>5 DEF StatusReads, BeginPlain
  <2> QED BY <1>3, <2>1, <2>2, <2>3, <2>4, <2>5 DEF ClientCalls
<1>4. ASSUME NEW r \in Slot, \/ RegisterCommits(r) \/ LogoutSwallowsError(r) \/ LogoutCommits(r)
             \/ AnswerArrives(r) \/ ForgotCommits(r) \/ SignTokens(r) \/ ChangeCommits(r)
             \/ StatusCommits(r) \/ CallFails(r) \/ RotateSession(r)
             \/ (\E s \in SessionId : OpenSession(r, s))
             \/ (\E u \in User : ForgotReads(r, u) \/ \E p \in Password : ResetReads(r, u, p))
      PROVE  SweepsOwn' /\ UNCHANGED swept
  <2>1. UNCHANGED swept /\ \E q : q.op # "sweep" /\ call' = [call EXCEPT ![r] = q]
    BY <1>4 DEF RegisterCommits, LogoutSwallowsError, LogoutCommits, AnswerArrives, ForgotCommits,
                SignTokens, ChangeCommits, StatusCommits, CallFails, RotateSession,
                ForgotReads, ResetReads, OpenSession, Continue, BeginPlain, Idle, Answering, Cleared
  <2> QED BY <1>e, <2>1
<1>5. CASE AuthNext
  BY <1>d, <1>1, <1>2, <1>3, <1>4, <1>5 DEF AuthNext
<1>6. CASE UNCHANGED <<call, swept>>
  BY <1>c, <1>d, <1>6 DEF SweepsOwn
<1> QED BY <1>5, <1>6 DEF Next, vars, authVars

\* Once a reset is answered, every session that existed when it wrote the password is
\* closed and stays closed: no rotation in flight and no login revives one of them. The
\* invariant also says what requests in flight remember: rotations and sweeps of rows that
\* are there.
THEOREM ResetsClose == Spec => []AnsweredResetsClosed
<1>1. Init => RotatesOwn /\ SweepsOwn /\ AnsweredResetsClosed
  BY DEF Init, AuthInit, RotatesOwn, SweepsOwn, AnsweredResetsClosed, Idle
<1>2. TypeOK /\ RotatesOwn /\ [Next]_vars => RotatesOwn'
  BY RotatesOwnKept
<1>3. TypeOK /\ RotatesOwn /\ SweepsOwn /\ AnsweredResetsClosed /\ [Next]_vars
        => SweepsOwn' /\ AnsweredResetsClosed'
  BY ResetsKept
<1> QED BY TypeCorrect, <1>1, <1>2, <1>3, PTL DEF Spec

-----------------------------------------------------------------------------
(* Status and audit                                                        *)

\* The statuses an account had.
Past(u) == {"ACTIVE"} \cup {audit[u][m].to : m \in 1..Len(audit[u])}

\* Nobody who has not registered has changes, and a status change in flight names a status
\* the account had.
RulingsRemember ==
  /\ \A u \in User : ~Registered(u) => audit[u] = << >> /\ account[u].status = "ACTIVE"
  /\ \A r \in Slot : call[r].op = "status" =>
       Registered(call[r].user) /\ call[r].from \in Past(call[r].user)

\* What AuditTellsStatus says of one user.
Tells(u) ==
  /\ account[u].status = IF audit[u] = << >> THEN "ACTIVE" ELSE audit[u][Len(audit[u])].to
  /\ \A n \in DOMAIN audit[u] :
       audit[u][n].from \in {"ACTIVE"} \cup {audit[u][m].to : m \in 1..(n - 1)}

LEMMA TellsAll == AuditTellsStatus <=> \A u \in User : Tells(u)
BY DEF AuditTellsStatus, Tells

\* A status is one of those the account had.
LEMMA StatusIsPast ==
  ASSUME TypeOK, NEW u \in User, Tells(u)
  PROVE  account[u].status \in Past(u)
<1>1. audit[u] \in Seq(StatusChange)
  BY DEF TypeOK, AccountTypeOK
<1>2. CASE audit[u] = << >>
  BY <1>2 DEF Tells, Past
<1>3. CASE audit[u] # << >>
  <2>1. Len(audit[u]) \in 1..Len(audit[u])
    BY <1>1, <1>3
  <2> QED BY <1>3, <2>1 DEF Tells, Past
<1> QED BY <1>2, <1>3

\* An audit log that grows by one change, from a status of before, tells the status still.
LEMMA AppendTells ==
  ASSUME TypeOK, NEW u \in User, NEW e \in StatusChange, Tells(u), e.from \in Past(u),
         audit' = [audit EXCEPT ![u] = Append(@, e)], account'[u].status = e.to
  PROVE  Tells(u)' /\ Past(u) \subseteq Past(u)'
<1> DEFINE old == audit[u]
           new == audit'[u]
<1>1. old \in Seq(StatusChange) /\ new = Append(old, e)
  BY DEF TypeOK, AccountTypeOK
<1>2. /\ Len(new) = Len(old) + 1 /\ new[Len(new)] = e /\ new # << >>
      /\ \A m \in 1..Len(old) : new[m] = old[m]
      /\ DOMAIN new = 1..Len(new) /\ Len(old) \in Nat
  BY <1>1
<1>3. Past(u) \subseteq Past(u)'
  BY <1>2 DEF Past
<1>4. ASSUME NEW n \in DOMAIN new
      PROVE  new[n].from \in {"ACTIVE"} \cup {new[m].to : m \in 1..(n - 1)}
  <2>1. CASE n = Len(new)
    BY <1>2, <2>1 DEF Past
  <2>2. CASE n # Len(new)
    <3>1. n \in 1..Len(old) /\ DOMAIN old = 1..Len(old)
      BY <1>1, <1>2, <2>2
    <3>2. old[n].from \in {"ACTIVE"} \cup {old[m].to : m \in 1..(n - 1)}
      BY <3>1 DEF Tells
    <3>3. \A m \in 1..(n - 1) : new[m] = old[m]
      BY <1>2, <3>1
    <3> QED BY <1>2, <3>1, <3>2, <3>3
  <2> QED BY <2>1, <2>2
<1> QED BY <1>2, <1>3, <1>4 DEF Tells

\* A step without a status change leaves what the log tells as it was.
LEMMA QuietStep ==
  ASSUME RulingsRemember, AuditTellsStatus, UNCHANGED audit,
         \A u \in User : /\ account'[u].status = account[u].status
                         /\ Registered(u) => Registered(u)',
         \A r \in Slot : call'[r].op = "status" =>
           call'[r] = call[r] \/ /\ Registered(call'[r].user) /\ call'[r].user \in User
                                 /\ call'[r].from \in Past(call'[r].user),
         \A r \in Slot : call[r].op = "status" => call[r].user \in User
  PROVE  RulingsRemember' /\ AuditTellsStatus'
<1>1. AuditTellsStatus'
  BY DEF AuditTellsStatus
<1>2. \A u \in User : ~Registered(u)' => audit'[u] = << >> /\ account'[u].status = "ACTIVE"
  BY DEF RulingsRemember
<1>3. \A u : Past(u)' = Past(u)
  BY DEF Past
<1>4. ASSUME NEW r \in Slot, call'[r].op = "status"
      PROVE  (Registered(call[r].user) /\ call[r].from \in Past(call[r].user))'
  <2>1. /\ Registered(call'[r].user) /\ call'[r].user \in User
        /\ call'[r].from \in Past(call'[r].user)
    BY <1>4 DEF RulingsRemember
  <2> QED BY <2>1 DEF Past, Registered
<1> QED BY <1>1, <1>2, <1>4 DEF RulingsRemember

LEMMA AuditKept ==
  ASSUME TypeOK, RulingsRemember, AuditTellsStatus, [Next]_vars
  PROVE  RulingsRemember' /\ AuditTellsStatus'
<1> DEFINE Goal == RulingsRemember' /\ AuditTellsStatus'
<1>a. \A r \in Slot : call[r] \in Request
  BY DEF TypeOK, AuthTypeOK, Request
<1>b. \A r \in Slot : call[r].op = "status" => call[r].user \in User
  BY <1>a, OpTellsRecord DEF Ruling
<1>c. call \in [Slot -> Request] /\ account \in [User -> Account]
  BY DEF TypeOK, AuthTypeOK, AccountTypeOK, Request
<1>d. ASSUME UNCHANGED <<account, audit>>,
             \A r \in Slot : call'[r] = call[r] \/ call'[r].op # "status"
      PROVE  Goal
  BY <1>b, <1>d, QuietStep DEF Registered
<1>e. ASSUME NEW r \in Slot, NEW q, call' = [call EXCEPT ![r] = q], q.op # "status"
      PROVE  \A x \in Slot : call'[x] = call[x] \/ call'[x].op # "status"
  BY <1>c, <1>e
<1>f. ASSUME NEW r \in Slot, UNCHANGED audit, NEW u \in User, NEW q, q.op # "status",
             call' = [call EXCEPT ![r] = q],
             \A x \in User \ {u} : account'[x] = account[x],
             account'[u].status = account[u].status, Registered(u)'
      PROVE  Goal
  BY <1>b, <1>e, <1>f, QuietStep DEF Registered
<1> HIDE DEF Goal
<1>1. ASSUME NEW r \in Slot, ClientCalls(r) PROVE Goal
  <2>0. ASSUME NEW c \in Client, NEW u \in User, NEW p \in Password, RegisterReads(r, c, u, p)
        PROVE  Goal
    BY <1>d, <1>e, <2>0 DEF RegisterReads, Begin, accountVars
  <2>1. ASSUME NEW c \in Client, NEW u \in User, NEW p \in Password, LoginReads(r, c, u, p)
        PROVE  Goal
    BY <1>d, <1>e, <2>1 DEF LoginReads, Begin, accountVars
  <2>2. ASSUME NEW c \in Client, NEW s \in SessionId, RefreshReads(r, c, s) PROVE Goal
    BY <1>d, <1>e, <2>2 DEF RefreshReads, Begin, accountVars
  <2>3. ASSUME NEW c \in Client, LogoutArrives(r, c) PROVE Goal
    BY <1>d, <1>e, <2>3 DEF LogoutArrives, Begin, accountVars
  <2>4. ASSUME NEW c \in Client, NEW p \in Password, ChangeReads(r, c, p) PROVE Goal
    BY <1>d, <1>e, <2>4 DEF ChangeReads, BeginPlain, accountVars
  <2>5. ASSUME NEW c \in Client, NEW u \in User, NEW to \in NewStatus, StatusReads(r, c, u, to)
        PROVE  Goal
    <3> DEFINE q == [op |-> "status", user |-> u, from |-> account[u].status, to |-> to]
    <3>1. call' = [call EXCEPT ![r] = q] /\ Registered(u) /\ UNCHANGED <<account, audit>>
      BY <2>5 DEF StatusReads, BeginPlain, accountVars
    <3>2. q.user = u /\ q.from \in Past(u)
      BY StatusIsPast, TellsAll
    <3> HIDE DEF q
    <3>3. \A x \in Slot : call'[x] = call[x] \/ call'[x] = q
      BY <1>c, <3>1
    <3>4. \A x \in User : account'[x].status = account[x].status /\ (Registered(x) => Registered(x)')
      BY <3>1 DEF Registered
    <3>5. ASSUME NEW x \in Slot, call'[x].op = "status"
          PROVE  call'[x] = call[x] \/ /\ Registered(call'[x].user) /\ call'[x].user \in User
                                       /\ call'[x].from \in Past(call'[x].user)
      <4>1. CASE call'[x] = q
        BY <3>1, <3>2, <4>1
      <4>2. CASE call'[x] = call[x]
        BY <4>2
      <4> QED BY <3>3, <4>1, <4>2
    <3> QED BY <1>b, <3>1, <3>4, <3>5, QuietStep DEF Goal
  <2> QED BY <1>1, <2>0, <2>1, <2>2, <2>3, <2>4, <2>5 DEF ClientCalls
<1>2. ASSUME NEW r \in Slot, \/ LogoutSwallowsError(r) \/ LogoutCommits(r) \/ AnswerArrives(r)
             \/ SignTokens(r) \/ CallFails(r) \/ RotateSession(r) \/ ResetSweeps(r)
             \/ (\E s \in SessionId : OpenSession(r, s))
             \/ (\E u \in User : ForgotReads(r, u) \/ \E p \in Password : ResetReads(r, u, p))
      PROVE  Goal
  <2>1. UNCHANGED <<account, audit>> /\ \E q : q.op # "status" /\ call' = [call EXCEPT ![r] = q]
    BY <1>2 DEF LogoutSwallowsError, LogoutCommits, AnswerArrives, SignTokens, CallFails,
                RotateSession, ResetSweeps, ForgotReads, ResetReads, OpenSession, Continue,
                BeginPlain, Idle, Answering, Cleared, accountVars
  <2> QED BY <1>d, <1>e, <2>1
<1>3. ASSUME NEW r \in Slot, RegisterCommits(r) PROVE Goal
  <2>1. call[r].user \in User /\ call[r].password \in Password
    BY <1>3, <1>a, OpTellsRecord DEF RegisterCommits, Registration
  <2>2. /\ account[call[r].user].status = "ACTIVE"
        /\ account' = [account EXCEPT ![call[r].user] = [NoAccount EXCEPT !.password = call[r].password]]
        /\ UNCHANGED audit
    BY <1>3, <2>1 DEF RegisterCommits, RulingsRemember
  <2>c. PICK u \in User : u = call[r].user
    BY <2>1
  <2>a. account'[u] = [NoAccount EXCEPT !.password = call[r].password]
    BY <1>c, <2>2, <2>c
  <2>b. account'[u].status = "ACTIVE" /\ account'[u].password \in Password
    BY <2>1, <2>a DEF NoAccount
  <2>3. account'[u].status = "ACTIVE" /\ Registered(u)'
    BY <2>b, AccountAssumption DEF Registered
  <2>4. /\ \A x \in User \ {u} : account'[x] = account[x]
        /\ account'[u].status = account[u].status
    BY <1>c, <2>2, <2>3, <2>c
  <2> DEFINE q == [op |-> "sign", client |-> call[r].client, user |-> u, session |-> Null]
  <2>5. call' = [call EXCEPT ![r] = q] /\ q.op # "status"
    BY <1>3, <2>c DEF RegisterCommits, Continue
  <2> HIDE DEF q
  <2> QED BY <1>f, <2>2, <2>3, <2>4, <2>5
<1>4. ASSUME NEW r \in Slot, NEW u \in User, UNCHANGED audit,
             \A x \in User \ {u} : account'[x] = account[x],
             account'[u].status = account[u].status, account'[u].password = account[u].password
               \/ account'[u].password \in Password,
             \E q : call' = [call EXCEPT ![r] = q] /\ q.op # "status"
      PROVE  Goal
  <2>1. CASE Registered(u)'
    BY <1>4, <1>f, <2>1
  <2>2. CASE ~Registered(u)'
    <3>1. account'[u].password = account[u].password
      BY <1>4, <2>2, AccountAssumption DEF Registered
    <3> QED BY <1>4, <1>b, <1>e, <3>1, QuietStep DEF Registered, Goal
  <2> QED BY <2>1, <2>2
<1>5. ASSUME NEW r \in Slot, ForgotCommits(r) PROVE Goal
  <2>1. call[r] \in Forgetting
    BY <1>5, <1>a, OpTellsRecord DEF ForgotCommits
  <2>2. /\ \A x \in User \ {call[r].user} : account'[x] = account[x]
        /\ account'[call[r].user].status = account[call[r].user].status
        /\ account'[call[r].user].password = account[call[r].user].password
    BY <1>5, <1>c, <2>1 DEF ForgotCommits, Forgetting, Account
  <2>3. call' = [call EXCEPT ![r] = Idle] /\ Idle.op # "status"
    BY <1>5 DEF ForgotCommits, Continue, Idle
  <2> QED BY <1>4, <1>5, <2>1, <2>2, <2>3 DEF ForgotCommits, Forgetting
<1>6. ASSUME NEW r \in Slot, ResetWrites(r) PROVE Goal
  <2>1. call[r] \in Resetting
    BY <1>6, <1>a, OpTellsRecord DEF ResetWrites
  <2>2. /\ \A x \in User \ {call[r].user} : account'[x] = account[x]
        /\ account'[call[r].user].status = account[call[r].user].status
        /\ account'[call[r].user].password = call[r].password
    BY <1>6, <1>c, <2>1 DEF ResetWrites, Resetting, Account
  <2> DEFINE q == [op |-> "sweep", user |-> call[r].user, found |-> SessionsOf(call[r].user)]
  <2>3. call' = [call EXCEPT ![r] = q] /\ q.op # "status"
    BY <1>6 DEF ResetWrites, Continue
  <2> HIDE DEF q
  <2> QED BY <1>4, <1>6, <2>1, <2>2, <2>3 DEF ResetWrites, Resetting
<1>7. ASSUME NEW r \in Slot, ChangeCommits(r) PROVE Goal
  <2>1. call[r] \in Changing
    BY <1>7, <1>a, OpTellsRecord DEF ChangeCommits
  <2>2. /\ \A x \in User \ {call[r].user} : account'[x] = account[x]
        /\ account'[call[r].user].status = account[call[r].user].status
        /\ account'[call[r].user].password = call[r].password
    BY <1>7, <1>c, <2>1 DEF ChangeCommits, Changing, Account
  <2>3. call' = [call EXCEPT ![r] = Idle] /\ Idle.op # "status"
    BY <1>7 DEF ChangeCommits, Continue, Idle
  <2> QED BY <1>4, <1>7, <2>1, <2>2, <2>3 DEF ChangeCommits, Changing
<1>8. ASSUME NEW r \in Slot, StatusCommits(r) PROVE Goal
  <2>1. call[r] \in Ruling
    BY <1>8, <1>a, OpTellsRecord DEF StatusCommits
  <2>2. PICK u \in User, e \in StatusChange :
          u = call[r].user /\ e = [from |-> call[r].from, to |-> call[r].to]
    BY <2>1 DEF Ruling, StatusChange
  <2>3. Registered(u) /\ e.from \in Past(u)
    BY <1>8, <2>2 DEF StatusCommits, RulingsRemember
  <2>4. /\ account' = [account EXCEPT ![u].status = e.to]
        /\ audit' = [audit EXCEPT ![u] = Append(@, e)]
        /\ call' = [call EXCEPT ![r] = Idle]
    BY <1>8, <2>2 DEF StatusCommits, Continue
  <2>5. /\ account'[u].status = e.to /\ account'[u].password = account[u].password
        /\ \A x \in User \ {u} : account'[x] = account[x] /\ audit'[x] = audit[x]
    BY <1>c, <2>2, <2>4 DEF Account, TypeOK, AccountTypeOK
  <2>6. Tells(u)' /\ Past(u) \subseteq Past(u)'
    <3>1. Tells(u)
      BY <2>2, TellsAll
    <3> QED BY <2>2, <2>3, <2>4, <2>5, <3>1, AppendTells
  <2>7. \A x \in User : Registered(x)' <=> Registered(x)
    BY <2>5 DEF Registered
  <2>8. \A x \in User \ {u} : Tells(x)' /\ Past(x)' = Past(x)
    BY <2>5, TellsAll DEF Tells, Past
  <2>9. AuditTellsStatus'
    <3>1. \A x \in User : Tells(x)'
      BY <2>6, <2>8
    <3> QED BY <3>1 DEF AuditTellsStatus, Tells
  <2>12. \A x \in User : \A y \in Past(x) : y \in Past(x)'
    BY <2>6, <2>8
  <2>10. \A x \in User : ~Registered(x)' => audit'[x] = << >> /\ account'[x].status = "ACTIVE"
    BY <2>3, <2>5, <2>7 DEF RulingsRemember
  <2>11. ASSUME NEW x \in Slot, call'[x].op = "status"
         PROVE  (Registered(call[x].user) /\ call[x].from \in Past(call[x].user))'
    <3>1. call'[x] = call[x] /\ call[x].user \in User
      BY <1>b, <1>c, <2>4, <2>11 DEF Idle
    <3>2. Registered(call[x].user) /\ call[x].from \in Past(call[x].user)
      BY <2>11, <3>1 DEF RulingsRemember
    <3> QED BY <2>7, <2>12, <3>1, <3>2 DEF Past, Registered
  <2> QED BY <2>9, <2>10, <2>11 DEF RulingsRemember, Goal
<1>9. CASE AuthNext
  BY <1>1, <1>2, <1>3, <1>5, <1>6, <1>7, <1>8, <1>9 DEF AuthNext, Goal
<1>10. CASE UNCHANGED <<account, audit, call>>
  BY <1>d, <1>10 DEF Goal
<1> QED BY <1>9, <1>10 DEF Next, SecondPasses, vars, authVars, accountVars, Goal

\* The audit log tells how every status came about, though administrators decide on what
\* they read before others write: the last change ends in the status the account has, and
\* each names a predecessor the account did have.
THEOREM AuditTells == Spec => []AuditTellsStatus
<1>1. Init => RulingsRemember /\ AuditTellsStatus
  BY DEF Init, AccountInit, AuthInit, RulingsRemember, AuditTellsStatus, NoAccount, Registered, Idle
<1>2. TypeOK /\ RulingsRemember /\ AuditTellsStatus /\ [Next]_vars
        => RulingsRemember' /\ AuditTellsStatus'
  BY AuditKept
<1> QED BY TypeCorrect, <1>1, <1>2, PTL DEF Spec

-----------------------------------------------------------------------------
(* Refinement                                                              *)

\* One session per token.
Distinct ==
  \A s, x \in SessionId : Present(s) /\ Present(x) /\ session[s].token = session[x].token => s = x

Valid == {s \in SessionId : session[s].state = "valid"}

LEMMA GoodIs == good = {<<s, session[s].token>> : s \in Valid}
BY DEF good, Valid

LEMMA OpenIs ==
  ASSUME TypeOK, NEW s \in SessionId
  PROVE  /\ Grants!Open(s) <=> s \in Valid
         /\ s \in Valid => session[s].token \in Token /\ <<s, session[s].token>> \in good
<1>1. s \in Valid => session[s].token \in Token
  BY DEF TypeOK, AccountTypeOK, Session, Valid, Present
<1> QED BY <1>1, GoodIs DEF Grants!Open, Valid

\* A step that leaves the rows alone stutters.
LEMMA SameRows ==
  ASSUME UNCHANGED session, Distinct
  PROVE  UNCHANGED <<good, closed>> /\ Distinct'
BY DEF good, closed, Distinct, Present

\* Opening a session is a grant.
LEMMA OpenGrants ==
  ASSUME TypeOK, Distinct, NEW s \in SessionId, NEW t \in Token, ~Present(s), Unused(t, s),
         session' = [session EXCEPT ![s] = [state |-> "valid", token |-> t]]
  PROVE  Grants!Grant(s, t) /\ Distinct'
<1>1. session \in [SessionId -> Session]
  BY DEF TypeOK, AccountTypeOK
<1>2. s \notin Valid /\ s \notin closed
  BY DEF Valid, closed, Present
<1>3. ~Grants!Open(s)
  BY <1>2, OpenIs
<1>4. Grants!Free(t)
  <2> SUFFICES ASSUME NEW x \in SessionId, <<x, t>> \in good PROVE FALSE
    BY DEF Grants!Free
  <2>1. x \in Valid /\ session[x].token = t
    BY GoodIs
  <2> QED BY <1>2, <2>1 DEF Unused
<1>5. /\ session'[s] = [state |-> "valid", token |-> t]
      /\ \A x \in SessionId \ {s} : session'[x] = session[x]
  BY <1>1
<1>6. Valid' = Valid \cup {s} /\ closed' = closed
  BY <1>5, <1>2 DEF Valid, closed
<1>7. good' = good \cup {<<s, t>>}
  <2>1. good' = {<<x, session'[x].token>> : x \in Valid'}
    BY DEF good, Valid
  <2> QED BY <1>2, <1>5, <1>6, <2>1, GoodIs DEF Valid
<1>8. Distinct'
  BY <1>5 DEF Distinct, Present, Unused
<1> QED BY <1>2, <1>3, <1>4, <1>6, <1>7, <1>8 DEF Grants!Grant

\* Rotating a session renews it when it is open, and shows nowhere when it is closed or
\* gets the token it has.
LEMMA RotateRenews ==
  ASSUME TypeOK, Distinct, NEW s \in SessionId, NEW t \in Token, Present(s), Unused(t, s),
         session' = [session EXCEPT ![s].token = t]
  PROVE  (Grants!Renew(s, t) \/ UNCHANGED <<good, closed>>) /\ Distinct'
<1>1. session \in [SessionId -> Session]
  BY DEF TypeOK, AccountTypeOK
<1>2. /\ session'[s].state = session[s].state /\ session'[s].token = t
      /\ \A x \in SessionId \ {s} : session'[x] = session[x]
  BY <1>1 DEF Session
<1>3. Valid' = Valid /\ closed' = closed
  BY <1>2 DEF Valid, closed
<1>4. good' = {<<x, session'[x].token>> : x \in Valid}
  BY <1>3 DEF good, Valid
<1>5. Distinct'
  BY <1>2 DEF Distinct, Present, Unused
<1>6. CASE s \notin Valid
  <2>1. good' = good
    BY <1>2, <1>4, <1>6, GoodIs DEF Valid
  <2> QED BY <1>3, <1>5, <2>1
<1>7. CASE session[s].token = t
  <2>1. good' = good
    BY <1>2, <1>4, <1>7, GoodIs DEF Valid
  <2> QED BY <1>3, <1>5, <2>1
<1>8. CASE s \in Valid /\ session[s].token # t
  <2>1. Grants!Open(s)
    BY <1>8, OpenIs
  <2>2. Grants!Free(t)
    <3> SUFFICES ASSUME NEW x \in SessionId, <<x, t>> \in good PROVE FALSE
      BY DEF Grants!Free
    <3>1. session[x].token = t
      BY GoodIs
    <3> QED BY <1>8, <3>1 DEF Unused
  <2>3. \A g \in good : g[1] \in Valid /\ g = <<g[1], session[g[1]].token>>
    BY GoodIs
  <2>4. good' = {g \in good : g[1] # s} \cup {<<s, t>>}
    <3>1. ASSUME NEW g \in good' PROVE g \in {h \in good : h[1] # s} \cup {<<s, t>>}
      BY <1>2, <1>4, <3>1, GoodIs DEF Valid
    <3>2. ASSUME NEW g \in good, g[1] # s PROVE g \in good'
      BY <1>2, <1>4, <2>3, <3>2 DEF Valid
    <3>3. <<s, t>> \in good'
      BY <1>2, <1>4, <1>8
    <3> QED BY <3>1, <3>2, <3>3
  <2> QED BY <1>3, <1>5, <2>1, <2>2, <2>4 DEF Grants!Renew
<1> QED BY <1>6, <1>7, <1>8

\* Closing sessions closes those that are open.
LEMMA CloseCloses ==
  ASSUME TypeOK, Distinct, NEW S \in SUBSET SessionId, \A s \in S : Present(s),
         session' = Invalidated(S)
  PROVE  (\E C \in SUBSET {s \in SessionId : Grants!Open(s)} : Grants!Close(C)) /\ Distinct'
<1>1. session \in [SessionId -> Session]
  BY DEF TypeOK, AccountTypeOK
<1>2. \A x \in SessionId : /\ session'[x].token = session[x].token
                           /\ session'[x].state = IF x \in S THEN "invalid" ELSE session[x].state
  BY <1>1 DEF Invalidated, Session
<1>3. Distinct'
  BY <1>2 DEF Distinct, Present
<1> DEFINE C == S \cap Valid
<1>4. C \in SUBSET {s \in SessionId : Grants!Open(s)}
  BY OpenIs
<1>5. closed' = closed \cup C
  BY <1>1, <1>2 DEF closed, Valid, Present, Session
<1>6. Valid' = Valid \ S
  BY <1>2 DEF Valid
<1>7. good' = {g \in good : g[1] \notin C}
  <2>1. good' = {<<x, session'[x].token>> : x \in Valid'}
    BY DEF good, Valid
  <2>2. \A g \in good : g[1] \in Valid /\ g = <<g[1], session[g[1]].token>>
    BY GoodIs
  <2>3. ASSUME NEW g \in good' PROVE g \in {h \in good : h[1] \notin C}
    BY <1>2, <1>6, <2>1, <2>3, GoodIs DEF Valid
  <2>4. ASSUME NEW g \in good, g[1] \notin C PROVE g \in good'
    BY <1>2, <1>6, <2>1, <2>2, <2>4 DEF Valid
  <2> QED BY <2>3, <2>4
<1> QED BY <1>3, <1>4, <1>5, <1>7 DEF Grants!Close

\* Every step of Sessions is a step of RefreshGrants or shows nowhere in it.
LEMMA StepRefines ==
  ASSUME TypeOK, RotatesOwn, Distinct, [Next]_vars
  PROVE  [Grants!Next]_<<good, closed>> /\ Distinct'
<1> DEFINE Goal == [Grants!Next]_<<good, closed>> /\ Distinct'
<1>a. \A r \in Slot : call[r] \in Request
  BY DEF TypeOK, AuthTypeOK, Request
<1>b. UNCHANGED session => Goal
  BY SameRows
<1>c. ASSUME NEW S \in SUBSET SessionId, \A s \in S : Present(s), session' = Invalidated(S) PROVE Goal
  BY <1>c, CloseCloses DEF Grants!Next
<1>1. ASSUME NEW r \in Slot, NEW s \in SessionId, OpenSession(r, s) PROVE Goal
  <2>1. call[r].token \in Token
    BY <1>1, <1>a, OpTellsRecord DEF OpenSession, Writing
  <2> QED BY <1>1, <2>1, OpenGrants DEF OpenSession, Grants!Next
<1>2. ASSUME NEW r \in Slot, RotateSession(r) PROVE Goal
  <2>1. call[r].token \in Token /\ call[r].session \in SessionId
    BY <1>2, <1>a, OpTellsRecord DEF RotateSession, Writing
  <2>2. Present(call[r].session)
    BY <1>2 DEF RotateSession, RotatesOwn
  <2> QED BY <1>2, <2>1, <2>2, RotateRenews DEF RotateSession, Grants!Next
<1>3. ASSUME NEW r \in Slot, LogoutCommits(r) PROVE Goal
  <2>1. call[r].token # NoToken
    BY <1>3, <1>a, OpTellsRecord, TokenKinds DEF LogoutCommits, Leaving
  <2>2. \A s \in Carrying(call[r].token) : Present(s)
    BY <2>1 DEF Carrying, TypeOK, AccountTypeOK
  <2> QED BY <1>c, <1>3, <2>2 DEF LogoutCommits, Carrying
<1>4. ASSUME NEW r \in Slot, ResetSweeps(r) PROVE Goal
  BY <1>c, <1>4 DEF ResetSweeps, SessionsOf
<1>5. ASSUME NEW r \in Slot, ClientCalls(r) PROVE UNCHANGED session
  BY <1>5 DEF ClientCalls, RegisterReads, LoginReads, RefreshReads, LogoutArrives, ChangeReads,
              StatusReads, accountVars
<1>6. ASSUME NEW r \in Slot, \/ RegisterCommits(r) \/ SignTokens(r) \/ LogoutSwallowsError(r)
             \/ AnswerArrives(r) \/ ForgotCommits(r) \/ ResetWrites(r) \/ ChangeCommits(r)
             \/ StatusCommits(r) \/ CallFails(r)
             \/ (\E u \in User : ForgotReads(r, u) \/ \E p \in Password : ResetReads(r, u, p))
      PROVE  UNCHANGED session
  BY <1>6 DEF RegisterCommits, SignTokens, LogoutSwallowsError, AnswerArrives, ForgotCommits,
              ResetWrites, ChangeCommits, StatusCommits, CallFails, ForgotReads, ResetReads, accountVars
<1> HIDE DEF Goal
<1>7. CASE AuthNext
  BY <1>b, <1>1, <1>2, <1>3, <1>4, <1>5, <1>6, <1>7 DEF AuthNext, Goal
<1>8. CASE UNCHANGED session
  BY <1>b, <1>8 DEF Goal
<1> QED BY <1>7, <1>8 DEF Next, SecondPasses, vars, accountVars

\* The Session table implements RefreshGrants for any number of users, clients and requests
\* in flight: no token opens two sessions, a rotation renews one that is open, and a session
\* once closed is never opened again.
THEOREM GrantsImplemented == Spec => ImplementsGrants
<1>1. Init => RotatesOwn /\ Distinct /\ Grants!Init
  BY DEF Init, AccountInit, AuthInit, RotatesOwn, Distinct, Idle, Present, NoSession, good, closed,
         Grants!Init
<1>2. TypeOK /\ RotatesOwn /\ [Next]_vars => RotatesOwn'
  BY RotatesOwnKept
<1>3. TypeOK /\ RotatesOwn /\ Distinct /\ [Next]_vars => [Grants!Next]_<<good, closed>> /\ Distinct'
  BY StepRefines
<1>4. ImplementsGrants <=> Grants!Init /\ [][Grants!Next]_<<good, closed>>
  BY DEF ImplementsGrants, Grants!Spec, Grants!vars
<1> QED BY TypeCorrect, <1>1, <1>2, <1>3, <1>4, PTL DEF Spec
=============================================================================
