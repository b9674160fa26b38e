------------------------------ MODULE AccountStore ------------------------------
(***************************************************************************)
(* The User and Session tables, the status changes in the audit log, and   *)
(* the JSON web tokens of AuthService.                                     *)
(*                                                                         *)
(* A token is its claims: email and role of a user never change, so two    *)
(* tokens signed for one user in the same second are the same string.      *)
(* Access and refresh token are signed together and stand for each other.  *)
(* expiresAt of a session is computed in the synchronous block that signs  *)
(* its token, from the same seven days, and is written with it: the row    *)
(* expires when its token does and the column is left out. Of the audit    *)
(* log only the status changes are kept.                                   *)
(***************************************************************************)
EXTENDS Naturals, Sequences, TLC

CONSTANTS
  User,             \* ids of the User rows that may exist
  Admin,            \* those with the role ADMIN or SUPER_ADMIN
  Password,         \* the passwords users choose
  SessionId,        \* ids of the Session rows that may be created
  Null,             \* an absent value
  MaxNow,           \* bound: the last second of a behaviour
  AccessLifetime,   \* JWT_ACCESS_EXPIRATION, in seconds
  RefreshLifetime,  \* JWT_REFRESH_EXPIRATION, in seconds
  ResetLifetime,    \* the hour a password reset token is good for, in seconds
  MaxResets         \* bound: password reset tokens generated

ASSUME AccountAssumption ==
  /\ Admin \subseteq User
  /\ {MaxNow, AccessLifetime, RefreshLifetime, ResetLifetime, MaxResets} \subseteq Nat
  /\ Null \notin User \cup Password

VARIABLES
  account,  \* the User table
  session,  \* the Session table
  audit,    \* the USER_STATUS_CHANGE records of each user, in commit order
  resets,   \* how many reset tokens were generated
  now       \* the clock, in seconds

accountVars == <<account, session, audit, resets, now>>

AccountStatus == {"PENDING_VERIFICATION", "ACTIVE", "SUSPENDED", "DEACTIVATED"}

Token == [sub : User, iat : 0..MaxNow]

\* A token that no session has, for rows that do not exist.
NoToken == [sub |-> Null, iat |-> 0]

\* passwordResetToken and passwordResetExpiry
ResetToken == [serial : 1..MaxResets, expires : 0..(MaxNow + ResetLifetime)]

NoReset == [serial |-> 0, expires |-> 0]

Account ==
  [ password : Password \cup {Null}, status : AccountStatus, reset : ResetToken \cup {NoReset} ]

NoAccount == [password |-> Null, status |-> "ACTIVE", reset |-> NoReset]

Registered(u) == account[u].password # Null

\* state "absent": the row has not been created.
Session == [state : {"absent", "valid", "invalid"}, token : Token \cup {NoToken}]

NoSession == [state |-> "absent", token |-> NoToken]

Present(s) == session[s].state # "absent"

StatusChange == [from : AccountStatus, to : AccountStatus]

AccountTypeOK ==
  /\ account \in [User -> Account]
  /\ session \in [SessionId -> Session]
  /\ \A s \in SessionId : Present(s) <=> session[s].token # NoToken
  /\ audit \in [User -> Seq(StatusChange)]
  /\ resets \in 0..MaxResets
  /\ now \in 0..MaxNow

\* Some users have registered, with some password; nobody is signed in.
AccountInit ==
  /\ account \in [User -> {NoAccount} \cup { [NoAccount EXCEPT !.password = p] : p \in Password }]
  /\ session = [s \in SessionId |-> NoSession]
  /\ audit   = [u \in User |-> << >>]
  /\ resets  = 0
  /\ now     = 0

\* What generateTokens signs for u now.
Signed(u) == [sub |-> u, iat |-> now]

\* jwt.verify accepts the access token, the refresh token that was signed with t.
AccessGood(t)  == now < t.iat + AccessLifetime
RefreshGood(t) == now < t.iat + RefreshLifetime

\* refreshToken is unique: no row but s carries t.
Unused(t, s) == \A x \in SessionId \ {s} : session[x].token # t

\* The rows updateMany finds by token and by user.
Carrying(t)   == { s \in SessionId : session[s].token = t }
SessionsOf(u) == { s \in SessionId : Present(s) /\ session[s].token.sub = u }

\* Mutant: closing a session blanks its token as well.
InvalidatedAndBlanked(S) ==
  [s \in SessionId |-> IF s \in S THEN [state |-> "invalid", token |-> NoToken] ELSE session[s]]

\* isValid: false for the rows of S.
Invalidated(S) ==
  [s \in SessionId |-> IF s \in S THEN [session[s] EXCEPT !.state = "invalid"] ELSE session[s]]

SecondPasses ==
  /\ now < MaxNow
  /\ now' = now + 1
  /\ UNCHANGED <<account, session, audit, resets>>
=============================================================================
