-------------------------------- MODULE WebClient ---------------------------------
(***************************************************************************)
(* The web client in one browser tab, against the server it asks: the      *)
(* session, the cache of queries, the actions of the pages and the wizard, *)
(* with what several of them do to one another. Requests are answered in   *)
(* any order; some are never answered, as the server leaves an error that  *)
(* its handlers throw unhandled.                                           *)
(***************************************************************************)
EXTENDS RescueWizard

vars == <<cacheVars, sessionVars, actionVars, wizard>>

\* Every key that some behaviour looks at, every action some behaviour takes.
Keys == UNION {KeysOf(f) : f \in Focus}
Acts == UNION {f \cap ActName : f \in Focus}

Init ==
  /\ CacheInit
  /\ SessionInit
  /\ ActionInit
  /\ WizardInit

-----------------------------------------------------------------------------
(* Queries.                                                                *)

Touch(k, e) ==
  /\ cache' = [cache EXCEPT ![k] = e]
  /\ UNCHANGED <<focus, version, owed, sessionVars, actionVars, wizard>>

\* The answer of a read, or the loss of its request; a failed one is repeated once.
Answered(k) ==
  LET e == cache[k] IN
  /\ e.fetch # Null
  /\ \/ e.fetch.got = "rows" /\ Touch(k, Arrived(e, k))
     \/ e.fetch.got = "refused" /\ Touch(k, Failed(e, cookie))
     \/ e.fetch.got # "silent" /\ "error" \in focus /\ Touch(k, Failed(e, cookie))

Read(k) ==
  /\ k \in DOMAIN cache
  /\ \/ HandleRead(k) /\ UNCHANGED <<sessionVars, actionVars, wizard>>
     \/ Answered(k)

\* Rows pass their stale time.
Age(k) ==
  /\ "time" \in focus
  /\ cache[k].rows # Null
  /\ Touch(k, [cache[k] EXCEPT !.stale = TRUE])

\* The entry of a key that no page shows is dropped in time.
Collected(k) ==
  /\ "time" \in focus
  /\ k \notin Shown /\ cache[k].fetch = Null
  /\ Touch(k, NoEntry)

\* refetchInterval: the Topbar and the status page ask again and again.
Polled == {"notifications", "status"}

\* The buttons of the lists that ask again.
WithRefreshButton == {"cases-list", "transactions-ledger", "admin-audit-logs", "status"}

Refetch(k) ==
  /\ k \in Shown /\ cache[k].fetch = Null
  /\ (k[1] \in Polled /\ "time" \in focus) \/ (k[1] \in WithRefreshButton /\ "refresh" \in focus)
  /\ Touch(k, Fetching(cache[k], cookie))

-----------------------------------------------------------------------------
(* The session, and the pages with it.                                     *)

SignInEnds  == SignedIn \/ SignInFails
RestoreEnds == RestoreSession \/ RestoreFails

Following(A) == A /\ ActionsFollow /\ WizardFollows

SessionStep ==
  \/ Following(RestoreEnds)
  \/ \E u \in User, silent \in BOOLEAN : Following(SubmitForm(u, silent))
  \/ Following(SignInEnds)
  \/ Following(SignedOut)
  \/ \E p \in Path : Following(Go(p))
  \/ \E b \in Business : Following(SwitchBusiness(b))
  \/ SignOut /\ UNCHANGED <<actionVars, wizard>>
  \/ CookieEnds /\ UNCHANGED <<actionVars, wizard>>
  \/ \E p \in Path : ActionsServed /\ Reload(p) /\ ActionsForgotten /\ wizard' = Blank

\* An action of a page, from the control to what its answer does.
Dealt(a) ==
  /\ a \in DOMAIN change
  /\ HandleAction(a) \/ Acknowledged(a) \/ Rejected(a)
  /\ UNCHANGED wizard

ActionStep ==
  \/ \E a \in DOMAIN change : \E choice \in Choice(a) : Ask(a, choice) /\ UNCHANGED wizard
  \/ \E a \in DOMAIN change : Dealt(a)

QueryStep ==
  \E k \in DOMAIN cache : Read(k) \/ Age(k) \/ Collected(k) \/ Refetch(k)

Next == SessionStep \/ QueryStep \/ ActionStep \/ WizardStep

\* The server and the network answer, or fail, what they do not leave silent.
Fairness ==
  /\ \A k \in Keys : WF_vars(Read(k))
  /\ \A a \in Acts : WF_vars(Dealt(a))
  /\ WF_vars(~auth.mute /\ Following(RestoreEnds))
  /\ WF_vars(~auth.signIn.silent /\ Following(SignInEnds))
  /\ WF_vars(Following(SignedOut))

Spec == Init /\ [][Next]_vars /\ Fairness

-----------------------------------------------------------------------------
(* Properties.                                                             *)

\* The state of the tab, its cache and its requests keeps its shape through every
\* interleaving of pages, sign-ins and answers.
TypeOK == CacheTypeOK /\ SessionTypeOK /\ ActionTypeOK /\ WizardTypeOK

\* AuthContext and the browser's cookie agree whenever both name someone and nothing of
\* /auth is under way: the server acts for the user that the page shows. The exception is
\* a sign-in sent before the call that restores a session has ended, whose late answer
\* puts the earlier user back.
SessionIsOwn ==
  (auth = NoCalls /\ ~crossed /\ user # Null /\ cookie # Null) => user = cookie

Settled(k) == cache[k].rows # Null /\ cache[k].fetch = Null /\ ~cache[k].failed

\* A page on which an action was accepted shows its effect: once the requests for the
\* rows have ended well, they are of a version no older than the action's.
ShowsOwnChanges ==
  \A k \in Shown : Settled(k) => cache[k].rows.version >= owed[k]

\* Rows of the user before are only seen while they are fresh. The keys of the cache do
\* not name a user and signing out does not clear it, so a page can show them to the next
\* one; it does so only when it found them within their stale time, or on their way.
LeftoversAreFresh ==
  \A k \in Shown :
    (Settled(k) /\ user # Null /\ user = cookie /\ ~crossed /\ cache[k].rows.by \notin {user, Null})
      => cache[k].kept

\* Every spinner ends that does not wait for an unanswered request: a read, an action,
\* and "Restoring session", which the sign-in shares with the restoration.
ScreensSettle ==
  /\ \A k \in Keys : []<>(k \in DOMAIN cache => cache[k].fetch = Null \/ cache[k].fetch.got = "silent")
  /\ \A a \in Acts : []<>(a \in DOMAIN change => change[a].got \in {"none", "silent"})
  /\ []<>(~loading \/ auth.mute \/ auth.signIn.silent)

-----------------------------------------------------------------------------
(* What the repository says, and the code does not do. *)

\* "File a legally backed rescue case", says WhereIsMyMoneyPage: a claim with an amount
\* that somebody signed in submits at the end of the wizard becomes a case once it is
\* answered.
WizardFilesCases ==
  [][CaseAnswered /\ cookie # Null /\ Claim.amount > 0 => wizard'.submit = "done"]_vars
=============================================================================
