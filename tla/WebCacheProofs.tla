------------------------------ MODULE WebCacheProofs ------------------------------
(***************************************************************************)
(* Theorems about WebClient and its cache of queries, for any users,       *)
(* businesses, stories and bounds: the tab keeps its types, a page shows   *)
(* what its own actions changed, and what it shows of an earlier user it   *)
(* found fresh.                                                            *)
(***************************************************************************)
EXTENDS WebProofs

(* The tables of the pages.                                                *)

LEMMA Paths ==
  /\ Path = DOMAIN Screen
  /\ {"login", "admin", "business", "dashboard", "case"} \subseteq Path
BY DEF Path, Screen

\* A public page reads what the server answers to everyone.
LEMMA PublicPages ==
  ASSUME NEW p \in Path, ~Protected(p)
  PROVE  Screen[p].reads \subseteq PublicReads
BY DEF Path, Protected, Screen, Page, PublicReads, LandingPage, PublicStatusPage, LoginPage, RegisterPage,
       ConsumerDashboard, WhereIsMyMoneyPage, CaseListPage, CaseDetailPage, ComplaintTab,
       EvidenceVaultPage, TransactionsPage, ProfilePage, BusinessDashboard, ReconciliationPage,
       PaymentVerifyPage, PaymentRequestsPage, BusinessTeamPage, DeveloperPortalPage,
       BusinessBillingPage, AdminDashboard, AdminUsersPage, AdminAuditLogsPage, AdminSettingsPage

\* What an action promises to its page, the page asks for again.
LEMMA PromisesAreRefreshed ==
  ASSUME NEW a \in ActName
  PROVE  Promised(a) \subseteq Mutation[a].refreshes
BY DEF ActName, Promised, Mutation, Act, CaseReads, escalateMutation, statusMutation,
       handleUploadEvidence, handleTriggerOcr, handleUpload, createKeyMutation, revokeKeyMutation,
       createWebhookMutation, testWebhookMutation, userStatusMutation, flagMutation,
       subscribeMutation, paymentRequestMutation, verifyMutation, uploadMutation, manualMutation,
       contactMutation, Screen, Page, LandingPage, CaseDetailPage, EvidenceVaultPage,
       ReconciliationPage, PaymentVerifyPage, PaymentRequestsPage, DeveloperPortalPage,
       BusinessBillingPage, AdminUsersPage, AdminSettingsPage

-----------------------------------------------------------------------------
(* What happens to one entry.                                              *)

Someone == User \cup {Null}

LEMMA SentIsFetch ==
  ASSUME NEW u \in Someone, NEW again \in BOOLEAN
  PROVE  /\ Sent(u, again) \in Fetch /\ Sent(u, again) # Null
         /\ Sent(u, again).got = "sent" /\ Sent(u, again).as = u
<1>1. 0 \in 0..MaxVersion
  BY CacheAssumption
<1>2. Sent(u, again) \in Fetch
  BY <1>1 DEF Sent, Fetch, Someone
<1> QED BY <1>2, CacheAssumption DEF Sent

LEMMA NoEntryTyped == NoEntry \in Entry /\ NoEntry.rows = Null /\ NoEntry.fetch = Null
BY DEF NoEntry, Entry

\* A request leaves with the cookie of u.
LEMMA FetchingEntry ==
  ASSUME NEW e \in Entry, NEW u \in Someone
  PROVE  LET d == Fetching(e, u) IN
         /\ d \in Entry
         /\ d.fetch # Null /\ d.fetch.got = "sent" /\ d.fetch.as = u
         /\ ~d.kept
<1>1. Sent(u, FALSE) \in Fetch /\ Sent(u, FALSE) # Null
      /\ Sent(u, FALSE).got = "sent" /\ Sent(u, FALSE).as = u
  BY SentIsFetch
<1> QED BY <1>1 DEF Fetching, Entry

\* An entry that comes on the screen is on its way, or was kept as it is.
LEMMA MountedEntry ==
  ASSUME NEW e \in Entry, NEW u \in Someone
  PROVE  LET d == Mounted(e, u) IN
         /\ d \in Entry
         /\ \/ /\ e.fetch = Null /\ (e.rows = Null \/ e.stale)
               /\ d.fetch # Null /\ d.fetch.got = "sent" /\ d.fetch.as = u /\ ~d.kept
               /\ d.rows = e.rows
            \/ /\ e.fetch # Null \/ (e.rows # Null /\ ~e.stale)
               /\ d.rows = e.rows /\ d.stale = e.stale /\ d.failed = e.failed /\ d.fetch = e.fetch
               /\ d.kept
<1>1. CASE e.fetch = Null /\ (e.rows = Null \/ e.stale)
  <2>1. Mounted(e, u) = Fetching(e, u)
    BY <1>1 DEF Mounted
  <2>2. Fetching(e, u).rows = e.rows
    BY DEF Fetching, Entry
  <2> QED BY <1>1, <2>1, <2>2, FetchingEntry
<1>2. CASE ~(e.fetch = Null /\ (e.rows = Null \/ e.stale))
  BY <1>2 DEF Mounted, Entry
<1> QED BY <1>1, <1>2

\* Invalidating an entry asks again for its rows, or makes it stale.
LEMMA InvalidatedEntry ==
  ASSUME NEW e \in Entry, NEW u \in Someone, NEW k
  PROVE  LET d == Invalidated(e, k \in Shown, u) IN
         /\ d \in Entry
         /\ d.rows = e.rows
         /\ \/ /\ k \in Shown /\ (e.fetch = Null \/ e.rows # Null)
               /\ d.fetch # Null /\ d.fetch.got = "sent" /\ d.fetch.as = u /\ ~d.kept
            \/ /\ k \notin Shown \/ (e.fetch # Null /\ e.rows = Null)
               /\ d.stale /\ d.failed = e.failed /\ d.fetch = e.fetch /\ d.kept = e.kept
<1> DEFINE s == [e EXCEPT !.stale = TRUE]
<1>1. s \in Entry /\ s.rows = e.rows /\ s.failed = e.failed /\ s.fetch = e.fetch /\ s.kept = e.kept
      /\ s.stale
  BY DEF Entry
<1>2. Fetching(s, u).rows = s.rows
  BY <1>1 DEF Fetching, Entry
<1>3. Invalidated(e, k \in Shown, u) = IF k \in Shown /\ (e.fetch = Null \/ e.rows # Null) THEN Fetching(s, u) ELSE s
  BY DEF Invalidated
<1> HIDE DEF s
<1>4. CASE k \in Shown /\ (e.fetch = Null \/ e.rows # Null)
  <2>1. Invalidated(e, k \in Shown, u) = Fetching(s, u)
    BY <1>3, <1>4
  <2> QED BY <1>1, <1>2, <1>4, <2>1, FetchingEntry
<1>5. CASE ~(k \in Shown /\ (e.fetch = Null \/ e.rows # Null))
  <2>1. Invalidated(e, k \in Shown, u) = s
    BY <1>3, <1>5
  <2> QED BY <1>1, <1>5, <2>1
<1> QED BY <1>4, <1>5

\* A request that failed is sent again, or the entry is one that failed.
LEMMA FailedEntry ==
  ASSUME NEW e \in Entry, e.fetch # Null, NEW u \in Someone
  PROVE  LET d == Failed(e, u) IN
         /\ d \in Entry
         /\ d.rows = e.rows /\ d.kept = e.kept
         /\ \/ d.fetch # Null /\ d.fetch.got = "sent" /\ d.fetch.as = u
            \/ d.fetch = Null /\ d.failed
<1>1. Sent(u, TRUE) \in Fetch /\ Sent(u, TRUE) # Null
      /\ Sent(u, TRUE).got = "sent" /\ Sent(u, TRUE).as = u
  BY SentIsFetch
<1>2. CASE e.fetch.again
  BY <1>2 DEF Failed, Entry
<1>3. CASE ~e.fetch.again
  BY <1>1, <1>3 DEF Failed, Entry
<1> QED BY <1>2, <1>3

\* The rows that arrive belong to the one whose cookie asked, or to nobody.
LEMMA ArrivedEntry ==
  ASSUME NEW e \in Entry, e.fetch # Null, NEW k
  PROVE  LET d == Arrived(e, k) IN
         /\ d \in Entry
         /\ d.fetch = Null /\ d.kept = e.kept
         /\ d.rows.version = e.fetch.version
         /\ d.rows.by = RowsBelongTo(k, e.fetch.as)
<1> DEFINE rows == [by |-> RowsBelongTo(k, e.fetch.as), version |-> e.fetch.version]
<1>1. e.fetch \in Fetch
  BY DEF Entry
<1>2. rows \in Rows /\ rows.version = e.fetch.version /\ rows.by = RowsBelongTo(k, e.fetch.as)
  BY <1>1 DEF Fetch, Rows, RowsBelongTo
<1>3. Arrived(e, k) = [e EXCEPT !.rows = rows, !.stale = FALSE, !.failed = FALSE, !.fetch = Null]
  BY DEF Arrived
<1> HIDE DEF rows
<1> QED BY <1>2, <1>3 DEF Entry

\* Versions only grow.
LEMMA ChangedVersions ==
  ASSUME CacheTypeOK, NEW keys
  PROVE  /\ Changed(keys) \in [KeysOf(focus) -> 0..MaxVersion]
         /\ \A k \in KeysOf(focus) : version[k] <= Changed(keys)[k]
BY CacheAssumption DEF CacheTypeOK, Changed

\* The server deals with a read.
LEMMA HandledEntry ==
  ASSUME CacheTypeOK, NEW k \in DOMAIN cache, HandleRead(k)
  PROVE  /\ CacheTypeOK'
         /\ owed' = owed /\ focus' = focus
         /\ \A j \in DOMAIN cache : version[j] <= version'[j]
         /\ \A j \in DOMAIN cache : j # k => cache'[j] = cache[j]
         /\ cache[k].fetch # Null
         /\ LET e == cache[k]  d == cache'[k] IN
            /\ d.rows = e.rows /\ d.stale = e.stale /\ d.failed = e.failed /\ d.kept = e.kept
            /\ d.fetch # Null /\ d.fetch.as = e.fetch.as
            /\ d.fetch.got = "rows" => d.fetch.version = version'[k]
<1> DEFINE e == cache[k]
           f == e.fetch
<1>1. KeysOf(focus) = DOMAIN cache /\ e \in Entry /\ cache \in [DOMAIN cache -> Entry]
  BY DEF CacheTypeOK
<1>2. f \in Fetch /\ f # Null
  BY <1>1 DEF HandleRead, Entry
<1>3. /\ version' \in [KeysOf(focus) -> 0..MaxVersion]
      /\ \A j \in DOMAIN cache : version[j] <= version'[j]
      /\ owed' = owed /\ focus' = focus
  <2>1. version' = version \/ version' = Changed(Preparing(k))
    BY Zenon DEF HandleRead
  <2>2. owed' = owed /\ focus' = focus
    BY Zenon DEF HandleRead
  <2>3. \A j \in DOMAIN cache : version[j] <= version[j]
    BY <1>1 DEF CacheTypeOK
  <2> QED BY <1>1, <2>1, <2>2, <2>3, ChangedVersions DEF CacheTypeOK
<1>4. PICK outcome \in ReadOutcomes(k, f.as) :
        cache' = [cache EXCEPT ![k].fetch.got = outcome,
                               ![k].fetch.version = IF outcome = "rows" THEN version'[k] ELSE 0]
  BY Zenon DEF HandleRead
<1> DEFINE ver == IF outcome = "rows" THEN version'[k] ELSE 0
           g == [f EXCEPT !.got = outcome, !.version = ver]
           d == [e EXCEPT !.fetch = g]
<1>5. ver \in 0..MaxVersion /\ outcome \in {"rows", "refused", "silent"}
  BY <1>1, <1>3, CacheAssumption DEF ReadOutcomes
<1>6. cache' = [cache EXCEPT ![k] = d]
  BY <1>1, <1>2, <1>4
<1>7. g \in Fetch /\ g.as = f.as /\ g.got = outcome /\ g.version = ver
  <2> HIDE DEF ver, f
  <2> QED BY <1>2, <1>5 DEF Fetch
<1>8. g # Null
  BY <1>7, CacheAssumption
<1>9. /\ d \in Entry /\ d.rows = e.rows /\ d.stale = e.stale /\ d.failed = e.failed /\ d.kept = e.kept
      /\ d.fetch = g
  <2> HIDE DEF g, e
  <2> QED BY <1>1, <1>7 DEF Entry
<1>10. cache' \in [DOMAIN cache -> Entry] /\ cache'[k] = d /\ \A j \in DOMAIN cache : j # k => cache'[j] = cache[j]
  <2> HIDE DEF d
  <2> QED BY <1>1, <1>6, <1>9
<1>11. CacheTypeOK'
  BY <1>1, <1>3, <1>10 DEF CacheTypeOK
<1> HIDE DEF g, d
<1> QED BY <1>2, <1>3, <1>7, <1>8, <1>9, <1>10, <1>11

-----------------------------------------------------------------------------
(* Types.                                                                  *)

Somewhere == Business \cup {Null}

\* The tab renders.
Renders ==
  \E p \in Path, u \in Someone, b \in Somewhere, l \in BOOLEAN, ck \in Someone :
    Render(p, u, b, l, cache, ck)

\* What a step of the session does besides rendering.
Remembers ==
  /\ profile' \in BOOLEAN /\ crossed' \in BOOLEAN
  /\ signIns' \in 0..MaxSignIns /\ loads' = loads /\ owed' = owed
  /\ ActionsFollow

LEMMA HomeIsPath ==
  ASSUME from \in Path \cup {Null}, NEW u, NEW form
  PROVE  Home(u, form) \in Path
BY Paths DEF Home

LEMMA FirstBusinessTyped ==
  ASSUME NEW u, NEW b \in Somewhere, NEW d \in FirstBusiness(u, b)
  PROVE  d \in Somewhere
BY DEF FirstBusiness, BusinessesOf, Somewhere

\* A step of the session renders, asks to sign out, loses its cookie or loads a document.
LEMMA SessionSteps ==
  ASSUME TypeOK, SessionStep
  PROVE  \/ Renders /\ Remembers
         \/ SignOut /\ UNCHANGED actionVars
         \/ CookieEnds /\ UNCHANGED actionVars
         \/ \E p \in Path : Reload(p) /\ ActionsForgotten
<1> USE DEF TypeOK, SessionTypeOK, Remembers
<1>0. auth \in Calls /\ user \in Someone /\ cookie \in Someone /\ biz \in Somewhere
      /\ page \in Path /\ Null \in Someone /\ Null \in Somewhere
  BY DEF Someone, Somewhere
<1>1. CASE Following(RestoreEnds)
  <2>1. CASE RestoreSession
    <3>1. PICK b \in FirstBusiness(auth.me, biz) : Render(page, auth.me, b, FALSE, cache, cookie)
      BY <2>1 DEF RestoreSession
    <3>2. auth.me \in Someone /\ b \in Somewhere
      BY <1>0, <2>1, FirstBusinessTyped DEF RestoreSession, Someone
    <3>3. Renders
      BY <1>0, <3>1, <3>2 DEF Renders
    <3> QED BY <1>1, <2>1, <3>3 DEF RestoreSession, Following
  <2>2. CASE RestoreFails
    <3>1. Renders
      BY <1>0, <2>2 DEF Renders, RestoreFails
    <3> QED BY <1>1, <2>2, <3>1 DEF RestoreFails, Following
  <2> QED BY <1>1, <2>1, <2>2 DEF Following, RestoreEnds
<1>2. ASSUME NEW u \in User, NEW silent \in BOOLEAN, Following(SubmitForm(u, silent))
      PROVE  Renders /\ Remembers
  <2>1. Renders
    BY <1>0, <1>2 DEF Renders, SubmitForm, Following
  <2> QED BY <1>2, <2>1, SessionAssumption DEF SubmitForm, Following
<1>3. CASE Following(SignInEnds)
  <2>1. CASE SignedIn
    <3> DEFINE s == auth.signIn
    <3>1. s.who \in Someone
      BY <1>0 DEF Calls, Someone
    <3>2. PICK b \in FirstBusiness(s.who, biz) :
            Render(Home(s.who, s.form), TakenUser(s.who), b, FALSE, cache, s.who)
      BY <2>1 DEF SignedIn
    <3>3. b \in Somewhere
      BY <1>0, FirstBusinessTyped
    <3>4. Render(Home(s.who, s.form), s.who, b, FALSE, cache, s.who)
      BY <3>2 DEF TakenUser
    <3>5. Renders
      BY <3>1, <3>3, <3>4, HomeIsPath DEF Renders
    <3> QED BY <1>3, <2>1, <3>5 DEF SignedIn, Following
  <2>2. CASE SignInFails
    <3>1. Renders
      BY <1>0, <2>2 DEF Renders, SignInFails
    <3> QED BY <1>3, <2>2, <3>1 DEF SignInFails, Following
  <2> QED BY <1>3, <2>1, <2>2 DEF Following, SignInEnds
<1>4. CASE Following(SignedOut)
  <2>1. \E ck \in Someone : Render(page, Null, Null, loading, cache, ck)
    BY <1>0, <1>4 DEF SignedOut, Following
  <2>2. Renders
    BY <1>0, <2>1 DEF Renders
  <2> QED BY <1>4, <2>2 DEF SignedOut, Following
<1>5. ASSUME NEW p \in Path, Following(Go(p)) PROVE Renders /\ Remembers
  <2>1. Renders
    BY <1>0, <1>5 DEF Renders, Go, Following
  <2> QED BY <1>5, <2>1 DEF Go, Following
<1>6. ASSUME NEW b \in Business, Following(SwitchBusiness(b)) PROVE Renders /\ Remembers
  <2>1. b \in Somewhere
    BY DEF Somewhere
  <2>2. Renders
    BY <1>0, <1>6, <2>1 DEF Renders, SwitchBusiness, Following
  <2> QED BY <1>6, <2>2 DEF SwitchBusiness, Following
<1> QED BY <1>1, <1>2, <1>3, <1>4, <1>5, <1>6 DEF SessionStep

\* A render keeps the types of the screen and of every entry.
LEMMA RenderTyped ==
  ASSUME TypeOK, Renders, owed' = owed
  PROVE  /\ CacheTypeOK'
         /\ user' \in Someone /\ biz' \in Somewhere /\ loading' \in BOOLEAN
         /\ page' \in Path /\ from' \in Path \cup {Null} /\ cookie' \in Someone
<1> PICK p \in Path, u \in Someone, b \in Somewhere, l \in BOOLEAN, ck \in Someone :
      Render(p, u, b, l, cache, ck)
  BY DEF Renders
<1>1. page' \in Path /\ from' \in Path \cup {Null}
  BY Paths DEF Render, Location, TypeOK, SessionTypeOK
<1>2. user' = u /\ biz' = b /\ loading' = l /\ cookie' = ck
  BY DEF Render
<1>3. CacheTypeOK'
  <2>1. \A k \in DOMAIN cache : cache[k] \in Entry /\ Mounted(cache[k], ck) \in Entry
    BY MountedEntry DEF TypeOK, CacheTypeOK
  <2>2. cache' \in [DOMAIN cache -> Entry]
    BY <2>1 DEF Render
  <2>3. focus' = focus /\ version' = version
    BY DEF Render
  <2> QED BY <2>2, <2>3 DEF TypeOK, CacheTypeOK
<1> QED BY <1>1, <1>2, <1>3

\* A new document starts without rows.
LEMMA ReloadTyped ==
  ASSUME TypeOK, NEW p \in Path, Reload(p)
  PROVE  CacheTypeOK' /\ SessionTypeOK'
<1> USE DEF TypeOK, SessionTypeOK
<1>1. Mounted(NoEntry, cookie) \in Entry /\ NoEntry \in Entry
  BY NoEntryTyped, MountedEntry DEF Someone
<1>2. cache' \in [DOMAIN cache -> Entry] /\ owed' = [k \in DOMAIN owed |-> 0]
      /\ focus' = focus /\ version' = version
  BY <1>1 DEF Reload
<1>3. CacheTypeOK'
  BY <1>2, CacheAssumption DEF CacheTypeOK
<1>4. auth' \in Calls
  BY RestoringCalls DEF Reload
<1>5. /\ user' = Null /\ profile' = FALSE /\ biz' = Null /\ loading' = TRUE
      /\ page' = p /\ from' = Null /\ cookie' = cookie /\ signIns' = signIns
      /\ loads < MaxLoads /\ loads' = loads + 1 /\ crossed' = FALSE
  BY DEF Reload
<1>6. loads' \in 0..MaxLoads
  BY <1>5, SessionAssumption
<1> QED BY <1>3, <1>4, <1>5, <1>6

\* The requests in flight when the page renders.
LEMMA FollowTyped ==
  ASSUME ActionTypeOK, ActionsFollow, biz' \in Somewhere, focus' = focus
  PROVE  ActionTypeOK'
<1> USE DEF ActionTypeOK, Somewhere
<1>1. ASSUME NEW a \in DOMAIN change PROVE
        Followed(a) \in [by : User \cup {Null}, at : Business \cup {Null}, arg : Business \cup {Null},
                         choice : OfferedTarget \cup User \cup {Null},
                         got : {"none", "sent", "stored", "refused", "silent"}, heard : BOOLEAN]
  BY <1>1 DEF Followed
<1> QED BY <1>1 DEF ActionsFollow

LEMMA IdleTyped ==
  Idle \in [by : User \cup {Null}, at : Business \cup {Null}, arg : Business \cup {Null},
            choice : OfferedTarget \cup User \cup {Null},
            got : {"none", "sent", "stored", "refused", "silent"}, heard : BOOLEAN]
BY DEF Idle

LEMMA SessionStepTyped ==
  ASSUME TypeOK, SessionInv', SessionStep
  PROVE  CacheTypeOK' /\ SessionTypeOK' /\ ActionTypeOK'
<1>1. CASE Renders /\ Remembers
  <2>1. focus' = focus
    BY <1>1 DEF Renders, Render
  <2>2. ActionTypeOK'
    BY <1>1, <2>1, RenderTyped, FollowTyped DEF TypeOK, Remembers
  <2> QED BY <1>1, <2>2, RenderTyped DEF Remembers, TypeOK, SessionTypeOK, SessionInv, Someone, Somewhere
<1>2. CASE (SignOut \/ CookieEnds) /\ UNCHANGED actionVars
  BY <1>2 DEF SignOut, CookieEnds, actionVars, TypeOK, CacheTypeOK, SessionTypeOK, ActionTypeOK, SessionInv
<1>3. ASSUME NEW p \in Path, Reload(p), ActionsForgotten
      PROVE  CacheTypeOK' /\ SessionTypeOK' /\ ActionTypeOK'
  <2>1. ActionTypeOK'
    BY <1>3, IdleTyped DEF ActionsForgotten, Reload, TypeOK, ActionTypeOK
  <2> QED BY <1>3, <2>1, ReloadTyped
<1> QED BY <1>1, <1>2, <1>3, SessionSteps

\* One entry changes.
LEMMA TouchTyped ==
  ASSUME CacheTypeOK, NEW k \in DOMAIN cache, NEW e \in Entry, Touch(k, e)
  PROVE  /\ CacheTypeOK' /\ cache'[k] = e
         /\ \A j \in DOMAIN cache : j # k => cache'[j] = cache[j]
         /\ UNCHANGED <<focus, version, owed, sessionVars, actionVars, wizard>>
BY DEF Touch, CacheTypeOK

\* A step of a query touches one entry, or lets the server handle a read.
LEMMA QuerySteps ==
  ASSUME TypeOK, NEW k \in DOMAIN cache, Read(k) \/ Age(k) \/ Collected(k) \/ Refetch(k)
  PROVE  \/ HandleRead(k) /\ UNCHANGED <<sessionVars, actionVars, wizard>>
         \/ cache[k].fetch # Null /\ cache[k].fetch.got = "rows" /\ Touch(k, Arrived(cache[k], k))
         \/ cache[k].fetch # Null /\ Touch(k, Failed(cache[k], cookie))
         \/ cache[k].rows # Null /\ Touch(k, [cache[k] EXCEPT !.stale = TRUE])
         \/ k \notin Shown /\ Touch(k, NoEntry)
         \/ k \in Shown /\ cache[k].fetch = Null /\ Touch(k, Fetching(cache[k], cookie))
BY DEF Read, Answered, Age, Collected, Refetch

LEMMA QueryStepTyped ==
  ASSUME TypeOK, QueryStep
  PROVE  CacheTypeOK' /\ UNCHANGED <<focus, sessionVars, actionVars, wizard>>
<1> PICK k \in DOMAIN cache : Read(k) \/ Age(k) \/ Collected(k) \/ Refetch(k)
  BY DEF QueryStep
<1>1. cache[k] \in Entry /\ cookie \in Someone /\ CacheTypeOK
  BY DEF TypeOK, CacheTypeOK, SessionTypeOK, Someone
<1>2. CASE HandleRead(k) /\ UNCHANGED <<sessionVars, actionVars, wizard>>
  BY <1>1, <1>2, HandledEntry
<1>3. ASSUME NEW e \in Entry, Touch(k, e)
      PROVE  CacheTypeOK' /\ UNCHANGED <<focus, sessionVars, actionVars, wizard>>
  BY <1>1, <1>3, TouchTyped
<1>4. /\ cache[k].fetch # Null => Arrived(cache[k], k) \in Entry /\ Failed(cache[k], cookie) \in Entry
      /\ [cache[k] EXCEPT !.stale = TRUE] \in Entry
      /\ NoEntry \in Entry /\ Fetching(cache[k], cookie) \in Entry
  <2>1. [cache[k] EXCEPT !.stale = TRUE] \in Entry
    BY <1>1 DEF Entry
  <2> QED BY <1>1, <2>1, ArrivedEntry, FailedEntry, NoEntryTyped, FetchingEntry
<1> QED BY <1>2, <1>3, <1>4, QuerySteps

\* What an action may be asked for, and what may come of it.
LEMMA ChoiceTyped ==
  ASSUME NEW a, NEW choice \in Choice(a)
  PROVE  choice \in OfferedTarget \cup User \cup {Null}
BY PeopleAssumption DEF Choice

LEMMA OutcomeTyped ==
  ASSUME NEW a, NEW u, NEW b, NEW choice, NEW outcome \in Outcomes(a, u, b, choice)
  PROVE  outcome \in {"stored", "refused", "silent"}
BY DEF Outcomes

\* The answer of an action refreshes entries and makes a page owe versions.
LEMMA AcknowledgedTyped ==
  ASSUME TypeOK, NEW a \in DOMAIN change, Acknowledged(a)
  PROVE  CacheTypeOK' /\ ActionTypeOK' /\ UNCHANGED <<focus, version, sessionVars>>
<1> USE DEF TypeOK, CacheTypeOK, ActionTypeOK
<1>1. cookie \in Someone
  BY DEF SessionTypeOK, Someone
<1>2. \A k \in DOMAIN cache : Invalidated(cache[k], k \in Shown, cookie) \in Entry
  BY <1>1, InvalidatedEntry
<1>3. cache' \in [DOMAIN cache -> Entry]
  BY <1>2 DEF Acknowledged
<1>4. owed' \in [DOMAIN owed -> 0..MaxVersion]
  BY DEF Acknowledged
<1>5. change' = [change EXCEPT ![a] = Idle] /\ asked' = asked /\ UNCHANGED <<focus, version, sessionVars>>
  BY DEF Acknowledged
<1>6. ActionTypeOK'
  BY <1>5, IdleTyped
<1> QED BY <1>3, <1>4, <1>5, <1>6

LEMMA ActionStepTyped ==
  ASSUME TypeOK, ActionStep
  PROVE  CacheTypeOK' /\ ActionTypeOK' /\ UNCHANGED <<focus, sessionVars>>
<1> USE DEF TypeOK, ActionTypeOK
<1>1. ASSUME NEW a \in DOMAIN change, NEW choice \in Choice(a), Ask(a, choice)
      PROVE  CacheTypeOK' /\ ActionTypeOK' /\ UNCHANGED <<focus, sessionVars>>
  <2> DEFINE c == [by |-> cookie, at |-> biz, arg |-> biz, choice |-> choice, got |-> "sent", heard |-> TRUE]
  <2>1. change' = [change EXCEPT ![a] = c] /\ asked' = asked + 1 /\ asked < MaxActions
        /\ UNCHANGED <<cacheVars, sessionVars>>
    BY <1>1 DEF Ask
  <2>2. c \in [by : User \cup {Null}, at : Business \cup {Null}, arg : Business \cup {Null},
               choice : OfferedTarget \cup User \cup {Null},
               got : {"none", "sent", "stored", "refused", "silent"}, heard : BOOLEAN]
    BY ChoiceTyped DEF SessionTypeOK
  <2> HIDE DEF c
  <2>3. ActionTypeOK'
    BY <2>1, <2>2, ActionAssumption DEF cacheVars
  <2>4. CacheTypeOK'
    BY <2>1 DEF cacheVars, CacheTypeOK
  <2> QED BY <2>1, <2>3, <2>4 DEF cacheVars
<1>2. ASSUME NEW a \in DOMAIN change, HandleAction(a)
      PROVE  CacheTypeOK' /\ ActionTypeOK' /\ UNCHANGED <<focus, sessionVars>>
  <2> DEFINE c == change[a]
  <2>1. PICK outcome \in Outcomes(a, c.by, c.at, c.choice) : change' = [change EXCEPT ![a].got = outcome]
    BY <1>2 DEF HandleAction
  <2>2. (version' = version \/ \E keys : version' = Changed(keys)) /\ UNCHANGED <<focus, cache, owed, sessionVars, asked>>
    BY <1>2 DEF HandleAction
  <2>3. CacheTypeOK'
    BY <2>2, ChangedVersions DEF CacheTypeOK
  <2>4. ActionTypeOK'
    BY <2>1, <2>2, OutcomeTyped
  <2> QED BY <2>2, <2>3, <2>4
<1>3. ASSUME NEW a \in DOMAIN change, Rejected(a)
      PROVE  CacheTypeOK' /\ ActionTypeOK' /\ UNCHANGED <<focus, sessionVars>>
  BY <1>3, IdleTyped DEF Rejected, cacheVars, CacheTypeOK
<1> QED BY <1>1, <1>2, <1>3, AcknowledgedTyped DEF ActionStep, Dealt

LEMMA WizardStepUnchanged ==
  ASSUME WizardStep
  PROVE  UNCHANGED <<cacheVars, sessionVars, actionVars>>
BY DEF WizardStep, Wizard, SelectCategory, FillForm, Continue, Back, RegisterEvidence,
       EvidenceAnswered, RunAnalysis, AnalysisAnswered, CreateCase, CaseAnswered

LEMMA InitTab == Init => TypeOK
<1> SUFFICES ASSUME Init PROVE TypeOK
  OBVIOUS
<1>1. WizardTypeOK
  BY BlankWizard DEF Init, WizardInit
<1>2. ActionTypeOK
  BY IdleTyped, ActionAssumption DEF Init, ActionInit, ActionTypeOK
<1>3. PICK p \in focus \cap Path, ck \in (focus \cap User) \cup IF "signin" \in focus THEN {Null} ELSE {} :
        Load(p, ck)
  BY DEF Init, SessionInit
<1>4. ck \in Someone
  BY DEF Someone
<1>5. auth \in Calls
  BY <1>3, <1>4, RestoringCalls DEF Load, Someone
<1>6. SessionTypeOK
  <2>1. /\ user = Null /\ profile = FALSE /\ biz = Null /\ loading = TRUE /\ page = p /\ from = Null
        /\ cookie = ck /\ crossed = FALSE /\ signIns = 0 /\ loads = 0
    BY <1>3 DEF Init, SessionInit, Load
  <2>2. 0 \in 0..MaxSignIns /\ 0 \in 0..MaxLoads
    BY SessionAssumption
  <2> QED BY <1>4, <1>5, <2>1, <2>2 DEF SessionTypeOK, Someone
<1>7. CacheTypeOK
  <2>1. Mounted(NoEntry, ck) \in Entry /\ NoEntry \in Entry
    BY <1>4, NoEntryTyped, MountedEntry
  <2>2. cache \in [KeysOf(focus) -> Entry]
    BY <1>3, <2>1 DEF Load
  <2> QED BY <2>2, CacheAssumption DEF Init, CacheInit, CacheTypeOK
<1> QED BY <1>1, <1>2, <1>6, <1>7 DEF TypeOK

LEMMA StepTyped ==
  ASSUME TypeOK, SessionInv', WizardTypeOK', [Next]_vars
  PROVE  TypeOK'
<1> SUFFICES CacheTypeOK' /\ SessionTypeOK' /\ ActionTypeOK'
  BY DEF TypeOK
<1>1. CASE SessionStep
  BY <1>1, SessionStepTyped
<1>2. CASE UNCHANGED <<focus, sessionVars, actionVars>> /\ CacheTypeOK'
  BY <1>2 DEF sessionVars, actionVars, TypeOK, SessionTypeOK, ActionTypeOK
<1>3. CASE QueryStep
  BY <1>2, <1>3, QueryStepTyped
<1>4. CASE ActionStep
  BY <1>4, ActionStepTyped DEF sessionVars, TypeOK, SessionTypeOK
<1>5. CASE UNCHANGED <<cacheVars, sessionVars, actionVars>>
  BY <1>2, <1>5 DEF cacheVars, TypeOK, CacheTypeOK
<1>6. CASE UNCHANGED vars
  BY <1>5, <1>6 DEF vars
<1> QED BY <1>1, <1>3, <1>4, <1>5, <1>6, WizardStepUnchanged DEF Next

\* Whatever is signed in, answered, lost, refreshed, reloaded or grown old, in whatever
\* order: the tab's context, its cache and the requests in flight keep their types.
THEOREM WebTyped == Spec => []TypeOK
<1>1. TypeOK /\ SessionInv' /\ WizardTypeOK' /\ [Next]_vars => TypeOK'
  BY StepTyped
<1> QED BY <1>1, InitTab, SessionInvariant, WizardInvariant, PTL DEF Spec

-----------------------------------------------------------------------------
(* A page shows what its actions changed.                                  *)

\* What an entry owes: rows that are settled are new enough when a page shows them and
\* when a page may find them fresh; rows on their way back are new enough.
PaysEntry(k) ==
  LET e == cache[k] IN
  /\ owed[k] <= version[k]
  /\ Settled(k) /\ (k \in Shown \/ ~e.stale) => e.rows.version >= owed[k]
  /\ e.fetch # Null /\ e.fetch.got = "rows" => e.fetch.version >= owed[k]

DebtsInv == \A k \in DOMAIN cache : PaysEntry(k)

\* The screen, and with it what is shown, is as before.
SameScreen == UNCHANGED <<page, user, biz, loading>> /\ DOMAIN cache' = DOMAIN cache

LEMMA ShownAgain == SameScreen => Shown' = Shown
BY DEF SameScreen, Shown

\* The numbers behind an entry.
LEMMA EntryNumbers ==
  ASSUME TypeOK, NEW k \in DOMAIN cache
  PROVE  /\ cache[k] \in Entry /\ DOMAIN cache = KeysOf(focus)
         /\ version[k] \in Nat /\ owed[k] \in Nat /\ version[k] \in 0..MaxVersion
         /\ cache[k].rows # Null => cache[k].rows.version \in Nat
         /\ cache[k].fetch # Null => cache[k].fetch.version \in Nat
BY CacheAssumption DEF TypeOK, CacheTypeOK, Entry, Rows, Fetch

\* An entry that a step leaves alone, or asks for anew, goes on paying.
LEMMA KeptPays ==
  ASSUME TypeOK, NEW k \in DOMAIN cache, PaysEntry(k), cache'[k] = cache[k],
         owed'[k] = owed[k], version'[k] \in Nat, version[k] <= version'[k],
         k \in Shown' => k \in Shown
  PROVE  PaysEntry(k)'
BY EntryNumbers DEF PaysEntry, Settled

LEMMA SentPays ==
  ASSUME NEW k, owed'[k] <= version'[k], cache'[k].fetch # Null, cache'[k].fetch.got = "sent"
  PROVE  PaysEntry(k)'
BY DEF PaysEntry, Settled

\* What a render makes of an entry.
LEMMA RenderedEntry ==
  ASSUME TypeOK, NEW p, NEW u, NEW b, NEW l, NEW ck, Render(p, u, b, l, cache, ck),
         NEW k \in DOMAIN cache
  PROVE  /\ DOMAIN cache' = DOMAIN cache /\ version' = version
         /\ \/ cache'[k] = cache[k] /\ (k \in Shown' => k \in Shown)
            \/ cache'[k] = Mounted(cache[k], ck) /\ k \in Shown' /\ k \notin Shown
<1> DEFINE q == IF Protected(p) /\ ~l /\ u = Null THEN "login" ELSE p
           come == Observed(q, u, b, l) \ Observed(page, user, biz, loading)
<1>1. /\ user' = u /\ biz' = b /\ loading' = l /\ page' = q
      /\ cache' = [j \in DOMAIN cache |-> IF j \in come THEN Mounted(cache[j], ck) ELSE cache[j]]
      /\ version' = version
  BY DEF Render
<1>2. DOMAIN cache' = DOMAIN cache
  BY <1>1
<1>3. Shown = Observed(page, user, biz, loading) \cap DOMAIN cache
      /\ Shown' = Observed(q, u, b, l) \cap DOMAIN cache
  BY <1>1, <1>2 DEF Shown
<1>4. CASE k \in come
  <2>1. cache'[k] = Mounted(cache[k], ck)
    BY <1>1, <1>4
  <2> QED BY <1>1, <1>2, <1>3, <1>4, <2>1
<1>5. CASE k \notin come
  <2>1. cache'[k] = cache[k]
    BY <1>1, <1>5
  <2> QED BY <1>1, <1>2, <1>3, <1>5, <2>1
<1> QED BY <1>4, <1>5

LEMMA RenderPays ==
  ASSUME TypeOK, DebtsInv, Renders, owed' = owed
  PROVE  DebtsInv'
<1> PICK p \in Path, u \in Someone, b \in Somewhere, l \in BOOLEAN, ck \in Someone :
      Render(p, u, b, l, cache, ck)
  BY DEF Renders
<1>1. DOMAIN cache' = DOMAIN cache /\ version' = version
  BY DEF Render
<1> SUFFICES ASSUME NEW k \in DOMAIN cache PROVE PaysEntry(k)'
  BY <1>1 DEF DebtsInv
<1>2. PaysEntry(k) /\ cache[k] \in Entry /\ version[k] \in Nat /\ owed[k] \in Nat
  BY EntryNumbers DEF DebtsInv
<1>3. CASE cache'[k] = cache[k] /\ (k \in Shown' => k \in Shown)
  BY <1>1, <1>2, <1>3, KeptPays
<1>4. CASE cache'[k] = Mounted(cache[k], ck) /\ k \in Shown'
  <2>1. CASE cache'[k].fetch # Null /\ cache'[k].fetch.got = "sent"
    BY <1>1, <1>2, <2>1, SentPays DEF PaysEntry
  <2>2. CASE /\ cache[k].fetch # Null \/ (cache[k].rows # Null /\ ~cache[k].stale)
             /\ cache'[k].rows = cache[k].rows /\ cache'[k].stale = cache[k].stale
             /\ cache'[k].failed = cache[k].failed /\ cache'[k].fetch = cache[k].fetch
    BY <1>1, <1>2, <2>2 DEF PaysEntry, Settled
  <2> QED BY <1>2, <1>4, <2>1, <2>2, MountedEntry
<1> QED BY <1>3, <1>4, RenderedEntry

LEMMA ReloadPays ==
  ASSUME TypeOK, NEW p \in Path, Reload(p)
  PROVE  DebtsInv'
<1>1. DOMAIN cache' = DOMAIN cache /\ version' = version /\ owed' = [k \in DOMAIN owed |-> 0]
  BY DEF Reload
<1> SUFFICES ASSUME NEW k \in DOMAIN cache PROVE PaysEntry(k)'
  BY <1>1 DEF DebtsInv
<1>2. version'[k] \in Nat /\ owed'[k] = 0
  BY <1>1, EntryNumbers DEF TypeOK, CacheTypeOK
<1>3. cache'[k] = NoEntry \/ cache'[k] = Mounted(NoEntry, cookie)
  BY DEF Reload
<1>4. CASE cache'[k] = NoEntry
  BY <1>2, <1>4, NoEntryTyped DEF PaysEntry, Settled
<1>5. CASE cache'[k] = Mounted(NoEntry, cookie)
  <2>1. cookie \in Someone
    BY DEF TypeOK, SessionTypeOK, Someone
  <2>2. cache'[k].fetch # Null /\ cache'[k].fetch.got = "sent"
    BY <1>5, <2>1, NoEntryTyped, MountedEntry
  <2> QED BY <1>2, <2>2, SentPays
<1> QED BY <1>3, <1>4, <1>5

LEMMA QueryPays ==
  ASSUME TypeOK, DebtsInv, QueryStep
  PROVE  DebtsInv'
<1> PICK k \in DOMAIN cache : Read(k) \/ Age(k) \/ Collected(k) \/ Refetch(k)
  BY DEF QueryStep
<1>1. CacheTypeOK /\ CacheTypeOK' /\ focus' = focus /\ UNCHANGED sessionVars
  BY QueryStepTyped DEF TypeOK
<1>2. DOMAIN cache' = DOMAIN cache /\ SameScreen
  BY <1>1 DEF CacheTypeOK, sessionVars, SameScreen
<1>3. Shown' = Shown
  BY <1>2, ShownAgain
<1>4. cache[k] \in Entry /\ cookie \in Someone /\ PaysEntry(k)
      /\ version[k] \in Nat /\ owed[k] \in Nat
      /\ (cache[k].fetch # Null => cache[k].fetch.version \in Nat)
      /\ (cache[k].rows # Null => cache[k].rows.version \in Nat)
  BY EntryNumbers DEF TypeOK, SessionTypeOK, Someone, DebtsInv
<1>5. CASE HandleRead(k) /\ UNCHANGED <<sessionVars, actionVars, wizard>>
  <2>1. /\ owed' = owed
        /\ \A j \in DOMAIN cache : version[j] <= version'[j] /\ version'[j] \in Nat
    BY <1>1, <1>5, HandledEntry, CacheAssumption DEF CacheTypeOK
  <2>2. \A j \in DOMAIN cache : j # k => PaysEntry(j)'
    <3>1. \A j \in DOMAIN cache : j # k => cache'[j] = cache[j] /\ PaysEntry(j)
      BY <1>1, <1>5, HandledEntry DEF DebtsInv
    <3> QED BY <1>3, <2>1, <3>1, KeptPays
  <2>3. PaysEntry(k)'
    <3>1. LET e == cache[k]  d == cache'[k] IN
          /\ d.rows = e.rows /\ d.stale = e.stale /\ d.failed = e.failed
          /\ d.fetch # Null
          /\ d.fetch.got = "rows" => d.fetch.version = version'[k]
      BY <1>1, <1>5, HandledEntry
    <3> QED BY <1>4, <2>1, <3>1 DEF PaysEntry, Settled
  <2> QED BY <1>2, <2>2, <2>3 DEF DebtsInv
<1>6. ASSUME NEW e \in Entry, Touch(k, e), owed[k] <= version[k] => PaysEntry(k)'
      PROVE  DebtsInv'
  <2>1. /\ owed' = owed /\ version' = version
        /\ \A j \in DOMAIN cache : j # k => cache'[j] = cache[j] /\ PaysEntry(j)
    BY <1>1, <1>6, TouchTyped DEF DebtsInv
  <2>2. \A j \in DOMAIN cache : version[j] \in Nat
    BY EntryNumbers
  <2>3. \A j \in DOMAIN cache : j # k => PaysEntry(j)'
    BY <1>3, <2>1, <2>2, KeptPays
  <2>4. PaysEntry(k)'
    BY <1>4, <1>6 DEF PaysEntry
  <2> QED BY <1>2, <2>3, <2>4 DEF DebtsInv
<1>7. CASE cache[k].fetch # Null /\ cache[k].fetch.got = "rows" /\ Touch(k, Arrived(cache[k], k))
  <2>1. Arrived(cache[k], k) \in Entry
    BY <1>4, <1>7, ArrivedEntry
  <2>2. cache'[k] = Arrived(cache[k], k) /\ owed' = owed /\ version' = version
    BY <1>1, <1>7, <2>1, TouchTyped
  <2>3. cache'[k].rows.version = cache[k].fetch.version /\ cache'[k].fetch = Null
    BY <1>4, <1>7, <2>2, ArrivedEntry
  <2>4. PaysEntry(k)'
    BY <1>4, <1>7, <2>2, <2>3 DEF PaysEntry, Settled
  <2> QED BY <1>6, <1>7, <2>1, <2>4
<1>8. CASE cache[k].fetch # Null /\ Touch(k, Failed(cache[k], cookie))
  <2>1. Failed(cache[k], cookie) \in Entry
    BY <1>4, <1>8, FailedEntry
  <2>2. cache'[k] = Failed(cache[k], cookie) /\ owed' = owed /\ version' = version
    BY <1>1, <1>8, <2>1, TouchTyped
  <2>3. \/ cache'[k].fetch # Null /\ cache'[k].fetch.got = "sent"
        \/ cache'[k].fetch = Null /\ cache'[k].failed
    BY <1>4, <1>8, <2>2, FailedEntry
  <2>4. PaysEntry(k)'
    BY <1>4, <2>2, <2>3 DEF PaysEntry, Settled
  <2> QED BY <1>6, <1>8, <2>1, <2>4
<1>9. CASE cache[k].rows # Null /\ Touch(k, [cache[k] EXCEPT !.stale = TRUE])
  <2> DEFINE d == [cache[k] EXCEPT !.stale = TRUE]
  <2>1. d \in Entry /\ d.rows = cache[k].rows /\ d.fetch = cache[k].fetch
        /\ d.failed = cache[k].failed /\ d.stale
    BY <1>4 DEF Entry
  <2> HIDE DEF d
  <2>2. cache'[k] = d /\ owed' = owed /\ version' = version
    BY <1>1, <1>9, <2>1, TouchTyped DEF d
  <2>3. PaysEntry(k)'
    BY <1>3, <1>4, <2>1, <2>2 DEF PaysEntry, Settled
  <2> QED BY <1>6, <1>9, <2>1, <2>3 DEF d
<1>10. CASE k \notin Shown /\ Touch(k, NoEntry)
  <2>1. cache'[k] = NoEntry /\ owed' = owed /\ version' = version
    BY <1>1, <1>10, NoEntryTyped, TouchTyped
  <2>2. PaysEntry(k)'
    BY <1>4, <2>1, NoEntryTyped DEF PaysEntry, Settled
  <2> QED BY <1>6, <1>10, <2>2, NoEntryTyped
<1>11. CASE k \in Shown /\ cache[k].fetch = Null /\ Touch(k, Fetching(cache[k], cookie))
  <2>1. Fetching(cache[k], cookie) \in Entry
    BY <1>4, FetchingEntry
  <2>2. cache'[k] = Fetching(cache[k], cookie) /\ owed' = owed /\ version' = version
    BY <1>1, <1>11, <2>1, TouchTyped
  <2>3. cache'[k].fetch # Null /\ cache'[k].fetch.got = "sent"
    BY <1>4, <2>2, FetchingEntry
  <2>4. PaysEntry(k)'
    BY <1>4, <2>2, <2>3, SentPays DEF PaysEntry
  <2> QED BY <1>6, <1>11, <2>1, <2>4
<1> QED BY <1>5, <1>7, <1>8, <1>9, <1>10, <1>11, QuerySteps

\* The action that was accepted: what its page is owed, it asks for again.
LEMMA AcknowledgedPays ==
  ASSUME TypeOK, DebtsInv, NEW a \in DOMAIN change, Acknowledged(a)
  PROVE  DebtsInv'
<1> DEFINE c    == change[a]
           keys == {QueryKey(r, c.arg) : r \in Mutation[a].refreshes}
           owes == {QueryKey(r, c.at) : r \in IF c.arg = c.at THEN Promised(a) ELSE {}}
<1>1. CacheTypeOK /\ CacheTypeOK' /\ UNCHANGED <<focus, version, sessionVars>>
  BY AcknowledgedTyped DEF TypeOK
<1>2. DOMAIN cache' = DOMAIN cache /\ DOMAIN owed = DOMAIN cache /\ SameScreen
  BY <1>1 DEF CacheTypeOK, sessionVars, SameScreen
<1>3. Shown' = Shown
  BY <1>2, ShownAgain
<1>4. owes \subseteq keys
  <2>1. a \in ActName
    BY DEF TypeOK, ActionTypeOK
  <2> QED BY <2>1, PromisesAreRefreshed
<1>5. /\ cache' = [k \in DOMAIN cache |-> IF k \in keys THEN Invalidated(cache[k], k \in Shown, cookie)
                                                        ELSE cache[k]]
      /\ owed' = [k \in DOMAIN owed |-> IF k \in owes /\ Supersedes(cache[k], k \in Shown)
                                        THEN version[k] ELSE owed[k]]
  BY DEF Acknowledged
<1> HIDE DEF keys, owes
<1> SUFFICES ASSUME NEW k \in DOMAIN cache PROVE PaysEntry(k)'
  BY <1>2 DEF DebtsInv
<1>6. /\ cache[k] \in Entry /\ cookie \in Someone /\ PaysEntry(k)
      /\ version[k] \in Nat /\ owed[k] \in Nat /\ version' = version
  BY <1>1, EntryNumbers DEF TypeOK, SessionTypeOK, Someone, DebtsInv
<1>7. CASE k \notin keys
  <2>1. cache'[k] = cache[k] /\ owed'[k] = owed[k]
    BY <1>2, <1>4, <1>5, <1>7
  <2> QED BY <1>3, <1>6, <2>1, KeptPays
<1>8. CASE k \in keys
  <2>1. cache'[k] = Invalidated(cache[k], k \in Shown, cookie)
    BY <1>5, <1>8
  <2>2. \/ owed'[k] = owed[k]
        \/ /\ owed'[k] = version[k]
           /\ cache[k].fetch = Null \/ (k \in Shown /\ cache[k].rows # Null)
    BY <1>2, <1>5 DEF Supersedes
  <2>3. owed'[k] <= version'[k]
    BY <1>6, <2>2 DEF PaysEntry
  <2>4. CASE /\ k \in Shown /\ (cache[k].fetch = Null \/ cache[k].rows # Null)
             /\ cache'[k].fetch # Null /\ cache'[k].fetch.got = "sent"
    BY <2>3, <2>4, SentPays
  <2>5. CASE /\ k \notin Shown \/ (cache[k].fetch # Null /\ cache[k].rows = Null)
             /\ cache'[k].stale /\ cache'[k].failed = cache[k].failed /\ cache'[k].fetch = cache[k].fetch
             /\ cache'[k].rows = cache[k].rows
    BY <1>3, <1>6, <2>2, <2>3, <2>5 DEF PaysEntry, Settled
  <2> QED BY <1>6, <2>1, <2>4, <2>5, InvalidatedEntry
<1> QED BY <1>7, <1>8

LEMMA InitPays == Init => DebtsInv
<1> SUFFICES ASSUME Init PROVE DebtsInv
  OBVIOUS
<1>1. TypeOK
  BY InitTab
<1>2. PICK p \in focus \cap Path, ck \in (focus \cap User) \cup IF "signin" \in focus THEN {Null} ELSE {} :
        Load(p, ck)
  BY DEF Init, SessionInit
<1>3. ck \in Someone
  BY DEF Someone
<1> SUFFICES ASSUME NEW k \in DOMAIN cache PROVE PaysEntry(k)
  BY DEF DebtsInv
<1>4. owed[k] = version[k] /\ owed[k] = 0
  BY <1>1, EntryNumbers DEF Init, CacheInit
<1>5. cache[k] = NoEntry \/ cache[k] = Mounted(NoEntry, ck)
  BY <1>2 DEF Load
<1>6. CASE cache[k] = NoEntry
  BY <1>4, <1>6, NoEntryTyped DEF PaysEntry, Settled
<1>7. CASE cache[k] = Mounted(NoEntry, ck)
  <2>1. cache[k].fetch # Null /\ cache[k].fetch.got = "sent"
    BY <1>3, <1>7, NoEntryTyped, MountedEntry
  <2> QED BY <1>4, <2>1 DEF PaysEntry, Settled
<1> QED BY <1>5, <1>6, <1>7

\* A step that leaves the entries, the debts and the screen alone, and lets versions grow.
LEMMA GrowingPays ==
  ASSUME TypeOK, DebtsInv, UNCHANGED <<cache, owed, page, user, biz, loading>>,
         \A k \in DOMAIN cache : version'[k] \in Nat /\ version[k] <= version'[k]
  PROVE  DebtsInv'
<1>1. Shown' = Shown
  BY ShownAgain DEF SameScreen
<1> SUFFICES ASSUME NEW k \in DOMAIN cache PROVE PaysEntry(k)'
  BY DEF DebtsInv
<1>2. PaysEntry(k) /\ version'[k] \in Nat /\ version[k] <= version'[k]
  BY DEF DebtsInv
<1> QED BY <1>1, <1>2, KeptPays

LEMMA UnchangedPays ==
  ASSUME TypeOK, DebtsInv, UNCHANGED <<cacheVars, page, user, biz, loading>>
  PROVE  DebtsInv'
<1>1. \A k \in DOMAIN cache : version'[k] \in Nat /\ version[k] <= version'[k]
  BY EntryNumbers DEF cacheVars
<1> QED BY <1>1, GrowingPays DEF cacheVars

LEMMA HandledPays ==
  ASSUME TypeOK, DebtsInv, NEW a \in DOMAIN change, HandleAction(a)
  PROVE  DebtsInv'
<1>1. UNCHANGED <<cache, owed, page, user, biz, loading>>
  BY DEF HandleAction, sessionVars
<1>2. version' = version \/ \E keys : version' = Changed(keys)
  BY DEF HandleAction
<1>3. ASSUME NEW k \in DOMAIN cache PROVE version'[k] \in Nat /\ version[k] <= version'[k]
  <2>1. version[k] \in Nat /\ k \in KeysOf(focus) /\ CacheTypeOK
    BY EntryNumbers DEF TypeOK
  <2>2. CASE version' = version
    BY <2>1, <2>2
  <2>3. ASSUME NEW keys, version' = Changed(keys) PROVE version'[k] \in Nat /\ version[k] <= version'[k]
    BY <2>1, <2>3, ChangedVersions
  <2> QED BY <1>2, <2>2, <2>3
<1> QED BY <1>1, <1>3, GrowingPays

LEMMA StepPays ==
  ASSUME TypeOK, DebtsInv, [Next]_vars
  PROVE  DebtsInv'
<1>1. CASE SessionStep
  <2>1. CASE Renders /\ Remembers
    BY <2>1, RenderPays DEF Remembers
  <2>2. CASE SignOut \/ CookieEnds
    BY <2>2, UnchangedPays DEF SignOut, CookieEnds, cacheVars
  <2> QED BY <1>1, <2>1, <2>2, ReloadPays, SessionSteps
<1>2. CASE ActionStep
  <2>1. ASSUME NEW a \in DOMAIN change, NEW choice \in Choice(a), Ask(a, choice) PROVE DebtsInv'
    BY <2>1, UnchangedPays DEF Ask, sessionVars
  <2>2. ASSUME NEW a \in DOMAIN change, Rejected(a) PROVE DebtsInv'
    BY <2>2, UnchangedPays DEF Rejected, sessionVars
  <2> QED BY <1>2, <2>1, <2>2, HandledPays, AcknowledgedPays DEF ActionStep, Dealt
<1>3. CASE WizardStep \/ UNCHANGED vars
  BY <1>3, WizardStepUnchanged, UnchangedPays DEF vars, sessionVars
<1> QED BY <1>1, <1>2, <1>3, QueryPays DEF Next

\* Through any race of an action's answer with the reads of its page, a page that was
\* left and opened again within its stale time included: where an accepted action was to
\* refresh what its page shows, the page never settles on rows older than the action.
THEOREM OwnChangesShown == Spec => []ShowsOwnChanges
<1>1. TypeOK /\ DebtsInv => ShowsOwnChanges
  <2> SUFFICES ASSUME DebtsInv, NEW k \in Shown, Settled(k)
               PROVE  cache[k].rows.version >= owed[k]
    BY DEF ShowsOwnChanges
  <2>1. k \in DOMAIN cache
    BY DEF Shown
  <2> QED BY <2>1 DEF DebtsInv, PaysEntry
<1>2. TypeOK /\ DebtsInv /\ [Next]_vars => DebtsInv'
  BY StepPays
<1> QED BY <1>1, <1>2, InitPays, WebTyped, PTL DEF Spec
-----------------------------------------------------------------------------
(* What a page shows of an earlier user it found fresh.                    *)

\* A read that the server does not answer to everyone has an observer only when
\* someone is on the screen.
LEMMA ObservedPrivate ==
  ASSUME NEW p \in Path, NEW u, NEW b, NEW l, NEW k \in Observed(p, u, b, l), k[1] \notin PublicReads
  PROVE  ~l /\ u # Null
<1>1. CASE Protected(p) /\ ~l /\ u # Null
  BY <1>1
<1>2. CASE ~(Protected(p) /\ ~l /\ u # Null)
  <2>1. PICK r \in Screen[p].reads : Visible(p, u, b, l) /\ k = QueryKey(r, b)
    BY <1>2 DEF Observed
  <2>2. k[1] = r
    BY <2>1 DEF QueryKey
  <2>3. Protected(p)
    BY <2>1, <2>2, PublicPages
  <2> QED BY <2>1, <2>3 DEF Visible
<1> QED BY <1>1, <1>2

\* An entry that was not found fresh or on its way, but asked for while its page was on
\* the screen: the request and the rows are those of the one on the screen, or nobody's.
OwnEntry(k) ==
  LET e == cache[k] IN
  ~e.kept => /\ e.fetch # Null => e.fetch.as \in {user, Null}
             /\ Settled(k) => e.rows.by \in {user, Null}

\* Rows that everyone may read are nobody's.
PublicRows ==
  \A k \in DOMAIN cache : k[1] \in PublicReads /\ cache[k].rows # Null => cache[k].rows.by = Null

\* A form that was submitted covers the screen until it is answered.
FormsLoad == ~crossed => (auth.signIn # NoSignIn => loading)

OwnEntries == ~crossed => \A k \in Shown : k[1] \notin PublicReads => OwnEntry(k)

LeftInv == PublicRows /\ FormsLoad /\ OwnEntries

\* Someone is on the screen with a read of his own, and the cookie is his or none.
LEMMA ShownPrivate ==
  ASSUME TypeOK, SessionInv, ~crossed, NEW k \in Shown, k[1] \notin PublicReads
  PROVE  ~loading /\ user # Null /\ cookie \in {user, Null}
<1>1. page \in Path /\ k \in Observed(page, user, biz, loading)
  BY DEF TypeOK, SessionTypeOK, Shown
<1>2. ~loading /\ user # Null
  BY <1>1, ObservedPrivate
<1> QED BY <1>2 DEF SessionInv, Own

LEMMA InitLeft == Init => LeftInv
<1> SUFFICES ASSUME Init PROVE LeftInv
  OBVIOUS
<1>1. PICK p \in focus \cap Path, ck \in (focus \cap User) \cup IF "signin" \in focus THEN {Null} ELSE {} :
        Load(p, ck)
  BY DEF Init, SessionInit
<1>2. ck \in Someone /\ user = Null /\ page \in Path /\ auth.signIn = NoSignIn
  BY <1>1, RestoringCalls DEF Someone, Load
<1>3. \A k \in DOMAIN cache : cache[k] \in {NoEntry, Mounted(NoEntry, ck)}
  BY <1>1 DEF Load
<1>4. \A k \in DOMAIN cache : cache[k].rows = Null
  BY <1>2, <1>3, NoEntryTyped, MountedEntry
<1>5. \A k \in Shown : k[1] \in PublicReads
  BY <1>2, ObservedPrivate DEF Shown
<1> QED BY <1>2, <1>4, <1>5 DEF LeftInv, PublicRows, FormsLoad, OwnEntries

\* A step of the session other than a new document: the one on the screen stays or goes,
\* or the screen was empty or covered before; and a form that waits goes on covering it.
LEMMA SessionKeeps ==
  ASSUME TypeOK, SessionInv, FormsLoad, SessionStep, ~crossed'
  PROVE  \/ \E p \in Path : Reload(p)
         \/ /\ ~crossed
            /\ user' \in {user, Null} \/ user = Null \/ loading
            /\ auth'.signIn # NoSignIn => loading'
<1> USE Nobody DEF FormsLoad
<1>0. auth \in Calls
  BY DEF SessionInv
<1>1. CASE RestoreSession \/ RestoreFails
  <2>1. auth.me # "none" /\ crossed' = crossed /\ auth'.signIn = auth.signIn
    BY <1>0, <1>1 DEF RestoreSession, RestoreFails, Calls
  <2>2. user = Null /\ auth.signIn = NoSignIn
    BY <2>1 DEF SessionInv, Own
  <2> QED BY <1>0, <2>1, <2>2 DEF Calls
<1>2. ASSUME NEW u \in User, NEW silent \in BOOLEAN, SubmitForm(u, silent)
      PROVE  ~crossed /\ user' = user /\ loading'
  BY <1>2 DEF SubmitForm, Render
<1>3. CASE SignedIn
  <2>1. auth.signIn.who # Null /\ crossed' = crossed /\ auth' = [auth EXCEPT !.signIn = NoSignIn]
    BY <1>3 DEF SignedIn
  <2>2. loading
    BY <2>1 DEF NoSignIn
  <2> QED BY <1>0, <2>1, <2>2 DEF Calls
<1>4. CASE SignInFails
  <2>1. crossed' = crossed /\ auth' = [auth EXCEPT !.signIn = NoSignIn] /\ user' = user
    BY <1>4, RenderShows DEF SignInFails
  <2> QED BY <1>0, <2>1 DEF Calls
<1>5. CASE SignedOut
  <2>1. crossed' = crossed /\ auth' = [auth EXCEPT !.out = FALSE] /\ user' = Null /\ loading' = loading
    BY <1>5 DEF SignedOut, Render
  <2> QED BY <1>0, <2>1 DEF Calls
<1>6. ASSUME NEW p \in Path, Go(p)
      PROVE  crossed' = crossed /\ user' = user /\ auth' = auth /\ loading' = loading
  BY <1>6 DEF Go, Render
<1>7. ASSUME NEW b \in Business, SwitchBusiness(b)
      PROVE  crossed' = crossed /\ user' = user /\ auth' = auth /\ loading' = loading
  BY <1>7 DEF SwitchBusiness, Render, TypeOK, SessionTypeOK
<1>8. CASE SignOut
  <2>1. crossed' = crossed /\ auth' = [auth EXCEPT !.out = TRUE] /\ user' = user /\ loading' = loading
    BY <1>8, Zenon DEF SignOut
  <2> QED BY <1>0, <2>1 DEF Calls
<1>9. CASE CookieEnds
  BY <1>9 DEF CookieEnds
<1> QED
  BY <1>1, <1>2, <1>3, <1>4, <1>5, <1>6, <1>7, <1>8, <1>9
  DEF SessionStep, Following, RestoreEnds, SignInEnds

\* A render asks with the cookie of the one on the screen.
LEMMA RenderLeft ==
  ASSUME TypeOK, SessionInv, SessionInv', LeftInv, Renders, ~crossed', ~crossed, page' \in Path,
         user' \in {user, Null} \/ user = Null \/ loading
  PROVE  OwnEntries'
<1> PICK p \in Path, u \in Someone, b \in Somewhere, l \in BOOLEAN, ck \in Someone :
      Render(p, u, b, l, cache, ck)
  BY DEF Renders
<1> SUFFICES ASSUME NEW k \in Shown', k[1] \notin PublicReads PROVE OwnEntry(k)'
  BY DEF OwnEntries
<1>1. k \in DOMAIN cache /\ cache[k] \in Entry /\ cookie' = ck
  BY EntryNumbers DEF Render, Shown
<1>2. user' # Null /\ cookie' \in {user', Null}
  <2>1. k \in Observed(page', user', biz', loading')
    BY DEF Shown
  <2>2. user' # Null
    BY <2>1, ObservedPrivate
  <2> QED BY <2>2 DEF SessionInv, Own
<1>3. CASE cache'[k] = cache[k] /\ k \in Shown
  <2>1. user' = user
    BY <1>2, <1>3, ShownPrivate
  <2>2. OwnEntry(k)
    BY <1>3 DEF LeftInv, OwnEntries
  <2> QED BY <1>3, <2>1, <2>2 DEF OwnEntry, Settled
<1>4. CASE cache'[k] = Mounted(cache[k], ck)
  <2>1. CASE cache'[k].fetch # Null /\ cache'[k].fetch.as = ck
    BY <1>1, <1>2, <2>1 DEF OwnEntry, Settled
  <2>2. CASE cache'[k].kept
    BY <2>2 DEF OwnEntry
  <2> QED BY <1>1, <1>4, <2>1, <2>2, MountedEntry
<1> QED BY <1>1, <1>3, <1>4, RenderedEntry

LEMMA RenderPublic ==
  ASSUME TypeOK, LeftInv, Renders
  PROVE  PublicRows'
<1> PICK p \in Path, u \in Someone, b \in Somewhere, l \in BOOLEAN, ck \in Someone :
      Render(p, u, b, l, cache, ck)
  BY DEF Renders
<1>1. DOMAIN cache' = DOMAIN cache
  BY DEF Render
<1>2. ASSUME NEW k \in DOMAIN cache PROVE cache'[k].rows = cache[k].rows
  BY EntryNumbers, MountedEntry, RenderedEntry
<1> QED BY <1>1, <1>2 DEF LeftInv, PublicRows

LEMMA ReloadLeft ==
  ASSUME TypeOK, NEW p \in Path, Reload(p)
  PROVE  LeftInv'
<1>1. /\ user' = Null /\ page' = p /\ auth'.signIn = NoSignIn /\ cookie \in Someone
      /\ DOMAIN cache' = DOMAIN cache
      /\ \A k \in DOMAIN cache : cache'[k] \in {NoEntry, Mounted(NoEntry, cookie)}
  BY RestoringCalls DEF Reload, TypeOK, SessionTypeOK, Someone
<1>2. \A k \in DOMAIN cache : cache'[k].rows = Null
  BY <1>1, NoEntryTyped, MountedEntry
<1>3. \A k \in Shown' : k[1] \in PublicReads
  BY <1>1, ObservedPrivate DEF Shown
<1> QED BY <1>1, <1>2, <1>3 DEF LeftInv, PublicRows, FormsLoad, OwnEntries

\* A step that leaves the screen and the session alone is judged entry by entry.
LEMMA EntriesLeft ==
  ASSUME LeftInv, UNCHANGED sessionVars, DOMAIN cache' = DOMAIN cache,
         \A k \in DOMAIN cache : k[1] \in PublicReads /\ cache'[k].rows # Null => cache'[k].rows.by = Null,
         ~crossed => \A k \in Shown : k[1] \notin PublicReads => OwnEntry(k)'
  PROVE  LeftInv'
<1>1. Shown' = Shown
  BY ShownAgain DEF SameScreen, sessionVars
<1> QED BY <1>1 DEF LeftInv, PublicRows, FormsLoad, OwnEntries, sessionVars

\* An entry whose request and rows are as before, or whose request is sent anew with the
\* cookie of the one on the screen.
LEMMA SameLeft ==
  ASSUME NEW k, OwnEntry(k), UNCHANGED user, cache'[k].kept = cache[k].kept,
         cache'[k].fetch = cache[k].fetch, cache'[k].rows = cache[k].rows,
         cache'[k].failed = cache[k].failed
  PROVE  OwnEntry(k)'
BY DEF OwnEntry, Settled

LEMMA SentLeft ==
  ASSUME NEW k, UNCHANGED user, cookie \in {user, Null},
         cache'[k].fetch # Null, cache'[k].fetch.as = cookie
  PROVE  OwnEntry(k)'
BY DEF OwnEntry, Settled

LEMMA QueryLeft ==
  ASSUME TypeOK, SessionInv, LeftInv, QueryStep
  PROVE  LeftInv'
<1> PICK k \in DOMAIN cache : Read(k) \/ Age(k) \/ Collected(k) \/ Refetch(k)
  BY DEF QueryStep
<1>1. CacheTypeOK /\ CacheTypeOK' /\ focus' = focus /\ UNCHANGED sessionVars
  BY QueryStepTyped DEF TypeOK
<1>2. DOMAIN cache' = DOMAIN cache /\ user' = user
  BY <1>1 DEF CacheTypeOK, sessionVars
<1>3. cache[k] \in Entry /\ cookie \in Someone
  BY EntryNumbers DEF TypeOK, SessionTypeOK, Someone
<1>4. ASSUME \A j \in DOMAIN cache : j # k => cache'[j] = cache[j],
             k[1] \in PublicReads /\ cache'[k].rows # Null => cache'[k].rows.by = Null,
             (~crossed /\ k \in Shown /\ k[1] \notin PublicReads /\ OwnEntry(k)) => OwnEntry(k)'
      PROVE  LeftInv'
  <2>1. \A j \in DOMAIN cache : j[1] \in PublicReads /\ cache'[j].rows # Null => cache'[j].rows.by = Null
    BY <1>4 DEF LeftInv, PublicRows
  <2>2. ASSUME ~crossed, NEW j \in Shown, j[1] \notin PublicReads PROVE OwnEntry(j)'
    <3>1. j \in DOMAIN cache /\ OwnEntry(j)
      BY <2>2 DEF Shown, LeftInv, OwnEntries
    <3> QED BY <1>2, <1>4, <2>2, <3>1, SameLeft
  <2> QED BY <1>1, <1>2, <2>1, <2>2, EntriesLeft
<1>5. k[1] \in PublicReads /\ cache[k].rows # Null => cache[k].rows.by = Null
  BY DEF LeftInv, PublicRows
<1>6. CASE HandleRead(k) /\ UNCHANGED <<sessionVars, actionVars, wizard>>
  <2>1. /\ \A j \in DOMAIN cache : j # k => cache'[j] = cache[j]
        /\ cache[k].fetch # Null
        /\ LET e == cache[k]  d == cache'[k] IN
           /\ d.rows = e.rows /\ d.kept = e.kept
           /\ d.fetch # Null /\ d.fetch.as = e.fetch.as
    BY <1>1, <1>6, HandledEntry
  <2>2. OwnEntry(k) => OwnEntry(k)'
    BY <1>2, <2>1 DEF OwnEntry, Settled
  <2> QED BY <1>4, <1>5, <2>1, <2>2
<1>7. CASE cache[k].fetch # Null /\ Touch(k, Arrived(cache[k], k))
  <2>1. Arrived(cache[k], k) \in Entry
    BY <1>3, <1>7, ArrivedEntry
  <2>2. cache'[k] = Arrived(cache[k], k) /\ \A j \in DOMAIN cache : j # k => cache'[j] = cache[j]
    BY <1>1, <1>7, <2>1, TouchTyped
  <2>3. cache'[k].rows.by = RowsBelongTo(k, cache[k].fetch.as) /\ cache'[k].kept = cache[k].kept
        /\ cache'[k].fetch = Null
    BY <1>3, <1>7, <2>2, ArrivedEntry
  <2>4. k[1] \in PublicReads => cache'[k].rows.by = Null
    BY <2>3 DEF RowsBelongTo
  <2>5. k[1] \notin PublicReads /\ OwnEntry(k) => OwnEntry(k)'
    BY <1>2, <1>7, <2>3 DEF OwnEntry, RowsBelongTo
  <2> QED BY <1>4, <2>2, <2>4, <2>5
<1>8. CASE cache[k].fetch # Null /\ Touch(k, Failed(cache[k], cookie))
  <2>1. Failed(cache[k], cookie) \in Entry
    BY <1>3, <1>8, FailedEntry
  <2>2. cache'[k] = Failed(cache[k], cookie) /\ \A j \in DOMAIN cache : j # k => cache'[j] = cache[j]
    BY <1>1, <1>8, <2>1, TouchTyped
  <2>3. /\ cache'[k].rows = cache[k].rows
        /\ \/ cache'[k].fetch # Null /\ cache'[k].fetch.as = cookie
           \/ cache'[k].fetch = Null /\ cache'[k].failed
    BY <1>3, <1>8, <2>2, FailedEntry
  <2>4. (~crossed /\ k \in Shown /\ k[1] \notin PublicReads) => OwnEntry(k)'
    <3>1. CASE cache'[k].fetch = Null /\ cache'[k].failed
      BY <3>1 DEF OwnEntry, Settled
    <3> QED BY <1>2, <2>3, <3>1, SentLeft, ShownPrivate
  <2> QED BY <1>4, <1>5, <2>2, <2>3, <2>4
<1>9. CASE Touch(k, [cache[k] EXCEPT !.stale = TRUE])
  <2> DEFINE d == [cache[k] EXCEPT !.stale = TRUE]
  <2>1. d \in Entry /\ d.rows = cache[k].rows /\ d.fetch = cache[k].fetch
        /\ d.failed = cache[k].failed /\ d.kept = cache[k].kept
    BY <1>3 DEF Entry
  <2> HIDE DEF d
  <2>2. cache'[k] = d /\ \A j \in DOMAIN cache : j # k => cache'[j] = cache[j]
    BY <1>1, <1>9, <2>1, TouchTyped DEF d
  <2>3. OwnEntry(k) => OwnEntry(k)'
    BY <1>2, <2>1, <2>2, SameLeft
  <2> QED BY <1>4, <1>5, <2>1, <2>2, <2>3
<1>10. CASE k \notin Shown /\ Touch(k, NoEntry)
  <2>1. cache'[k] = NoEntry /\ \A j \in DOMAIN cache : j # k => cache'[j] = cache[j]
    BY <1>1, <1>10, NoEntryTyped, TouchTyped
  <2> QED BY <1>4, <1>10, <2>1, NoEntryTyped
<1>11. CASE Touch(k, Fetching(cache[k], cookie))
  <2>1. Fetching(cache[k], cookie) \in Entry /\ Fetching(cache[k], cookie).rows = cache[k].rows
    <3>1. Fetching(cache[k], cookie).rows = cache[k].rows
      BY <1>3 DEF Fetching, Entry
    <3> QED BY <1>3, <3>1, FetchingEntry
  <2>2. cache'[k] = Fetching(cache[k], cookie) /\ \A j \in DOMAIN cache : j # k => cache'[j] = cache[j]
    BY <1>1, <1>11, <2>1, TouchTyped
  <2>3. cache'[k].fetch # Null /\ cache'[k].fetch.as = cookie
    BY <1>3, <2>2, FetchingEntry
  <2>4. (~crossed /\ k \in Shown /\ k[1] \notin PublicReads) => OwnEntry(k)'
    BY <1>2, <2>3, SentLeft, ShownPrivate
  <2> QED BY <1>4, <1>5, <2>1, <2>2, <2>4
<1> QED BY <1>6, <1>7, <1>8, <1>9, <1>10, <1>11, QuerySteps

\* The answer of an action has its page ask again, with the cookie of the one on it.
LEMMA AcknowledgedLeft ==
  ASSUME TypeOK, SessionInv, LeftInv, NEW a \in DOMAIN change, Acknowledged(a)
  PROVE  LeftInv'
<1> DEFINE keys == {QueryKey(r, change[a].arg) : r \in Mutation[a].refreshes}
<1>1. CacheTypeOK /\ CacheTypeOK' /\ UNCHANGED <<focus, sessionVars>>
  BY AcknowledgedTyped DEF TypeOK
<1>2. DOMAIN cache' = DOMAIN cache /\ user' = user /\ cookie \in Someone
  BY <1>1 DEF CacheTypeOK, sessionVars, TypeOK, SessionTypeOK, Someone
<1>3. cache' = [k \in DOMAIN cache |-> IF k \in keys THEN Invalidated(cache[k], k \in Shown, cookie)
                                                     ELSE cache[k]]
  BY DEF Acknowledged
<1> HIDE DEF keys
<1>4. ASSUME NEW k \in DOMAIN cache
      PROVE  /\ cache'[k].rows = cache[k].rows
             /\ \/ k \in Shown /\ cache'[k].fetch # Null /\ cache'[k].fetch.as = cookie
                \/ cache'[k].failed = cache[k].failed /\ cache'[k].fetch = cache[k].fetch
                   /\ cache'[k].kept = cache[k].kept
  <2>1. cache'[k] = cache[k] \/ cache'[k] = Invalidated(cache[k], k \in Shown, cookie)
    BY <1>3
  <2>2. cache[k] \in Entry
    BY EntryNumbers
  <2>3. CASE cache'[k] = Invalidated(cache[k], k \in Shown, cookie)
    BY <1>2, <2>2, <2>3, InvalidatedEntry
  <2> QED BY <2>1, <2>3
<1>5. \A k \in DOMAIN cache : k[1] \in PublicReads /\ cache'[k].rows # Null => cache'[k].rows.by = Null
  BY <1>4 DEF LeftInv, PublicRows
<1>6. ASSUME ~crossed, NEW k \in Shown, k[1] \notin PublicReads PROVE OwnEntry(k)'
  <2>1. k \in DOMAIN cache /\ OwnEntry(k)
    BY <1>6 DEF Shown, LeftInv, OwnEntries
  <2> QED BY <1>2, <1>4, <1>6, <2>1, SameLeft, SentLeft, ShownPrivate
<1> QED BY <1>1, <1>2, <1>5, <1>6, EntriesLeft

LEMMA UnchangedLeft ==
  ASSUME LeftInv, UNCHANGED <<cache, page, user, biz, loading, crossed>>,
         ~crossed => (auth'.signIn # NoSignIn => loading)
  PROVE  LeftInv'
<1>1. Shown' = Shown
  BY ShownAgain DEF SameScreen
<1>2. \A k \in Shown : OwnEntry(k) => OwnEntry(k)'
  BY DEF OwnEntry, Settled
<1> QED BY <1>1, <1>2 DEF LeftInv, PublicRows, FormsLoad, OwnEntries

LEMMA StepLeft ==
  ASSUME TypeOK, SessionInv, SessionInv', LeftInv, [Next]_vars
  PROVE  LeftInv'
<1>1. CASE SessionStep
  <2>1. CASE Renders /\ Remembers
    <3>1. PublicRows' /\ page' \in Path
      BY <2>1, RenderPublic, RenderTyped DEF Remembers
    <3>2. CASE ~crossed'
      <4>1. ASSUME NEW p \in Path, Reload(p) PROVE LeftInv'
        BY <4>1, ReloadLeft
      <4>2. CASE /\ ~crossed
                 /\ user' \in {user, Null} \/ user = Null \/ loading
                 /\ auth'.signIn # NoSignIn => loading'
        <5>1. OwnEntries'
          BY <2>1, <3>1, <3>2, <4>2, RenderLeft
        <5> QED BY <3>1, <4>2, <5>1 DEF LeftInv, FormsLoad
      <4> QED BY <1>1, <3>2, <4>1, <4>2, SessionKeeps DEF LeftInv
    <3>3. CASE crossed'
      BY <3>1, <3>3 DEF LeftInv, FormsLoad, OwnEntries
    <3> QED BY <3>2, <3>3
  <2>2. CASE SignOut
    <3>1. UNCHANGED <<cache, page, user, biz, loading, crossed>> /\ auth' = [auth EXCEPT !.out = TRUE]
      BY <2>2, Zenon DEF SignOut
    <3>2. auth'.signIn = auth.signIn
      BY <3>1 DEF SessionInv, Calls
    <3> QED BY <3>1, <3>2, UnchangedLeft DEF LeftInv, FormsLoad
  <2>3. CASE CookieEnds
    BY <2>3, UnchangedLeft DEF CookieEnds, LeftInv, FormsLoad
  <2> QED BY <1>1, <2>1, <2>2, <2>3, ReloadLeft, SessionSteps
<1>2. CASE UNCHANGED <<cache, sessionVars>>
  BY <1>2, UnchangedLeft DEF sessionVars, LeftInv, FormsLoad
<1>3. CASE ActionStep
  <2>1. ASSUME NEW a \in DOMAIN change, NEW choice \in Choice(a), Ask(a, choice) PROVE LeftInv'
    BY <1>2, <2>1 DEF Ask, cacheVars
  <2>2. ASSUME NEW a \in DOMAIN change, HandleAction(a) PROVE LeftInv'
    BY <1>2, <2>2 DEF HandleAction
  <2>3. ASSUME NEW a \in DOMAIN change, Rejected(a) PROVE LeftInv'
    BY <1>2, <2>3 DEF Rejected, cacheVars
  <2> QED BY <1>3, <2>1, <2>2, <2>3, AcknowledgedLeft DEF ActionStep, Dealt
<1>4. CASE WizardStep \/ UNCHANGED vars
  BY <1>2, <1>4, WizardStepUnchanged DEF vars, cacheVars
<1> QED BY <1>1, <1>3, <1>4, QueryLeft DEF Next

\* Through any sequence of users in one tab, with requests that end after the page or
\* the session they were sent from: where the session is the tab's own, a page shows rows
\* of an earlier user only if they were fresh, or on their way, when it came on the
\* screen; what it asks for itself it asks for, and gets, as the user it shows.
THEOREM LeftoversFresh == Spec => []LeftoversAreFresh
<1>1. TypeOK /\ LeftInv => LeftoversAreFresh
  <2> SUFFICES ASSUME LeftInv, NEW k \in Shown, Settled(k), ~crossed, cache[k].rows.by \notin {user, Null}
               PROVE  cache[k].kept
    BY DEF LeftoversAreFresh
  <2>1. k \in DOMAIN cache /\ cache[k].rows # Null
    BY DEF Shown, Settled
  <2>2. k[1] \notin PublicReads
    BY <2>1 DEF LeftInv, PublicRows
  <2> QED BY <2>2 DEF LeftInv, OwnEntries, OwnEntry
<1>2. TypeOK /\ SessionInv /\ SessionInv' /\ LeftInv /\ [Next]_vars => LeftInv'
  BY StepLeft
<1> QED BY <1>1, <1>2, InitLeft, WebTyped, SessionInvariant, PTL DEF Spec
=============================================================================
