-------------------------------- MODULE WebSession --------------------------------
(***************************************************************************)
(* The tab: AuthContext, the guards of the routes, what is on the screen,  *)
(* and the browser's access cookie. A page that comes on the screen mounts *)
(* its queries; one that leaves it takes its local state along, while its  *)
(* requests go on.                                                         *)
(***************************************************************************)
EXTENDS QueryCache

CONSTANTS
  MaxSignIns, \* bound: sign-ins sent
  MaxLoads    \* bound: page loads after the first

ASSUME SessionAssumption == MaxSignIns \in Nat /\ MaxLoads \in Nat

VARIABLES
  user,      \* who AuthContext says is signed in
  profile,   \* whether that came from /auth/me, with the memberships the Topbar lists
  biz,       \* activeBusiness
  loading,   \* isLoading
  page,      \* the path
  from,      \* the path a guard redirected to the login page from
  cookie,    \* whose access cookie the browser holds
  auth,      \* the calls to /auth in flight
  signIns, loads,
  crossed    \* history: a sign-in was sent before the call that restores a session ended

sessionVars == <<user, profile, biz, loading, page, from, cookie, auth, signIns, loads, crossed>>

NoSignIn == [who |-> Null, form |-> "login", silent |-> FALSE]

\* me and mute: whose cookie went with /auth/me, and whether the server leaves it unanswered.
Calls == [me : {"none"} \cup User \cup {Null}, mute : BOOLEAN,
          signIn : [who : User \cup {Null}, form : {"login", "register"}, silent : BOOLEAN],
          out : BOOLEAN]

SessionTypeOK ==
  /\ user \in User \cup {Null} /\ profile \in BOOLEAN
  /\ biz \in Business \cup {Null}
  /\ loading \in BOOLEAN
  /\ page \in Path /\ from \in Path \cup {Null}
  /\ cookie \in User \cup {Null}
  /\ auth \in Calls
  /\ signIns \in 0..MaxSignIns /\ loads \in 0..MaxLoads
  /\ crossed \in BOOLEAN

-----------------------------------------------------------------------------
(* What is on the screen.                                                  *)

Protected(p) == Screen[p].guard # "public"

\* ProtectedRoute, RoleGuard and TenantGuard.
Visible(p, u, b, l) ==
  \/ ~Protected(p)
  \/ /\ ~l /\ u # Null
     /\ Screen[p].guard = "admin"  => RoleOf(u) \in AdminRoles
     /\ Screen[p].guard = "tenant" => b # Null \/ RoleOf(u) = "SUPER_ADMIN"

\* The keys that have an observer. The Topbar is there when a guard inside the layout refuses.
Observed(p, u, b, l) ==
  {QueryKey(r, b) : r \in {r \in Screen[p].reads : Visible(p, u, b, l) /\ Enabled(r, b)}}
  \cup IF Protected(p) /\ ~l /\ u # Null THEN {QueryKey(r, b) : r \in Layout} ELSE {}

Shown == Observed(page, user, biz, loading) \cap DOMAIN cache

\* A case page draws its tabs and controls once it has the case.
Drawn == \A k \in Shown : k[1] = "case-detail" => cache[k].rows # Null

\* The tab of a page is not part of its path.
Location(p) == IF p = "complaint" THEN "case" ELSE p

\* The tab renders with this state, and the entries c: the keys that come on the screen
\* are mounted, with requests that carry the cookie of ck.
Render(p, u, b, l, c, ck) ==
  LET q    == IF Protected(p) /\ ~l /\ u = Null THEN "login" ELSE p
      come == Observed(q, u, b, l) \ Observed(page, user, biz, loading)
  IN /\ user' = u /\ biz' = b /\ loading' = l /\ page' = q /\ cookie' = ck
     /\ from' = IF q # p THEN Location(p) ELSE IF q = page THEN from ELSE Null
     /\ cache' = [k \in DOMAIN c |-> IF k \in come THEN Mounted(c[k], ck) ELSE c[k]]
     /\ UNCHANGED <<focus, version>>

NoCalls == [me |-> "none", mute |-> FALSE, signIn |-> NoSignIn, out |-> FALSE]

\* refreshUser asks for /auth/me. A profile that getMe does not find, or whose query fails,
\* is a rejection nobody catches, and is never answered; without a cookie it is refused.
Restoring(ck) ==
  {[NoCalls EXCEPT !.me = ck, !.mute = mute] : mute \in IF ck = Null THEN {FALSE} ELSE BOOLEAN}

\* A document is loaded: refreshUser is the first thing that AuthProvider does.
Load(p, ck) ==
  /\ user = Null /\ profile = FALSE /\ biz = Null /\ loading = TRUE
  /\ page = p /\ from = Null /\ cookie = ck
  /\ auth \in Restoring(ck)
  /\ crossed = FALSE
  /\ cache = [k \in KeysOf(focus) |-> IF k \in Observed(p, Null, Null, TRUE)
                                      THEN Mounted(NoEntry, ck) ELSE NoEntry]

SessionInit ==
  /\ signIns = 0 /\ loads = 0
  /\ \E p \in focus \cap Path, ck \in (focus \cap User) \cup IF "signin" \in focus THEN {Null} ELSE {} :
       Location(p) = p /\ Load(p, ck)

Reload(p) ==
  /\ "reload" \in focus /\ p \in focus /\ Location(p) = p
  /\ loads < MaxLoads
  /\ loads' = loads + 1
  /\ user' = Null /\ profile' = FALSE /\ biz' = Null /\ loading' = TRUE
  /\ page' = p /\ from' = Null
  /\ auth' \in Restoring(cookie)
  /\ crossed' = FALSE
  /\ cache' = [k \in DOMAIN cache |-> IF k \in Observed(p, Null, Null, TRUE)
                                      THEN Mounted(NoEntry, cookie) ELSE NoEntry]
  /\ owed' = [k \in DOMAIN owed |-> 0]
  /\ UNCHANGED <<focus, version, cookie, signIns>>

-----------------------------------------------------------------------------
(* AuthContext.                                                            *)

\* Mutant: without one the placeholder of the query keys is taken.
FirstOrDefault(u, b) == IF BusinessesOf(u) = {} THEN {BusinessId(Null)} ELSE BusinessesOf(u)

\* The first business of a list; without one activeBusiness stays what it was.
FirstBusiness(u, b) == IF BusinessesOf(u) = {} THEN {b} ELSE BusinessesOf(u)

\* refreshUser: the profile arrives.
RestoreSession ==
  /\ auth.me \in User /\ ~auth.mute
  /\ auth' = [auth EXCEPT !.me = "none"]
  /\ profile' = TRUE
  /\ \E b \in FirstBusiness(auth.me, biz) : Render(page, auth.me, b, FALSE, cache, cookie)
  /\ UNCHANGED <<signIns, loads, crossed, owed>>

\* refreshUser: refused without a cookie, or the network fails.
RestoreFails ==
  /\ auth.me # "none"
  /\ auth.me = Null \/ "error" \in focus
  /\ auth' = [auth EXCEPT !.me = "none", !.mute = FALSE]
  /\ profile' = FALSE
  /\ Render(page, Null, Null, FALSE, cache, cookie)
  /\ UNCHANGED <<signIns, loads, crossed, owed>>

\* login and register: the form is submitted; the page may be the form of someone signed in.
SubmitForm(u, silent) ==
  /\ "signin" \in focus /\ u \in focus
  /\ page \in {"login", "register"}
  /\ auth.signIn = NoSignIn
  /\ signIns < MaxSignIns
  /\ signIns' = signIns + 1
  /\ auth' = [auth EXCEPT !.signIn = [who |-> u, form |-> page, silent |-> silent]]
  /\ crossed' = (crossed \/ auth.me # "none")
  /\ profile' = profile
  /\ Render(page, user, biz, TRUE, cache, cookie)
  /\ UNCHANGED <<loads, owed>>

\* Where the forms go then.
Home(u, form) ==
  IF form = "login" /\ from # Null THEN from
  ELSE IF form = "login" /\ RoleOf(u) \in AdminRoles THEN "admin"
  ELSE IF RoleOf(u) \in BusinessRoles THEN "business" ELSE "dashboard"

\* Mutant: the context keeps the user it has, and only the form's page goes on.
KeepUser(u) == IF user = Null THEN u ELSE user

\* The user the context takes from the answer.
TakenUser(u) == u

\* The answer sets the cookies, and the context takes the user from it.
SignedIn ==
  LET s == auth.signIn IN
  /\ s.who # Null /\ ~s.silent
  /\ auth' = [auth EXCEPT !.signIn = NoSignIn]
  /\ profile' = FALSE
  /\ \E b \in FirstBusiness(s.who, biz) :
       Render(Home(s.who, s.form), TakenUser(s.who), b, FALSE, cache, s.who)
  /\ UNCHANGED <<signIns, loads, crossed, owed>>

\* The connection of the form's request fails. A refusal is thrown in the controller and
\* never answered, so a wrong password ends like this or not at all.
SignInFails ==
  /\ auth.signIn # NoSignIn
  /\ "error" \in focus
  /\ auth' = [auth EXCEPT !.signIn = NoSignIn]
  /\ profile' = profile
  /\ Render(page, user, biz, FALSE, cache, cookie)
  /\ UNCHANGED <<signIns, loads, crossed, owed>>

\* The Sidebar's button.
SignOut ==
  /\ "signin" \in focus
  /\ Protected(page) /\ ~loading /\ user # Null
  /\ ~auth.out
  /\ auth' = [auth EXCEPT !.out = TRUE]
  /\ UNCHANGED <<focus, version, cache, owed, user, profile, biz, loading, page, from, cookie,
                 signIns, loads, crossed>>

\* logout: the tab forgets the user whether the server answered or not; the cache stays.
SignedOut ==
  /\ auth.out
  /\ auth' = [auth EXCEPT !.out = FALSE]
  /\ profile' = FALSE
  /\ \E ck \in {Null} \cup IF "error" \in focus THEN {cookie} ELSE {} :
       Render(page, Null, Null, loading, cache, ck)
  /\ UNCHANGED <<signIns, loads, crossed, owed>>

\* The access cookie ends with its fifteen minutes; no page asks for another.
CookieEnds ==
  /\ "time" \in focus /\ "signin" \in focus
  /\ cookie # Null
  /\ cookie' = Null
  /\ UNCHANGED <<focus, version, cache, owed, user, profile, biz, loading, page, from, auth,
                 signIns, loads, crossed>>

\* A link, or the history of the browser.
Go(p) ==
  /\ p \in focus /\ p # page
  /\ p = "complaint" => page = "case" /\ Drawn
  /\ profile' = profile
  /\ Render(p, user, biz, loading, cache, cookie)
  /\ UNCHANGED <<auth, signIns, loads, crossed, owed>>

\* setActiveBusinessId, from the Topbar's list of memberships.
SwitchBusiness(b) ==
  /\ "switch" \in focus
  /\ profile /\ b \in BusinessesOf(user) \ {biz}
  /\ Protected(page) /\ ~loading
  /\ profile' = profile
  /\ Render(page, user, b, FALSE, cache, cookie)
  /\ UNCHANGED <<auth, signIns, loads, crossed, owed>>
=============================================================================
