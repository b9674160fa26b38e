--------------------------------- MODULE WebProofs --------------------------------
(***************************************************************************)
(* Theorems about WebClient, for any users, businesses, stories and        *)
(* bounds: the page and the cookie agree on who is signed in, and the      *)
(* wizard keeps its shape; and about the server's verdicts.                *)
(***************************************************************************)
EXTENDS WebClient, TLAPS

(* The wizard.                                                             *)

\* classifyDispute answers with a category of the server, whatever is claimed.
LEMMA ClassifiesWithin ==
  ASSUME NEW claim, NEW known
  PROVE  ClassifyDispute(claim, known) \in Suggestion
BY DEF ClassifyDispute, Suggestion, DisputeCategory

\* So is every suggestion the wizard can receive.
LEMMA SuggestedWithin ==
  ASSUME NEW channel, NEW suggestion \in Suggested(channel)
  PROVE  suggestion \in Suggestion
BY ClassifiesWithin DEF Suggested

\* The engine of risks recommends one of four actions.
LEMMA RecommendsWithin ==
  ASSUME NEW signals
  PROVE  RecommendedAction(signals) \in Verdict
BY DEF RecommendedAction, Verdict

\* How much each recommendation holds a claim up.
Severity == [ALLOW |-> 0, VERIFY |-> 1, REVIEW |-> 2, BLOCK |-> 3]

\* evaluateTransactionRisk decides by a sum of points and by two single signals. However
\* the two meet, a claim that raises more signals is never scored lower nor answered more
\* mildly.
THEOREM SignalsAddUp ==
  ASSUME NEW few, NEW many, few \subseteq many
  PROVE  /\ OverallScore(few) <= OverallScore(many)
         /\ Severity[RecommendedAction(few)] <= Severity[RecommendedAction(many)]
<1> DEFINE points(signals, s, n) == IF s \in signals THEN n ELSE 0
<1>1. \A s : \A n \in Nat : /\ points(few, s, n) \in Nat /\ points(many, s, n) \in Nat
                          /\ points(few, s, n) <= points(many, s, n)
  OBVIOUS
<1>2. RiskScore(few) \in Nat /\ RiskScore(many) \in Nat /\ RiskScore(few) <= RiskScore(many)
  BY <1>1 DEF RiskScore
<1>3. OverallScore(few) <= OverallScore(many)
  BY <1>2 DEF OverallScore
<1>4. Severity[RecommendedAction(few)] <= Severity[RecommendedAction(many)]
  BY <1>2 DEF RecommendedAction, Severity
<1> QED BY <1>3, <1>4

LEMMA RecommendedWithin ==
  ASSUME NEW verdict \in Recommended
  PROVE  verdict \in Verdict
BY RecommendsWithin DEF Recommended

LEMMA BlankWizard == wizard = Blank => WizardTypeOK
BY DEF Blank, WizardTypeOK, WizardState, AmountText, Request, Suggestion, Verdict,
       WizardCategory, WizardChannel

LEMMA BlankWizardNext == wizard' = Blank => WizardTypeOK'
BY DEF Blank, WizardTypeOK, WizardState, AmountText, Request, Suggestion, Verdict,
       WizardCategory, WizardChannel

\* What a step may do to the wizard: its own step, a new page, or nothing.
LEMMA WizardEffect ==
  ASSUME [Next]_vars
  PROVE  wizard' = wizard \/ wizard' = Blank \/ WizardStep
<1>1. CASE SessionStep
  <2>1. ASSUME NEW A, WizardFollows PROVE wizard' = wizard \/ wizard' = Blank
    BY <2>1 DEF WizardFollows
  <2> QED BY <1>1, <2>1 DEF SessionStep, Following, WizardFollows
<1>2. CASE QueryStep
  BY <1>2 DEF QueryStep, Read, Answered, Age, Collected, Refetch, Touch
<1>3. CASE ActionStep
  BY <1>3 DEF ActionStep, Dealt
<1>4. CASE UNCHANGED vars
  BY <1>4 DEF vars
<1> QED BY <1>1, <1>2, <1>3, <1>4 DEF Next

\* The steps of the wizard keep its shape: what the analysis answers is in it.
LEMMA WizardStepKeeps ==
  ASSUME WizardTypeOK, WizardStep
  PROVE  WizardTypeOK'
<1> USE DEF WizardTypeOK, WizardState, Wizard, Request
<1>1. ASSUME NEW c \in WizardCategory \cap focus, SelectCategory(c) PROVE WizardTypeOK'
  BY <1>1 DEF SelectCategory
<1>2. ASSUME NEW channel \in WizardChannel \cap focus, NEW amount \in AmountText,
             FillForm(channel, amount)
      PROVE  WizardTypeOK'
  BY <1>2 DEF FillForm
<1>3. CASE Continue \/ Back
  BY <1>3 DEF Continue, Back
<1>4. CASE RegisterEvidence \/ RunAnalysis \/ CreateCase
  BY <1>4 DEF RegisterEvidence, RunAnalysis, CreateCase
<1>5. CASE EvidenceAnswered
  BY <1>5 DEF EvidenceAnswered, UploadNamesCase
<1>6. CASE AnalysisAnswered
  <2>1. ASSUME NEW suggestion \in Suggested(wizard.channel), NEW verdict \in Recommended,
               Wizard([wizard EXCEPT !.step = 4, !.analysis = "done",
                                     !.suggestion = suggestion, !.verdict = verdict])
        PROVE  WizardTypeOK'
    <3>1. suggestion \in Suggestion /\ verdict \in Verdict
      BY SuggestedWithin, RecommendedWithin
    <3>2. [wizard EXCEPT !.step = 4] \in WizardState
      OBVIOUS
    <3>3. [[wizard EXCEPT !.step = 4] EXCEPT !.analysis = "done"] \in WizardState
      BY <3>2
    <3> QED BY <2>1, <3>1, <3>3
  <2>2. CASE Wizard([wizard EXCEPT !.step = 4, !.analysis = "none"])
    <3>1. [wizard EXCEPT !.step = 4] \in WizardState
      OBVIOUS
    <3> QED BY <2>2, <3>1
  <2> QED BY <1>6, <2>1, <2>2 DEF AnalysisAnswered
<1>7. CASE CaseAnswered
  BY <1>7 DEF CaseAnswered
<1> QED BY <1>1, <1>2, <1>3, <1>4, <1>5, <1>6, <1>7 DEF WizardStep

LEMMA WizardInvariant == Spec => []WizardTypeOK
<1>1. Init => WizardTypeOK
  BY BlankWizard DEF Init, WizardInit
<1>2. WizardTypeOK /\ [Next]_vars => WizardTypeOK'
  <2> SUFFICES ASSUME WizardTypeOK, [Next]_vars PROVE WizardTypeOK'
    OBVIOUS
  <2>1. CASE wizard' = wizard
    BY <2>1 DEF WizardTypeOK
  <2>2. CASE wizard' = Blank
    BY <2>2, BlankWizardNext
  <2>3. CASE WizardStep
    BY <2>3, WizardStepKeeps
  <2> QED BY <2>1, <2>2, <2>3, WizardEffect
<1> QED BY <1>1, <1>2, PTL DEF Spec

-----------------------------------------------------------------------------
(* The session.                                                            *)

\* Between page loads the cookie is that of the user on the screen, unless a sign-in
\* crossed the call that restores the session; before that call has ended nobody is on
\* the screen and nobody signs in.
Own ==
  ~crossed =>
    /\ auth.me # "none" => /\ auth.signIn = NoSignIn
                           /\ user = Null
                           /\ cookie \in {Null, auth.me}
    /\ user # Null /\ cookie # Null => user = cookie

SessionInv ==
  /\ Own
  /\ auth \in Calls
  /\ user \in User \cup {Null} /\ cookie \in User \cup {Null}

\* Nobody is called "none" and Null is nobody.
LEMMA Nobody == Null \notin User /\ "none" \notin User
BY PeopleAssumption

\* What a render leaves on the screen and in the browser.
LEMMA RenderShows ==
  ASSUME NEW p, NEW u, NEW b, NEW l, NEW c, NEW ck, Render(p, u, b, l, c, ck)
  PROVE  user' = u /\ cookie' = ck
BY DEF Render

\* The calls under way when a document has been loaded.
LEMMA RestoringCalls ==
  ASSUME NEW ck \in User \cup {Null}, NEW calls \in Restoring(ck)
  PROVE  calls \in Calls /\ calls.me = ck /\ calls.signIn = NoSignIn
<1>1. PICK mute \in BOOLEAN : calls = [NoCalls EXCEPT !.me = ck, !.mute = mute]
  BY DEF Restoring
<1>2. calls = [me |-> ck, mute |-> mute, signIn |-> NoSignIn, out |-> FALSE]
  BY <1>1, Zenon DEF NoCalls
<1>3. NoSignIn \in [who : User \cup {Null}, form : {"login", "register"}, silent : BOOLEAN]
  BY DEF NoSignIn
<1> QED BY <1>2, <1>3 DEF Calls

LEMMA InitOwn == Init => SessionInv
<1> SUFFICES ASSUME Init PROVE SessionInv
  OBVIOUS
<1>1. PICK p \in focus \cap Path, ck \in (focus \cap User) \cup IF "signin" \in focus THEN {Null} ELSE {} :
        Load(p, ck)
  BY DEF Init, SessionInit
<1>2. ck \in User \cup {Null}
  OBVIOUS
<1>3. auth \in Calls /\ auth.me = ck /\ auth.signIn = NoSignIn
  BY <1>1, <1>2, RestoringCalls DEF Load
<1> QED BY <1>1, <1>2, <1>3, Nobody DEF Load, SessionInv, Own

LEMMA SessionStepOwn ==
  ASSUME SessionInv, SessionStep
  PROVE  SessionInv'
<1> USE Nobody DEF SessionInv, Own, Calls, NoSignIn
<1>1. CASE RestoreSession
  <2>1. user' = auth.me /\ cookie' = cookie /\ auth' = [auth EXCEPT !.me = "none"] /\ auth.me \in User
        /\ crossed' = crossed
    BY <1>1, RenderShows DEF RestoreSession
  <2> QED BY <2>1
<1>2. CASE RestoreFails
  <2>1. /\ user' = Null /\ cookie' = cookie /\ crossed' = crossed
        /\ auth' = [auth EXCEPT !.me = "none", !.mute = FALSE]
    BY <1>2, RenderShows DEF RestoreFails
  <2> QED BY <2>1
<1>3. ASSUME NEW u \in User, NEW silent \in BOOLEAN, SubmitForm(u, silent) PROVE SessionInv'
  <2>1. /\ user' = user /\ cookie' = cookie /\ crossed' = (crossed \/ auth.me # "none")
        /\ auth' = [auth EXCEPT !.signIn = [who |-> u, form |-> page, silent |-> silent]]
        /\ page \in {"login", "register"}
    BY <1>3, RenderShows DEF SubmitForm
  <2> QED BY <1>3, <2>1
<1>4. CASE SignedIn
  <2>1. PICK b \in FirstBusiness(auth.signIn.who, biz) :
          Render(Home(auth.signIn.who, auth.signIn.form), auth.signIn.who, b, FALSE, cache, auth.signIn.who)
    BY <1>4, Zenon DEF SignedIn, TakenUser
  <2>2. crossed' = crossed /\ auth' = [auth EXCEPT !.signIn = NoSignIn] /\ auth.signIn.who # Null
    BY <1>4, Zenon DEF SignedIn
  <2>3. user' = auth.signIn.who /\ cookie' = auth.signIn.who
    BY <2>1, RenderShows
  <2>4. auth' \in Calls /\ auth'.me = auth.me
    BY <2>2
  <2>5. ~crossed => auth.me = "none"
    BY <2>2
  <2>6. user' \in User \cup {Null} /\ cookie' \in User \cup {Null}
    BY <2>3
  <2> QED BY <2>2, <2>3, <2>4, <2>5, <2>6
<1>5. CASE SignInFails
  <2>1. /\ user' = user /\ cookie' = cookie /\ crossed' = crossed
        /\ auth' = [auth EXCEPT !.signIn = NoSignIn]
    BY <1>5, RenderShows DEF SignInFails
  <2> QED BY <2>1
<1>6. CASE SignedOut
  <2>1. /\ user' = Null /\ cookie' \in {Null, cookie} /\ crossed' = crossed
        /\ auth' = [auth EXCEPT !.out = FALSE]
    BY <1>6, RenderShows DEF SignedOut
  <2> QED BY <2>1
<1>7. ASSUME NEW p \in Path, Go(p) PROVE SessionInv'
  <2>1. user' = user /\ cookie' = cookie /\ auth' = auth /\ crossed' = crossed
    BY <1>7, RenderShows DEF Go
  <2> QED BY <2>1
<1>8. ASSUME NEW b \in Business, SwitchBusiness(b) PROVE SessionInv'
  <2>1. user' = user /\ cookie' = cookie /\ auth' = auth /\ crossed' = crossed
    BY <1>8, RenderShows DEF SwitchBusiness
  <2> QED BY <2>1
<1>9. CASE SignOut
  BY <1>9 DEF SignOut
<1>10. CASE CookieEnds
  BY <1>10 DEF CookieEnds
<1>11. ASSUME NEW p \in Path, Reload(p) PROVE SessionInv'
  <2>1. user' = Null /\ cookie' = cookie /\ auth' \in Restoring(cookie)
    BY <1>11 DEF Reload
  <2> QED BY <2>1, RestoringCalls
<1> QED
  BY <1>1, <1>2, <1>3, <1>4, <1>5, <1>6, <1>7, <1>8, <1>9, <1>10, <1>11
  DEF SessionStep, Following, RestoreEnds, SignInEnds

LEMMA SessionInvariant == Spec => []SessionInv
<1>1. SessionInv /\ [Next]_vars => SessionInv'
  <2> SUFFICES ASSUME SessionInv, [Next]_vars PROVE SessionInv'
    OBVIOUS
  <2>1. CASE SessionStep
    BY <2>1, SessionStepOwn
  <2>2. CASE UNCHANGED sessionVars
    BY <2>2 DEF sessionVars, SessionInv, Own
  <2>3. CASE QueryStep
    BY <2>2, <2>3 DEF QueryStep, Read, Answered, Age, Collected, Refetch, Touch
  <2>4. CASE ActionStep
    BY <2>2, <2>4 DEF ActionStep, Ask, Dealt, HandleAction, Acknowledged, Rejected
  <2>5. CASE WizardStep
    BY <2>2, <2>5 DEF WizardStep, Wizard, SelectCategory, FillForm, Continue, Back, RegisterEvidence,
       EvidenceAnswered, RunAnalysis, AnalysisAnswered, CreateCase, CaseAnswered
  <2>6. CASE UNCHANGED vars
    BY <2>2, <2>6 DEF vars
  <2> QED BY <2>1, <2>3, <2>4, <2>5, <2>6 DEF Next
<1> QED BY <1>1, InitOwn, PTL DEF Spec

\* AuthContext and the cookie name the same user once the calls to /auth have ended,
\* through any sequence of sign-ins, sign-outs, lost answers and page loads, unless a
\* sign-in was sent while the session was still being restored.
THEOREM SessionsAgree == Spec => []SessionIsOwn
<1>1. SessionInv => SessionIsOwn
  BY DEF SessionInv, Own, SessionIsOwn, NoCalls
<1> QED BY <1>1, SessionInvariant, PTL
=============================================================================
