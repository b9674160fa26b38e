------------------------------- MODULE RescueWizard -------------------------------
(***************************************************************************)
(* The wizard that opens a case: four steps on one page, with a claim, a   *)
(* file for the vault, an analysis and the case itself. All of its state   *)
(* is the page's own and goes with it.                                     *)
(***************************************************************************)
EXTENDS WebActions, DisputeAnalysis

VARIABLE wizard

Request == {"none", "sent", "silent", "done"}

Suggestion == {"none"} \cup DisputeCategory
Verdict    == {"none", "BLOCK", "REVIEW", "VERIFY", "ALLOW"}

\* The field of the amount: blank, or text that Number reads as zero or as more.
AmountText == {"blank", "0", "1"}

WizardState ==
  [step : 1..4, category : WizardCategory, channel : WizardChannel, amount : AmountText,
   upload : Request, analysis : Request, submit : Request,
   suggestion : Suggestion, verdict : Verdict]

WizardTypeOK == wizard \in WizardState

Blank == [step |-> 1, category |-> "FAILED_TRANSFER", channel |-> "NIP_TRANSFER", amount |-> "blank",
          upload |-> "none", analysis |-> "none", submit |-> "none",
          suggestion |-> "none", verdict |-> "none"]

WizardInit == wizard = Blank

OnWizard == page = "wizard" /\ Visible(page, user, biz, loading)

Wizard(w) ==
  /\ OnWizard
  /\ wizard' = w
  /\ UNCHANGED <<cacheVars, sessionVars, actionVars>>

\* Step 1.
SelectCategory(c) == wizard.step = 1 /\ Wizard([wizard EXCEPT !.category = c])

\* Step 2. The fields are only checked for an amount, of any text the field takes.
FillForm(channel, amount) ==
  /\ wizard.step = 2
  /\ Wizard([wizard EXCEPT !.channel = channel, !.amount = amount])

Continue ==
  /\ wizard.step \in {1, 2}
  /\ wizard.step = 2 => wizard.amount # "blank"
  /\ Wizard([wizard EXCEPT !.step = @ + 1])

Back == wizard.step > 1 /\ Wizard([wizard EXCEPT !.step = @ - 1])

\* handleUploadEvidence: a file once registered is not sent again; no case is named.
RegisterEvidence ==
  /\ wizard.step = 3 /\ wizard.upload = "none"
  /\ Wizard([wizard EXCEPT !.upload = "sent"])

EvidenceAnswered ==
  /\ wizard.upload = "sent"
  /\ Wizard([wizard EXCEPT !.upload = IF cookie = Null THEN "none"
                                      ELSE IF UploadNamesCase(Null) THEN "done" ELSE "silent"])

\* handleRunAnalysis.
RunAnalysis ==
  /\ wizard.step = 3 /\ wizard.analysis # "sent"
  /\ Wizard([wizard EXCEPT !.analysis = "sent"])

\* What may come back: the wizard always claims a debit alert and no value, and JSON
\* brings the time as a string.
Narrated(channel) ==
  [says : {{}, {"twice"}, {"reversed"}, {"token"}, {"excess"}}, channel : {channel},
   delivered : {FALSE}, hours : {1, 24}, alerted : {TRUE}]

Suggested(channel) ==
  {ClassifyDispute(claim, known) : claim \in Narrated(channel), known \in {0, 2}}

Suspicions ==
  {Signals(claim, strangers, diff, recent) :
     claim \in [timestamp : [kind : {"string"}, future : BOOLEAN]],
     strangers \in {0, 2}, diff \in {0, 51}, recent \in {0, 5}}

Recommended == {RecommendedAction(signals) : signals \in Suspicions}

\* Both answers, or one of them an error; step 4 either way, from wherever the user is.
AnalysisAnswered ==
  /\ wizard.analysis = "sent"
  /\ \/ /\ cookie # Null
        /\ \E suggestion \in Suggested(wizard.channel), verdict \in Recommended :
             Wizard([wizard EXCEPT !.step = 4, !.analysis = "done",
                                   !.suggestion = suggestion, !.verdict = verdict])
     \/ /\ cookie = Null \/ "error" \in focus
        /\ Wizard([wizard EXCEPT !.step = 4, !.analysis = "none"])

\* handleCreateCase: whatever the analysis said.
CreateCase ==
  /\ wizard.step = 4 /\ wizard.submit # "sent"
  /\ Wizard([wizard EXCEPT !.submit = "sent"])

\* The claim as the request holds it.
Claim == [category |-> wizard.category, channel |-> wizard.channel,
          amount |-> IF wizard.amount = "1" THEN 1 ELSE 0]

\* The answer: a case, to whose page the wizard goes, or a refusal.
CaseAnswered ==
  /\ wizard.submit = "sent"
  /\ Wizard([wizard EXCEPT !.submit = IF cookie # Null /\ CreateRescueCaseSchema(Claim)
                                      THEN "done" ELSE "none"])

\* A page that leaves the screen takes its state along.
WizardFollows == wizard' = IF page' = "wizard" /\ Visible(page', user', biz', loading') THEN wizard ELSE Blank

WizardStep ==
  \/ \E c \in WizardCategory \cap focus : SelectCategory(c)
  \/ \E channel \in WizardChannel \cap focus, amount \in AmountText : FillForm(channel, amount)
  \/ Continue \/ Back
  \/ RegisterEvidence \/ EvidenceAnswered
  \/ RunAnalysis \/ AnalysisAnswered
  \/ CreateCase \/ CaseAnswered
=============================================================================
