-------------------------------- MODULE WebScreens --------------------------------
(***************************************************************************)
(* The routes of App.tsx and the page behind each of them: who may see it, *)
(* what it reads when it opens, and what its controls ask of the server.   *)
(* A page is a record; layout and the fields of its forms are left out. An *)
(* action names the reads whose rows it changes at the server and those    *)
(* the page refreshes (invalidates) once the server has answered.          *)
(***************************************************************************)
EXTENDS WebContracts

Page(guard, reads) == [guard |-> guard, reads |-> reads]

\* The public pages.
LandingPage == Page("public", {"platform", "features", "public-providers", "pricing", "faq"})
PublicStatusPage == Page("public", {"status"})
LoginPage        == Page("public", {})
RegisterPage     == Page("public", {})

\* The pages of every signed-in user.
ConsumerDashboard  == Page("user", {"consumer-analytics", "consumer-recent-cases"})
WhereIsMyMoneyPage == Page("user", {"providers-list"})
CaseListPage       == Page("user", {"cases-list"})
CaseDetailPage     == Page("user", {"case-detail"})
ComplaintTab       == Page("user", {"case-detail", "case-complaint"})
EvidenceVaultPage  == Page("user", {"cases-for-evidence"})
TransactionsPage   == Page("user", {"transactions-ledger"})
ProfilePage        == Page("user", {})

\* The pages of a business.
BusinessDashboard   == Page("tenant", {"business-overview", "business-cases"})
ReconciliationPage  == Page("tenant", {})
PaymentVerifyPage   == Page("tenant", {})
PaymentRequestsPage == Page("tenant", {})
BusinessTeamPage    == Page("tenant", {})
DeveloperPortalPage == Page("tenant", {"developer-keys", "developer-webhooks"})
BusinessBillingPage == Page("tenant", {"billing-plans", "billing-subscription"})

\* The pages of an administrator.
AdminDashboard     == Page("admin", {"admin-overview", "admin-providers", "admin-status"})
AdminUsersPage     == Page("admin", {"admin-users"})
AdminAuditLogsPage == Page("admin", {"admin-audit-logs"})
AdminSettingsPage  == Page("admin", {"admin-settings", "admin-feature-flags"})

Screen ==
  [landing   |-> LandingPage,       status       |-> PublicStatusPage,
   login     |-> LoginPage,         register     |-> RegisterPage,
   dashboard |-> ConsumerDashboard, wizard       |-> WhereIsMyMoneyPage,
   cases     |-> CaseListPage,      case         |-> CaseDetailPage,
   complaint |-> ComplaintTab,      evidence     |-> EvidenceVaultPage,
   transactions |-> TransactionsPage, profile    |-> ProfilePage,
   business  |-> BusinessDashboard, reconciliation |-> ReconciliationPage,
   verify    |-> PaymentVerifyPage, requests     |-> PaymentRequestsPage,
   team      |-> BusinessTeamPage,  developer    |-> DeveloperPortalPage,
   billing   |-> BusinessBillingPage, admin      |-> AdminDashboard,
   users     |-> AdminUsersPage,    audit        |-> AdminAuditLogsPage,
   settings  |-> AdminSettingsPage]

Path == DOMAIN Screen

\* DashboardLayout: the Topbar over every page that is not public.
Layout == {"notifications"}

ReadsOf(p) == Screen[p].reads \cup IF Screen[p].guard = "public" THEN {} ELSE Layout

Resource == UNION {ReadsOf(p) : p \in Path}

-----------------------------------------------------------------------------
(* Query keys and who is answered. The keys name a business or nothing,    *)
(* and never the user.                                                     *)

OverBusiness == {"business-overview", "business-cases"}
UnderBusiness == {"developer-keys", "developer-webhooks", "billing-subscription"}

\* businessId = activeBusiness?.id || 'default'.
BusinessId(b) == IF b = Null THEN "default" ELSE b

QueryKey(r, b) == <<r, IF r \in OverBusiness THEN b
                       ELSE IF r \in UnderBusiness THEN BusinessId(b) ELSE Null>>

\* enabled: the dashboard of a business waits until there is one.
Enabled(r, b) == r \in OverBusiness => b # Null

PublicReads == {"platform", "features", "public-providers", "pricing", "faq", "status",
                "providers-list", "billing-plans", "admin-status"}
AdminReads  == {"admin-users", "admin-audit-logs", "admin-settings", "admin-feature-flags"}

\* Reads whose controllers answer from memory; the others wait for a query.
FromMemory == {"platform", "features", "faq", "status", "admin-status"}

\* Whether the middleware lets a read sent with the access cookie of u through.
ReadAdmitted(key, u) ==
  LET r == key[1] IN
  /\ r \notin PublicReads => u # Null
  /\ r \in AdminReads    => AdminAdmits(u)
  /\ r \in UnderBusiness => TenantAdmits(u, key[2], Role)

\* How the server may treat it: the middleware answers its errors, the controllers leave
\* a failing query unanswered, and a case that is not found as well.
ReadOutcomes(key, u) ==
  IF ~ReadAdmitted(key, u) THEN {"refused"}
  ELSE IF key[1] \in FromMemory THEN {"rows"}
  ELSE IF key[1] = "case-detail" /\ ~MayReadCase(u) THEN {"silent"}
  ELSE {"rows", "silent"}

\* Whose rows they are: those of the public reads are nobody's.
RowsBelongTo(key, u) == IF key[1] \in PublicReads THEN Null ELSE u

-----------------------------------------------------------------------------
(* What the controls of a page ask for.                                    *)

Act(on, writes, refreshes) == [on |-> on, writes |-> writes, refreshes |-> refreshes]

CaseReads == {"case-detail", "cases-list", "cases-for-evidence", "consumer-recent-cases",
              "business-cases"}

escalateMutation      == Act("case", CaseReads, {"case-detail"})
statusMutation        == Act("case", CaseReads, {"case-detail"})
handleUploadEvidence  == Act("case", {"case-detail"}, {"case-detail"})
handleTriggerOcr      == Act("case", {"case-detail"}, {"case-detail"})
handleUpload          == Act("evidence", {"case-detail"}, {})
\* Mutant: the new key is stored and the list is not asked for again.
CreateKeyUnseen == Act("developer", {"developer-keys"}, {})
createKeyMutation     == Act("developer", {"developer-keys"}, {"developer-keys"})
revokeKeyMutation     == Act("developer", {"developer-keys"}, {"developer-keys"})
createWebhookMutation == Act("developer", {"developer-webhooks"}, {"developer-webhooks"})
testWebhookMutation   == Act("developer", {"developer-webhooks"}, {})
userStatusMutation    == Act("users", {"admin-users", "admin-audit-logs"}, {"admin-users"})
flagMutation          == Act("settings", {"admin-feature-flags"}, {"admin-feature-flags"})
subscribeMutation     == Act("billing", {}, {})
paymentRequestMutation == Act("requests", {}, {})
verifyMutation        == Act("verify", {}, {})
uploadMutation        == Act("reconciliation", {}, {})
manualMutation        == Act("reconciliation", {}, {})
contactMutation       == Act("landing", {}, {})

Mutation ==
  [escalate |-> escalateMutation, updateStatus |-> statusMutation,
   attach |-> handleUploadEvidence, ocr |-> handleTriggerOcr, store |-> handleUpload,
   createKey |-> createKeyMutation, revokeKey |-> revokeKeyMutation,
   createWebhook |-> createWebhookMutation, testWebhook |-> testWebhookMutation,
   userStatus |-> userStatusMutation, flag |-> flagMutation,
   subscribe |-> subscribeMutation, paymentRequest |-> paymentRequestMutation,
   verifyPayment |-> verifyMutation, csv |-> uploadMutation, manual |-> manualMutation,
   contact |-> contactMutation]

ActName == DOMAIN Mutation

\* isStaff, and the tabs of the developer portal that show their controls to everyone.
\* That an escalated or closed case disables the escalation is left out: any may be asked for.
Offered(a, u) == a = "updateStatus" => RoleOf(u) \in Staff

UnderKeyRoles == {"createKey", "revokeKey", "createWebhook", "testWebhook"}
UnderTenant   == {"subscribe", "paymentRequest", "verifyPayment", "csv", "manual"}
UnderAdmin    == {"userStatus", "flag"}

\* What the form leaves to choose: a target of the escalation, a case to link a file to.
Choice(a) ==
  CASE a = "escalate" -> OfferedTarget
    [] a = "store"    -> {CaseOwner, Null}
    [] OTHER          -> {Null}

\* Whether the routes and schemas let an action of u on business b through.
Admitted(a, u, b, choice) ==
  /\ a # "contact" => u # Null
  /\ CASE a \in UnderKeyRoles -> TenantAdmits(u, b, KeyRoles)
       [] a \in UnderTenant   -> TenantAdmits(u, b, Role)
       [] a \in UnderAdmin    -> AdminAdmits(u)
       [] a = "updateStatus"  -> RoleOf(u) \in StatusRoles
       [] a = "escalate"      -> choice \in EscalationTarget
       [] OTHER               -> TRUE

\* What may come of it: an error thrown in a controller is never answered, and texts
\* of free form may not pass a schema.
Outcomes(a, u, b, choice) ==
  IF ~Admitted(a, u, b, choice) THEN {"refused"}
  ELSE IF a = "store" /\ ~UploadNamesCase(choice) THEN {"silent"}
  ELSE {"stored", "refused", "silent"}
=============================================================================
