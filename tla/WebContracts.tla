------------------------------- MODULE WebContracts -------------------------------
(***************************************************************************)
(* What the pages of the web client send, and what the routes and schemas  *)
(* of the server admit. Texts of free form are left out: a request that    *)
(* may be well formed may also be refused.                                 *)
(***************************************************************************)
EXTENDS Naturals, FiniteSets

CONSTANTS
  User,        \* people who use the browser
  SuperAdmin,  \* the users with the role SUPER_ADMIN
  Owner,       \* the users with the role BUSINESS_OWNER, in every business
  Agent,       \* the users with the role BUSINESS_AGENT, in every business
  Business,    \* organisations
  CaseOwner,   \* the user who opened the case that the case screens show
  Null         \* no user, no business, no data

ASSUME PeopleAssumption ==
  /\ SuperAdmin \subseteq User /\ Owner \subseteq User /\ Agent \subseteq User
  /\ SuperAdmin \cap (Owner \cup Agent) = {} /\ Owner \cap Agent = {}
  /\ CaseOwner \in User
  /\ Null \notin User \cup Business
  /\ "none" \notin User

Role == {"USER", "BUSINESS_OWNER", "BUSINESS_ADMIN", "BUSINESS_AGENT",
         "SUPPORT_AGENT", "FRAUD_ANALYST", "ADMIN", "SUPER_ADMIN"}

RoleOf(u) ==
  CASE u \in SuperAdmin -> "SUPER_ADMIN"
    [] u \in Owner      -> "BUSINESS_OWNER"
    [] u \in Agent      -> "BUSINESS_AGENT"
    [] OTHER            -> "USER"

BusinessesOf(u) == IF u \in Owner \cup Agent THEN Business ELSE {}

AdminRoles == {"ADMIN", "SUPER_ADMIN"}

BusinessRoles == {"BUSINESS_OWNER", "BUSINESS_ADMIN", "BUSINESS_AGENT"}

-----------------------------------------------------------------------------
(* Opening a case.                                                         *)

DisputeCategory ==
  {"FAILED_SERVICE", "PENDING", "DUPLICATE", "WRONG_AMOUNT", "PAYMENT_NOT_RECEIVED",
   "SERVICE_NOT_RECEIVED", "POSSIBLE_MISMATCH", "NEEDS_VERIFICATION",
   "DEBITED_NOT_CREDITED", "OTHER"}

TransactionType ==
  {"AIRTIME", "DATA", "ELECTRICITY_TOKEN", "CABLE_SUBSCRIPTION", "BANK_TRANSFER",
   "GATEWAY_PAYMENT", "MERCHANT_CHECKOUT", "SUBSCRIPTION_BILL", "OTHER"}

\* CATEGORIES of the wizard.
WizardCategory ==
  {"FAILED_TRANSFER", "ATM_DISPENSE_ERROR", "POS_DECLINE_DEBIT", "AIRTIME_DATA_FAILURE",
   "BILL_PAYMENT_FAILURE", "UNAUTHORIZED_DEBIT", "CRYPTO_P2P_SCAM"}

\* The options of its payment channel, which it sends as the transaction type.
WizardChannel ==
  {"NIP_TRANSFER", "POS", "ATM", "WEB_ONLINE", "MOBILE_APP", "DISCO_ELECTRICITY"}

\* createRescueCaseSchema.
CreateRescueCaseSchema(claim) ==
  /\ claim.category \in DisputeCategory
  /\ claim.channel \in TransactionType
  /\ claim.amount > 0

\* The controller of the upload route throws when no case is named.
UploadNamesCase(caseId) == caseId # Null

-----------------------------------------------------------------------------
(* Working on a case.                                                      *)

EscalationTarget == {"CBN", "NCC", "NERC", "FCCPC", "LEGAL"}

\* The options of the escalation dialog; the first one is chosen when it opens.
OfferedTarget == {"CENTRAL_BANK_OF_NIGERIA", "FCCPC", "NCC"}

\* isStaff: who is offered the status dialog.
Staff == {"SUPER_ADMIN", "ADMIN", "BUSINESS_ADMIN", "BUSINESS_AGENT"}

\* Whom the status route admits; authorize admits SUPER_ADMIN always.
StatusRoles ==
  {"ADMIN", "SUPER_ADMIN", "SUPPORT_AGENT", "BUSINESS_ADMIN", "BUSINESS_OWNER"}

\* getCaseById: a plain user finds only the cases of his own.
MayReadCase(u) == RoleOf(u) = "USER" => u = CaseOwner

-----------------------------------------------------------------------------
(* Routes under a business, and routes for administrators.                 *)

\* tenantIsolation: an administrator for any business that exists, else a member
\* with one of the roles that the route asks for.
TenantAdmits(u, b, roles) ==
  b \in Business /\ \/ RoleOf(u) \in AdminRoles
                    \/ b \in BusinessesOf(u) /\ RoleOf(u) \in roles

\* The roles that the developer routes ask for to change something.
KeyRoles == {"BUSINESS_OWNER", "BUSINESS_ADMIN"}

AdminAdmits(u) == RoleOf(u) \in AdminRoles
=============================================================================
