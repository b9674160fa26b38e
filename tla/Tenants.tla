---------------------------------- MODULE Tenants ----------------------------------
(***************************************************************************)
(* What belongs to a business: its members (BusinessService), API keys and *)
(* webhooks (DeveloperService). tenantIsolation looks the membership of    *)
(* the caller up and lets the request go on; the handler then reads and    *)
(* writes in steps of its own. authenticate before it is in AuthService.   *)
(* The profile of a business is left out: one update writes it.            *)
(***************************************************************************)
EXTENDS HttpServer

CONSTANTS
  User, Business,
  Staff,     \* the users with the global role ADMIN or SUPER_ADMIN
  MemberId,  \* ids of the BusinessMember rows that may be created
  HookId,    \* ids of the Webhook rows that may be created
  Null       \* an absent value

ASSUME TenantAssumption == Staff \subseteq User /\ Null \notin Business

VARIABLES
  member,     \* the BusinessMember table
  key,        \* the ApiKey table
  hook,       \* the business of each Webhook row
  delivered,  \* the Webhook rows that have a delivery
  revoked,    \* history: keys whose revocation was answered
  usedLate    \* history: keys that let a request pass that arrived after that

tenantVars == <<member, key, hook, delivered, revoked, usedLate>>

Role == {"BUSINESS_OWNER", "BUSINESS_ADMIN", "BUSINESS_AGENT"}

\* state "absent": not created, "gone": deleted.
Member ==
  [state : {"absent", "present", "gone"}, business : Business \cup {Null},
   user : User \cup {Null}, role : Role]

NoMember == [state |-> "absent", business |-> Null, user |-> Null, role |-> "BUSINESS_AGENT"]

Key == [business : Business \cup {Null}, active : BOOLEAN]

LiveKey == [business : Business, active : {TRUE}]

NoKey == [business |-> Null, active |-> FALSE]

\* The requests behind tenantIsolation.
Want ==
       [do : {"add"}, user : User, role : Role \ {"BUSINESS_OWNER"}]
  \cup [do : {"remove"}, user : User]
  \cup [do : {"createKey", "createWebhook"}]
  \cup [do : {"revokeKey"}, key : KeyId]
  \cup [do : {"testWebhook"}, hook : HookId]

\* stage "tenant": tenantIsolation looks; "find": the first query of the handler;
\* "write": its write, of the row it found.
TenantCall ==
  [op : {"tenant", "find"}, by : User, business : Business, want : Want]
    \cup [op : {"write"}, by : User, business : Business, want : Want,
          row : {Null} \cup MemberId]

\* requireApiKey: late is history, row is what the query answered.
KeyCall ==
  [op : {"key"}, key : KeyId, late : BOOLEAN]
    \cup [op : {"keyRead"}, key : KeyId, late : BOOLEAN, row : Key]

TenantTypeOK ==
  /\ member \in [MemberId -> Member]
  /\ \A m \in MemberId : (member[m].state = "absent") <=> (member[m] = NoMember)
  /\ key \in [KeyId -> Key]
  /\ hook \in [HookId -> Business \cup {Null}]
  /\ delivered \subseteq HookId
  /\ revoked \subseteq KeyId /\ usedLate \subseteq KeyId

Row(b, u, role) == [state |-> "present", business |-> b, user |-> u, role |-> role]

Present(m) == member[m].state = "present"

\* The row the unique key (businessId, userId) finds.
Memberships(b, u) ==
  { m \in MemberId : Present(m) /\ member[m].business = b /\ member[m].user = u }

\* register has given each business an owner; others may have joined, keys may exist.
\* A behaviour in which nobody looks at memberships starts without them.
TenantInit ==
  /\ member \in [MemberId -> {NoMember} \cup { Row(b, u, role) : b \in Business, u \in User, role \in Role }]
  /\ \A m, n \in MemberId : Present(m) /\ m \in Memberships(member[n].business, member[n].user) => m = n
  /\ IF "tenant" \in focus
     THEN \A b \in Business : \E m \in MemberId :
            member[m].business = b /\ member[m].role = "BUSINESS_OWNER"
     ELSE \A m \in MemberId : ~Present(m)
  /\ key \in [KeyId -> LiveKey \cup {NoKey}]
  /\ hook = [h \in HookId |-> Null]
  /\ delivered = {} /\ revoked = {} /\ usedLate = {}

\* The roles a route allows.
Allowed(want) ==
  IF want.do = "remove" THEN {"BUSINESS_OWNER"} ELSE {"BUSINESS_OWNER", "BUSINESS_ADMIN"}

-----------------------------------------------------------------------------
TenantArrives(r, a, u, b, want) ==
  /\ Arrive(r, a, "tenant", [op |-> "tenant", by |-> u, business |-> b, want |-> want])
  /\ UNCHANGED tenantVars

\* ADMIN and SUPER_ADMIN pass; others by the role of their membership.
MayAct(u, b, want) ==
  u \in Staff \/ \E m \in Memberships(b, u) : member[m].role \in Allowed(want)

TenantIsolation(r) ==
  LET q == call[r] IN
  /\ q.op = "tenant"
  /\ IF MayAct(q.by, q.business, q.want) THEN GoOn(r, [q EXCEPT !.op = "find"]) ELSE Respond(r)
  /\ UNCHANGED <<limitVars, tenantVars>>

Write(q, row) ==
  [op |-> "write", by |-> q.by, business |-> q.business, want |-> q.want, row |-> row]

\* Mutant: revokeApiKey and dispatchTestWebhook find by id alone.
FoundAnywhere(q) ==
  CASE q.want.do = "add"    -> IF Memberships(q.business, q.want.user) = {} THEN {Null} ELSE {}
    [] q.want.do = "remove" -> Memberships(q.business, q.want.user)
    [] OTHER -> {Null}

\* The row the handler goes on with: none if it will throw, Null if it needs none.
Found(q) ==
  CASE q.want.do = "add"    -> IF Memberships(q.business, q.want.user) = {} THEN {Null} ELSE {}
    [] q.want.do = "remove" -> Memberships(q.business, q.want.user)
    [] q.want.do = "revokeKey"   -> IF key[q.want.key].business = q.business THEN {Null} ELSE {}
    [] q.want.do = "testWebhook" -> IF hook[q.want.hook] = q.business THEN {Null} ELSE {}
    [] OTHER -> {Null}

HandlerFinds(r) ==
  LET q == call[r] IN
  /\ q.op = "find"
  /\ \/ \E row \in Found(q) : GoOn(r, Write(q, row))
     \/ Found(q) = {} /\ Reject(r)
  /\ UNCHANGED <<limitVars, tenantVars>>

Writes(r, do) == call[r].op = "write" /\ call[r].want.do = do /\ Respond(r)

\* The unique key refuses a second membership.
AddMember(r, m) ==
  LET q == call[r] IN
  /\ Writes(r, "add")
  /\ member[m] = NoMember
  /\ Memberships(q.business, q.want.user) = {}
  /\ member' = [member EXCEPT ![m] = Row(q.business, q.want.user, q.want.role)]
  /\ UNCHANGED <<limitVars, key, hook, delivered, revoked, usedLate>>

\* By the id that was found, even if it was the last owner's.
RemoveMember(r) ==
  LET q == call[r] IN
  /\ Writes(r, "remove")
  /\ Present(q.row)
  /\ member' = [member EXCEPT ![q.row].state = "gone"]
  /\ UNCHANGED <<limitVars, key, hook, delivered, revoked, usedLate>>

CreateApiKey(r, k) ==
  /\ Writes(r, "createKey")
  /\ key[k] = NoKey
  /\ key' = [key EXCEPT ![k] = [business |-> call[r].business, active |-> TRUE]]
  /\ UNCHANGED <<limitVars, member, hook, delivered, revoked, usedLate>>

RevokeApiKey(r) ==
  LET q == call[r] IN
  /\ Writes(r, "revokeKey")
  /\ key' = [key EXCEPT ![q.want.key].active = FALSE]
  /\ revoked' = revoked \cup {q.want.key}
  /\ UNCHANGED <<limitVars, member, hook, delivered, usedLate>>

CreateWebhook(r, h) ==
  /\ Writes(r, "createWebhook")
  /\ hook[h] = Null
  /\ hook' = [hook EXCEPT ![h] = call[r].business]
  /\ UNCHANGED <<limitVars, member, key, delivered, revoked, usedLate>>

DispatchTestWebhook(r) ==
  /\ Writes(r, "testWebhook")
  /\ delivered' = delivered \cup {call[r].want.hook}
  /\ UNCHANGED <<limitVars, member, key, hook, revoked, usedLate>>

-----------------------------------------------------------------------------
(* requireApiKey *)

KeyArrives(r, a, k) ==
  /\ Arrive(r, a, "key", [op |-> "key", key |-> k, late |-> k \in revoked])
  /\ UNCHANGED tenantVars

KeyReads(r) ==
  LET q == call[r] IN
  /\ q.op = "key"
  /\ GoOn(r, [op |-> "keyRead", key |-> q.key, late |-> q.late, row |-> key[q.key]])
  /\ UNCHANGED <<limitVars, tenantVars>>

\* Mutant: any existing key will do.
KeyStands(row) == row # NoKey

\* The row that was read exists and is active. Keys are created without expiresAt.
KeyAccepted(row) == row.active

\* The request passes and is answered, or an error is.
KeyChecked(r) ==
  LET q == call[r] IN
  /\ q.op = "keyRead"
  /\ Respond(r)
  /\ IF KeyAccepted(q.row) /\ ~Full(keyWindow[q.key], KeyLimit)
     THEN /\ KeyPass(q.key)
          /\ usedLate' = IF q.late THEN usedLate \cup {q.key} ELSE usedLate
     ELSE UNCHANGED <<limitVars, usedLate>>
  /\ UNCHANGED <<member, key, hook, delivered, revoked>>

TenantNext ==
  \E r \in Slot :
    \/ \E a \in Address :
         \/ \E u \in User, b \in Business, want \in Want : TenantArrives(r, a, u, b, want)
         \/ \E k \in KeyId : KeyArrives(r, a, k)
    \/ TenantIsolation(r)
    \/ HandlerFinds(r)
    \/ \E m \in MemberId : AddMember(r, m)
    \/ RemoveMember(r)
    \/ \E k \in KeyId : CreateApiKey(r, k)
    \/ RevokeApiKey(r)
    \/ \E h \in HookId : CreateWebhook(r, h)
    \/ DispatchTestWebhook(r)
    \/ KeyReads(r)
    \/ KeyChecked(r)
=============================================================================
