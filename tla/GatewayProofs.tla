------------------------------ MODULE GatewayProofs ------------------------------
(***************************************************************************)
(* Proofs about Gateway for every set of addresses, slots, businesses,     *)
(* members, keys, webhooks, invoices and headers, and for every bound.     *)
(***************************************************************************)
EXTENDS Gateway, SequenceTheorems, TLAPS

\* What a slot may wait for.
Pending == TenantCall \cup KeyCall \cup BillingCall \cup IdemCall

ServerTyped == ServerTypeOK(Pending)

\* A removal in flight names a row.
RemovesRows ==
  \A r \in Slot : call[r].op = "write" /\ call[r].want.do = "remove" => call[r].row \in MemberId

-----------------------------------------------------------------------------
(* Types *)

\* The operation of a request tells its record.
LEMMA OpTellsRecord ==
  ASSUME NEW q \in {Idle, Rejected} \cup Pending
  PROVE  /\ q.op \in {"tenant", "find"} =>
              q \in [op : {"tenant", "find"}, by : User, business : Business, want : Want]
         /\ q.op = "write" =>
              q \in [op : {"write"}, by : User, business : Business, want : Want,
                     row : {Null} \cup MemberId]
         /\ q.op = "key" => q \in [op : {"key"}, key : KeyId, late : BOOLEAN]
         /\ q.op = "keyRead" =>
              q \in [op : {"keyRead"}, key : KeyId, late : BOOLEAN, row : Key]
         /\ q.op \in {"charge", "settle"} => q \in BillingCall
         /\ q.op \in {"lookup", "drop"} => q \in [op : {"lookup", "drop"}, idem : IdemKey]
         /\ q.op = "work" => q \in [op : {"work"}, idem : IdemKey, capture : BOOLEAN]
BY DEF Pending, Idle, Rejected, TenantCall, KeyCall, BillingCall, IdemCall

\* A window that is not full is counted to a window.
LEMMA CountedTyped ==
  ASSUME NEW max \in Nat \ {0}, NEW span \in Nat, now \in 0..MaxNow,
         NEW w \in Window(max, span) \cup {NoWindow}, ~Full(w, max)
  PROVE  Counted(w, span) \in Window(max, span)
<1>1. CASE Over(w)
  BY <1>1, LimitsAssumption DEF Counted, Window
<1>2. CASE ~Over(w)
  <2>1. w \in Window(max, span) /\ w.count < max
    BY <1>2 DEF Full, Over, Window
  <2>2. w.count \in Nat /\ w.count + 1 \in 1..max
    BY <2>1 DEF Window
  <2> QED BY <1>2, <2>1, <2>2 DEF Counted, Window
<1> QED BY <1>1, <1>2

LEMMA PassTyped ==
  ASSUME LimitsTypeOK, NEW a \in Address, Pass(a)
  PROVE  LimitsTypeOK'
<1>1. bucket[a] \in Window(MaxRequests, WindowMs) \cup {NoWindow} /\ now \in 0..MaxNow
  BY DEF LimitsTypeOK
<1>2. Counted(bucket[a], WindowMs) \in Window(MaxRequests, WindowMs)
  BY <1>1, LimitsAssumption, CountedTyped DEF Pass
<1>3. Append(passes[a], now) \in Seq(0..MaxNow)
  BY DEF LimitsTypeOK
<1> QED BY <1>2, <1>3 DEF LimitsTypeOK, Pass

LEMMA KeyPassTyped ==
  ASSUME LimitsTypeOK, NEW k \in KeyId, KeyPass(k)
  PROVE  LimitsTypeOK'
<1>1. keyWindow[k] \in Window(KeyLimit, KeyWindowMs) \cup {NoWindow} /\ now \in 0..MaxNow
  BY DEF LimitsTypeOK
<1>2. Counted(keyWindow[k], KeyWindowMs) \in Window(KeyLimit, KeyWindowMs)
  BY <1>1, LimitsAssumption, CountedTyped DEF KeyPass
<1>3. Append(keyPasses[k], now) \in Seq(0..MaxNow)
  BY DEF LimitsTypeOK
<1> QED BY <1>2, <1>3 DEF LimitsTypeOK, KeyPass

\* The limits stay typed when they are left alone.
LEMMA LimitsLeft ==
  ASSUME LimitsTypeOK, UNCHANGED limitVars
  PROVE  LimitsTypeOK'
BY DEF LimitsTypeOK, limitVars

\* Arriving, going on, responding and rejecting keep the types.
LEMMA ArriveTyped ==
  ASSUME LimitsTypeOK, ServerTyped, NEW r \in Slot, NEW a \in Address, NEW kind, NEW q \in Pending,
         Arrive(r, a, kind, q)
  PROVE  LimitsTypeOK' /\ ServerTyped'
<1>1. LimitsTypeOK'
  BY PassTyped DEF Arrive
<1>2. ServerTyped'
  BY ServerAssumption DEF Arrive, ServerTyped, ServerTypeOK
<1> QED BY <1>1, <1>2

LEMMA GoOnTyped ==
  ASSUME ServerTyped, NEW r \in Slot, NEW q \in {Idle, Rejected} \cup Pending, GoOn(r, q)
  PROVE  ServerTyped'
BY DEF GoOn, ServerTyped, ServerTypeOK

LEMMA RespondTyped ==
  ASSUME ServerTyped, NEW r \in Slot, Respond(r)
  PROVE  ServerTyped'
BY DEF Respond, ServerTyped, ServerTypeOK

LEMMA RejectTyped ==
  ASSUME ServerTyped, NEW r \in Slot, Reject(r)
  PROVE  ServerTyped'
BY GoOnTyped DEF Reject

\* Every action of Tenants keeps the types.
LEMMA TenantStepsTyped ==
  ASSUME LimitsTypeOK, ServerTyped, TenantTypeOK, RemovesRows, TenantNext
  PROVE  LimitsTypeOK' /\ ServerTyped' /\ TenantTypeOK'
<1>0. ASSUME UNCHANGED tenantVars PROVE TenantTypeOK'
  BY <1>0 DEF TenantTypeOK, tenantVars
<1>1. PICK r \in Slot :
    \/ \E a \in Address :
         \/ \E u \in User, b \in Business, want \in Want : TenantArrives(r, a, u, b, want)
         \/ \E k \in KeyId : KeyArrives(r, a, k)
    \/ TenantIsolation(r)
    \/ HandlerFinds(r)
    \/ \E m \in MemberId : AddMember(r, m)
    \/ RemoveMember(r)
    \/ \E k \in KeyId : CreateApiKey(r, k)
    \/ RevokeApiKey(r)
    \/ \E h \in HookId : CreateWebhook(r, h)
    \/ DispatchTestWebhook(r)
    \/ KeyReads(r)
    \/ KeyChecked(r)
  BY DEF TenantNext
<1>2. call[r] \in {Idle, Rejected} \cup Pending
  BY DEF ServerTyped, ServerTypeOK
<1>3. ASSUME NEW a \in Address, NEW u \in User, NEW b \in Business, NEW want \in Want,
             TenantArrives(r, a, u, b, want)
      PROVE  LimitsTypeOK' /\ ServerTyped' /\ TenantTypeOK'
  <2>1. [op |-> "tenant", by |-> u, business |-> b, want |-> want] \in Pending
    BY DEF Pending, TenantCall
  <2> QED BY <1>0, <1>3, <2>1, ArriveTyped DEF TenantArrives
<1>4. ASSUME NEW a \in Address, NEW k \in KeyId, KeyArrives(r, a, k)
      PROVE  LimitsTypeOK' /\ ServerTyped' /\ TenantTypeOK'
  <2>1. [op |-> "key", key |-> k, late |-> k \in revoked] \in Pending
    BY DEF Pending, KeyCall
  <2> QED BY <1>0, <1>4, <2>1, ArriveTyped DEF KeyArrives
<1>5. ASSUME TenantIsolation(r) PROVE LimitsTypeOK' /\ ServerTyped' /\ TenantTypeOK'
  <2>1. [call[r] EXCEPT !.op = "find"] \in Pending
    BY <1>2, <1>5, OpTellsRecord DEF TenantIsolation, Pending, TenantCall
  <2>2. ServerTyped'
    BY <1>5, <2>1, GoOnTyped, RespondTyped DEF TenantIsolation
  <2> QED BY <1>0, <1>5, <2>2, LimitsLeft DEF TenantIsolation
<1>6. ASSUME HandlerFinds(r) PROVE LimitsTypeOK' /\ ServerTyped' /\ TenantTypeOK'
  <2>1. ASSUME NEW row \in Found(call[r]) PROVE Write(call[r], row) \in Pending
    <3>1. call[r] \in [op : {"tenant", "find"}, by : User, business : Business, want : Want]
      BY <1>2, <1>6, OpTellsRecord DEF HandlerFinds
    <3>2. row \in {Null} \cup MemberId
      BY <2>1 DEF Found, Memberships
    <3> QED BY <3>1, <3>2 DEF Write, Pending, TenantCall
  <2>2. ServerTyped'
    BY <1>6, <2>1, GoOnTyped, RejectTyped DEF HandlerFinds
  <2> QED BY <1>0, <1>6, <2>2, LimitsLeft DEF HandlerFinds
<1>7. ASSUME NEW do, Writes(r, do)
      PROVE  /\ ServerTyped'
             /\ call[r].business \in Business /\ call[r].want \in Want
             /\ call[r].want.do = do
  BY <1>2, <1>7, OpTellsRecord, RespondTyped DEF Writes
<1>8. ASSUME NEW m \in MemberId, AddMember(r, m)
      PROVE  LimitsTypeOK' /\ ServerTyped' /\ TenantTypeOK'
  <2>1. ServerTyped' /\ call[r].business \in Business /\ call[r].want \in Want
        /\ call[r].want.do = "add"
    BY <1>7, <1>8 DEF AddMember
  <2>2. call[r].want.user \in User /\ call[r].want.role \in Role
    BY <2>1 DEF Want
  <2> DEFINE new == Row(call[r].business, call[r].want.user, call[r].want.role)
  <2>3. new \in Member /\ new.state = "present" /\ new # NoMember
    BY <2>1, <2>2 DEF Row, Member, NoMember
  <2>4. member' = [member EXCEPT ![m] = new] /\ UNCHANGED <<limitVars, key, hook, delivered, revoked, usedLate>>
    BY <1>8 DEF AddMember
  <2> HIDE DEF new
  <2>5. TenantTypeOK'
    BY <2>3, <2>4 DEF TenantTypeOK
  <2> QED BY <2>1, <2>4, <2>5, LimitsLeft
<1>9. ASSUME RemoveMember(r) PROVE LimitsTypeOK' /\ ServerTyped' /\ TenantTypeOK'
  <2>1. ServerTyped' /\ call[r].row \in MemberId
    BY <1>7, <1>9 DEF RemoveMember, RemovesRows, Writes
  <2>2. PICK m \in MemberId : m = call[r].row
    BY <2>1
  <2>3. [member[m] EXCEPT !.state = "gone"] \in Member /\ [member[m] EXCEPT !.state = "gone"] # NoMember
    BY DEF TenantTypeOK, Member, NoMember
  <2>4. [member[m] EXCEPT !.state = "gone"].state # "absent"
    BY DEF TenantTypeOK, Member
  <2>5. member' = [member EXCEPT ![m].state = "gone"] /\ UNCHANGED <<limitVars, key, hook, delivered, revoked, usedLate>>
    BY <1>9, <2>2 DEF RemoveMember
  <2>6. TenantTypeOK'
    BY <2>3, <2>4, <2>5 DEF TenantTypeOK
  <2> QED BY <2>1, <2>5, <2>6, LimitsLeft
<1>10. ASSUME NEW k \in KeyId, CreateApiKey(r, k)
       PROVE  LimitsTypeOK' /\ ServerTyped' /\ TenantTypeOK'
  <2>1. ServerTyped' /\ call[r].business \in Business
    BY <1>7, <1>10 DEF CreateApiKey
  <2>2. TenantTypeOK'
    BY <1>10, <2>1 DEF CreateApiKey, TenantTypeOK, Key
  <2> QED BY <1>10, <2>1, <2>2, LimitsLeft DEF CreateApiKey
<1>11. ASSUME RevokeApiKey(r) PROVE LimitsTypeOK' /\ ServerTyped' /\ TenantTypeOK'
  <2>1. ServerTyped' /\ call[r].want \in Want /\ call[r].want.do = "revokeKey"
    BY <1>7, <1>11 DEF RevokeApiKey
  <2>2. call[r].want.key \in KeyId
    BY <2>1 DEF Want
  <2>3. PICK k \in KeyId : k = call[r].want.key
    BY <2>2
  <2>4. [key[k] EXCEPT !.active = FALSE] \in Key
    BY DEF TenantTypeOK, Key
  <2>5. /\ key' = [key EXCEPT ![k].active = FALSE] /\ revoked' = revoked \cup {k}
        /\ UNCHANGED <<limitVars, member, hook, delivered, usedLate>>
    BY <1>11, <2>3 DEF RevokeApiKey
  <2>6. TenantTypeOK'
    BY <2>4, <2>5 DEF TenantTypeOK
  <2> QED BY <2>1, <2>5, <2>6, LimitsLeft
<1>12. ASSUME NEW h \in HookId, CreateWebhook(r, h)
       PROVE  LimitsTypeOK' /\ ServerTyped' /\ TenantTypeOK'
  <2>1. ServerTyped' /\ call[r].business \in Business
    BY <1>7, <1>12 DEF CreateWebhook
  <2>2. TenantTypeOK'
    BY <1>12, <2>1 DEF CreateWebhook, TenantTypeOK
  <2> QED BY <1>12, <2>1, <2>2, LimitsLeft DEF CreateWebhook
<1>13. ASSUME DispatchTestWebhook(r) PROVE LimitsTypeOK' /\ ServerTyped' /\ TenantTypeOK'
  <2>1. ServerTyped' /\ call[r].want \in Want /\ call[r].want.do = "testWebhook"
    BY <1>7, <1>13 DEF DispatchTestWebhook
  <2>2. call[r].want.hook \in HookId
    BY <2>1 DEF Want
  <2>3. TenantTypeOK'
    BY <1>13, <2>2 DEF DispatchTestWebhook, TenantTypeOK
  <2> QED BY <1>13, <2>1, <2>3, LimitsLeft DEF DispatchTestWebhook
<1>14. ASSUME KeyReads(r) PROVE LimitsTypeOK' /\ ServerTyped' /\ TenantTypeOK'
  <2>1. call[r] \in [op : {"key"}, key : KeyId, late : BOOLEAN]
    BY <1>2, <1>14, OpTellsRecord DEF KeyReads
  <2>2. [op |-> "keyRead", key |-> call[r].key, late |-> call[r].late, row |-> key[call[r].key]] \in Pending
    BY <2>1 DEF Pending, KeyCall, TenantTypeOK
  <2>3. ServerTyped'
    BY <1>14, <2>2, GoOnTyped DEF KeyReads
  <2> QED BY <1>0, <1>14, <2>3, LimitsLeft DEF KeyReads
<1>15. ASSUME KeyChecked(r) PROVE LimitsTypeOK' /\ ServerTyped' /\ TenantTypeOK'
  <2>1. call[r] \in [op : {"keyRead"}, key : KeyId, late : BOOLEAN, row : Key]
    BY <1>2, <1>15, OpTellsRecord DEF KeyChecked
  <2>2. LimitsTypeOK'
    BY <1>15, <2>1, KeyPassTyped, LimitsLeft DEF KeyChecked, limitVars
  <2>3. TenantTypeOK'
    BY <1>15, <2>1 DEF KeyChecked, TenantTypeOK
  <2>4. ServerTyped'
    BY <1>15, RespondTyped DEF KeyChecked
  <2> QED BY <2>2, <2>3, <2>4
<1> QED BY <1>1, <1>3, <1>4, <1>5, <1>6, <1>8, <1>9, <1>10, <1>11, <1>12, <1>13, <1>14, <1>15

\* Every action of BillingService keeps the types.
LEMMA BillingStepsTyped ==
  ASSUME LimitsTypeOK, ServerTyped, BillingTypeOK, BillingNext
  PROVE  LimitsTypeOK' /\ ServerTyped' /\ BillingTypeOK'
<1>1. ASSUME NEW r \in Slot, NEW a \in Address, NEW e \in Event, WebhookArrives(r, a, e)
      PROVE  LimitsTypeOK' /\ ServerTyped' /\ BillingTypeOK'
  <2>1. [op |-> "charge", event |-> e] \in Pending
    BY DEF Pending, BillingCall
  <2>2. LimitsTypeOK' /\ ServerTyped'
    BY <1>1, <2>1, ArriveTyped DEF WebhookArrives
  <2> QED BY <1>1, <2>2 DEF WebhookArrives, billingVars, BillingTypeOK
<1>2. ASSUME NEW r \in Slot, FindInvoice(r)
      PROVE  LimitsTypeOK' /\ ServerTyped' /\ BillingTypeOK'
  <2>1. call[r] \in BillingCall
    BY <1>2, OpTellsRecord DEF FindInvoice, ServerTyped, ServerTypeOK
  <2>2. [call[r] EXCEPT !.op = "settle"] \in Pending
    BY <2>1 DEF Pending, BillingCall
  <2>3. ServerTyped'
    BY <1>2, <2>2, GoOnTyped, RespondTyped DEF FindInvoice
  <2>4. BillingTypeOK'
    BY <1>2, <2>1 DEF FindInvoice, BillingTypeOK, BillingCall
  <2> QED BY <1>2, <2>3, <2>4, LimitsLeft DEF FindInvoice
<1>3. ASSUME NEW r \in Slot, Settle(r)
      PROVE  LimitsTypeOK' /\ ServerTyped' /\ BillingTypeOK'
  <2>1. PICK e \in Event : e = call[r].event
    BY <1>3, OpTellsRecord DEF Settle, ServerTyped, ServerTypeOK, BillingCall
  <2>2. [status |-> "PAID", amountPaid |-> e.amount] \in InvoiceRow
    BY DEF Event, InvoiceRow
  <2>3. invoice' = Paid(e) /\ payment' = payment \cup {e} /\ acked' = acked \cup {e}
    BY <1>3, <2>1 DEF Settle
  <2>4. BillingTypeOK'
    BY <2>2, <2>3 DEF BillingTypeOK, Paid
  <2>5. ServerTyped'
    BY <1>3, RespondTyped DEF Settle
  <2> QED BY <1>3, <2>4, <2>5, LimitsLeft DEF Settle
<1> QED BY <1>1, <1>2, <1>3 DEF BillingNext

\* A run of the handler is remembered with its instant.
LEMMA RanTyped ==
  ASSUME LimitsTypeOK, IdemTypeOK, NEW x \in IdemKey, Ran(x)
  PROVE  executed' \in [IdemKey -> Seq(0..MaxNow)]
<1>1. Append(executed[x], now) \in Seq(0..MaxNow)
  BY DEF LimitsTypeOK, IdemTypeOK
<1> QED BY <1>1 DEF Ran, IdemTypeOK

\* Every action of IdempotencyKeys keeps the types.
LEMMA IdemStepsTyped ==
  ASSUME LimitsTypeOK, ServerTyped, IdemTypeOK, IdemNext
  PROVE  LimitsTypeOK' /\ ServerTyped' /\ IdemTypeOK'
<1>0. ASSUME UNCHANGED idemVars PROVE IdemTypeOK'
  BY <1>0 DEF IdemTypeOK, idemVars
<1>1. ASSUME NEW r \in Slot, NEW a \in Address, NEW x \in IdemKey, IdemArrives(r, a, x)
      PROVE  LimitsTypeOK' /\ ServerTyped' /\ IdemTypeOK'
  <2>1. [op |-> "lookup", idem |-> x] \in Pending
    BY DEF Pending, IdemCall
  <2>2. LimitsTypeOK' /\ ServerTyped'
    BY <1>1, <2>1, ArriveTyped DEF IdemArrives
  <2> QED BY <1>1, <2>2 DEF IdemArrives, IdemTypeOK
<1>2. ASSUME NEW r \in Slot, call[r].op \in {"lookup", "drop"}
      PROVE  /\ call[r].idem \in IdemKey
             /\ \A capture \in BOOLEAN : Work(call[r].idem, capture) \in Pending
             /\ [op |-> "drop", idem |-> call[r].idem] \in Pending
  <2>1. call[r].idem \in IdemKey
    BY <1>2, OpTellsRecord DEF ServerTyped, ServerTypeOK
  <2> QED BY <2>1 DEF Pending, IdemCall, Work
<1>3. ASSUME NEW r \in Slot, Lookup(r)
      PROVE  LimitsTypeOK' /\ ServerTyped' /\ IdemTypeOK'
  <2> DEFINE x == call[r].idem
  <2>1. \/ GoOn(r, Work(x, TRUE)) \/ GoOn(r, [op |-> "drop", idem |-> x]) \/ Respond(r)
    BY <1>3 DEF Lookup
  <2>2. ServerTyped'
    BY <1>2, <1>3, <2>1, GoOnTyped, RespondTyped DEF Lookup
  <2> QED BY <1>0, <1>3, <2>2, LimitsLeft DEF Lookup
<1>4. ASSUME NEW r \in Slot, Drop(r)
      PROVE  LimitsTypeOK' /\ ServerTyped' /\ IdemTypeOK'
  <2>1. ServerTyped'
    BY <1>2, <1>4, GoOnTyped DEF Drop
  <2>2. IdemTypeOK'
    BY <1>2, <1>4 DEF Drop, IdemTypeOK
  <2> QED BY <1>4, <2>1, <2>2, LimitsLeft DEF Drop
<1>5. ASSUME NEW r \in Slot, LookupFails(r)
      PROVE  LimitsTypeOK' /\ ServerTyped' /\ IdemTypeOK'
  <2>1. ServerTyped'
    BY <1>2, <1>5, GoOnTyped DEF LookupFails
  <2>2. IdemTypeOK'
    BY <1>2, <1>5 DEF LookupFails, IdemTypeOK
  <2> QED BY <1>5, <2>1, <2>2, LimitsLeft DEF LookupFails
<1>6. ASSUME NEW r \in Slot, call[r].op = "work" PROVE call[r].idem \in IdemKey
  BY <1>6, OpTellsRecord DEF ServerTyped, ServerTypeOK
<1>7. ASSUME NEW r \in Slot, Execute(r)
      PROVE  LimitsTypeOK' /\ ServerTyped' /\ IdemTypeOK'
  <2>1. PICK x \in IdemKey : x = call[r].idem
    BY <1>6, <1>7 DEF Execute
  <2>2. executed' \in [IdemKey -> Seq(0..MaxNow)]
    BY <1>7, <2>1, RanTyped DEF Execute
  <2> DEFINE row == [answer |-> Len(executed[x]) + 1, expires |-> now + KeepMs]
  <2>3. row \in StoredAnswer
    BY LimitsAssumption, IdempotencyAssumption DEF StoredAnswer, IdemTypeOK, LimitsTypeOK
  <2>4. storing' \in {storing, storing \cup {[idem |-> x, row |-> row]}} /\ UNCHANGED <<limitVars, stored, unsettled>>
    BY <1>7, <2>1 DEF Execute
  <2> HIDE DEF row
  <2>5. IdemTypeOK'
    BY <2>2, <2>3, <2>4 DEF IdemTypeOK
  <2>6. ServerTyped'
    BY <1>7, RespondTyped DEF Execute
  <2> QED BY <2>4, <2>5, <2>6, LimitsLeft
<1>8. ASSUME NEW r \in Slot, ExecuteFails(r)
      PROVE  LimitsTypeOK' /\ ServerTyped' /\ IdemTypeOK'
  <2>1. executed' \in [IdemKey -> Seq(0..MaxNow)]
    BY <1>6, <1>8, RanTyped DEF ExecuteFails
  <2>2. IdemTypeOK'
    BY <1>6, <1>8, <2>1 DEF ExecuteFails, IdemTypeOK
  <2>3. ServerTyped'
    BY <1>8, RespondTyped DEF ExecuteFails
  <2> QED BY <1>8, <2>2, <2>3, LimitsLeft DEF ExecuteFails
<1>9. ASSUME NEW s \in storing, Store(s) \/ StoreFails(s)
      PROVE  LimitsTypeOK' /\ ServerTyped' /\ IdemTypeOK'
  <2>1. s.idem \in IdemKey /\ s.row \in StoredAnswer
    BY DEF IdemTypeOK
  <2>2. IdemTypeOK'
    BY <1>9, <2>1 DEF Store, StoreFails, IdemTypeOK
  <2>3. UNCHANGED <<limitVars, serverVars>>
    BY <1>9 DEF Store, StoreFails
  <2>4. ServerTyped'
    BY <2>3 DEF ServerTyped, ServerTypeOK, serverVars
  <2> QED BY <2>2, <2>3, <2>4, LimitsLeft
<1> QED BY <1>1, <1>3, <1>4, <1>5, <1>7, <1>8, <1>9 DEF IdemNext

\* The steps in which no handler gets what it asked for.
Disturbance ==
  \/ \E r \in Slot : HandlerFails(r) \/ WorkRejects(r) \/ MiddlewareFails(r)
  \/ Environment
  \/ Clock
  \/ ProcessStops
  \/ Restart /\ UNCHANGED <<tenantVars, billingVars, idemVars>>

\* The tables of the tenants and of billing stay typed when they are left alone.
LEMMA TablesLeft ==
  /\ TenantTypeOK /\ UNCHANGED tenantVars => TenantTypeOK'
  /\ BillingTypeOK /\ UNCHANGED billingVars => BillingTypeOK'
  /\ IdemTypeOK /\ UNCHANGED idemVars => IdemTypeOK'
BY DEF TenantTypeOK, tenantVars, BillingTypeOK, billingVars, IdemTypeOK, idemVars

\* A process that ends leaves a typed server.
LEMMA ProcessEndsTyped ==
  ASSUME ServerTyped, ProcessEnds(0) \/ ProcessEnds(1)
  PROVE  ServerTyped'
BY DEF ProcessEnds, ServerTyped, ServerTypeOK

\* Failures, the clock, the end of the process and its restart keep the types.
LEMMA DisturbanceTyped ==
  ASSUME TypeOK, Disturbance
  PROVE  TypeOK'
<1>0. LimitsTypeOK /\ ServerTyped /\ TenantTypeOK /\ BillingTypeOK /\ IdemTypeOK
  BY DEF TypeOK, ServerTyped, Pending
<1>1. ASSUME NEW r \in Slot, HandlerFails(r) \/ MiddlewareFails(r) PROVE TypeOK'
  <2>1. ServerTyped'
    BY <1>0, <1>1, RejectTyped, RespondTyped DEF HandlerFails, MiddlewareFails
  <2>2. UNCHANGED <<limitVars, tenantVars, billingVars, idemVars>>
    BY <1>1 DEF HandlerFails, MiddlewareFails
  <2> QED BY <1>0, <2>1, <2>2, LimitsLeft, TablesLeft DEF TypeOK, ServerTyped, Pending
<1>2. ASSUME NEW r \in Slot, WorkRejects(r) PROVE TypeOK'
  <2>1. ServerTyped' /\ call[r].idem \in IdemKey
    BY <1>0, <1>2, RejectTyped, OpTellsRecord DEF WorkRejects, ServerTyped, ServerTypeOK
  <2>2. executed' \in [IdemKey -> Seq(0..MaxNow)]
    BY <1>0, <1>2, <2>1, RanTyped DEF WorkRejects, IdemTypeOK
  <2>3. IdemTypeOK'
    BY <1>0, <1>2, <2>1, <2>2 DEF WorkRejects, IdemTypeOK
  <2>4. UNCHANGED <<limitVars, tenantVars, billingVars>>
    BY <1>2 DEF WorkRejects
  <2> QED BY <1>0, <2>1, <2>3, <2>4, LimitsLeft, TablesLeft DEF TypeOK, ServerTyped, Pending
<1>3. ASSUME Environment PROVE TypeOK'
  <2>1. ASSUME NEW r \in Slot, ClientLeaves(r) PROVE ServerTyped'
    BY <1>0, <2>1 DEF ClientLeaves, ServerTyped, ServerTypeOK
  <2>2. ASSUME Signal PROVE ServerTyped'
    BY <1>0, <2>2 DEF Signal, ServerTyped, ServerTypeOK
  <2>3. ServerTyped' /\ UNCHANGED <<limitVars, tenantVars, billingVars, idemVars>>
    BY <1>3, <2>1, <2>2 DEF Environment
  <2> QED BY <1>0, <2>3, LimitsLeft, TablesLeft DEF TypeOK, ServerTyped, Pending
<1>4. ASSUME Clock PROVE TypeOK'
  <2>1. ASSUME TimePasses PROVE LimitsTypeOK'
    BY <1>0, <2>1, LimitsAssumption DEF TimePasses, LimitsTypeOK
  <2>2. ASSUME CleanBuckets PROVE LimitsTypeOK'
    BY <1>0, <2>2 DEF CleanBuckets, LimitsTypeOK
  <2>3. LimitsTypeOK' /\ UNCHANGED <<serverVars, tenantVars, billingVars, idemVars>>
    BY <1>4, <2>1, <2>2 DEF Clock
  <2>4. ServerTyped'
    BY <1>0, <2>3 DEF ServerTyped, ServerTypeOK, serverVars
  <2> QED BY <1>0, <2>3, <2>4, TablesLeft DEF TypeOK, ServerTyped, Pending
<1>5. ASSUME ProcessStops PROVE TypeOK'
  <2>1. ServerTyped' /\ UNCHANGED <<limitVars, tenantVars, billingVars>>
    BY <1>0, <1>5, ProcessEndsTyped DEF ProcessStops, CleanExit, ForcedExit, Crash
  <2>2. IdemTypeOK'
    BY <1>0, <1>5 DEF ProcessStops, IdemProcessEnds, IdemTypeOK
  <2> QED BY <1>0, <2>1, <2>2, LimitsLeft, TablesLeft DEF TypeOK, ServerTyped, Pending
<1>6. ASSUME Restart, UNCHANGED <<tenantVars, billingVars, idemVars>> PROVE TypeOK'
  <2>1. << >> \in Seq(0..MaxNow)
    OBVIOUS
  <2>2. LimitsTypeOK'
    BY <1>0, <1>6, <2>1 DEF Restart, LimitsTypeOK
  <2>3. ServerTyped'
    BY <1>0, <1>6, ServerAssumption DEF Restart, ServerTyped, ServerTypeOK
  <2> QED BY <1>0, <1>6, <2>2, <2>3, TablesLeft DEF TypeOK, ServerTyped, Pending
<1> QED BY <1>1, <1>2, <1>3, <1>4, <1>5, <1>6 DEF Disturbance

\* The initial state is typed.
LEMMA InitTyped == Init => TypeOK
<1> SUFFICES ASSUME Init PROVE TypeOK
  OBVIOUS
<1>0. << >> \in Seq(0..MaxNow)
  OBVIOUS
<1>1. LimitsTypeOK
  BY <1>0, LimitsAssumption DEF Init, LimitsInit, CountersEmpty, LimitsTypeOK
<1>2. ServerTyped
  BY ServerAssumption DEF Init, ServerInit, ServerTyped, ServerTypeOK
<1>3. TenantTypeOK
  <2>1. NoMember \in Member /\ NoMember.state = "absent"
    BY DEF NoMember, Member, Role
  <2>2. \A b \in Business, u \in User, role \in Role :
          Row(b, u, role) \in Member /\ Row(b, u, role).state = "present"
    BY DEF Row, Member
  <2>3. member \in [MemberId -> Member]
    BY <2>1, <2>2 DEF Init, TenantInit
  <2>4. \A m \in MemberId : (member[m].state = "absent") <=> (member[m] = NoMember)
    BY <2>1, <2>2 DEF Init, TenantInit
  <2>5. key \in [KeyId -> LiveKey \cup {NoKey}]
    BY DEF Init, TenantInit
  <2>6. LiveKey \subseteq Key /\ NoKey \in Key
    BY DEF Key, NoKey, LiveKey
  <2>7. key \in [KeyId -> Key]
    BY <2>5, <2>6
  <2> QED BY <2>3, <2>4, <2>7 DEF Init, TenantInit, TenantTypeOK
<1>4. BillingTypeOK
  BY DEF Init, BillingInit, BillingTypeOK, InvoiceRow, NoInvoice
<1>5. IdemTypeOK
  BY <1>0 DEF Init, IdemInit, IdemTypeOK
<1> QED BY <1>1, <1>2, <1>3, <1>4, <1>5 DEF TypeOK, ServerTyped, Pending

-----------------------------------------------------------------------------
(* Tenants *)

\* Somebody who held an allowed role, at the time or now.
Held(q) ==
  \/ q.by \in Staff
  \/ \E m \in MemberId :
       /\ member[m].business = q.business /\ member[m].user = q.by
       /\ member[m].role \in Allowed(q.want)

\* What a write names belongs to the business of its request.
OwnRow(q) ==
  /\ q.want.do = "remove" => q.row \in MemberId /\ member[q.row].business = q.business
  /\ q.want.do = "revokeKey" => key[q.want.key].business = q.business
  /\ q.want.do = "testWebhook" => hook[q.want.hook] = q.business

\* A handler behind tenantIsolation acts for somebody who held an allowed role in the
\* business of the request, and its write is to a row of that business.
WritesAreOwn ==
  \A r \in Slot :
    /\ call[r].op \in {"find", "write"} => Held(call[r])
    /\ call[r].op = "write" => OwnRow(call[r])

\* No row that was created changes hands.
RowsStay ==
  /\ \A m \in MemberId :
       member[m] # NoMember =>
         /\ member'[m].business = member[m].business
         /\ member'[m].user = member[m].user
         /\ member'[m].role = member[m].role
  /\ \A k \in KeyId : key[k].business # Null => key'[k].business = key[k].business
  /\ \A h \in HookId : hook[h] # Null => hook'[h] = hook[h]

TenantOps == {"tenant", "find", "write", "key", "keyRead"}

\* A step that starts no call of a tenant and leaves the calls of tenants alone.
NoTenantMoves ==
  \A r \in Slot : call'[r] = call[r] \/ call'[r].op \notin TenantOps

\* What was held or owned stays so while rows stay.
LEMMA OwnRowsStay ==
  ASSUME TypeOK, RowsStay, NEW q \in Pending
  PROVE  /\ q.op \in {"find", "write"} /\ Held(q) => Held(q)'
         /\ q.op = "write" /\ OwnRow(q) => OwnRow(q)'
<1>1. ASSUME q.op \in {"find", "write"}, Held(q) PROVE Held(q)'
  <2>1. q.business \in Business
    BY <1>1, OpTellsRecord
  <2>2. \A m \in MemberId : member[m].business = q.business => member[m] # NoMember
    BY <2>1, TenantAssumption DEF NoMember
  <2> QED BY <1>1, <2>2 DEF Held, RowsStay
<1>2. ASSUME q.op = "write", OwnRow(q) PROVE OwnRow(q)'
  <2>1. q.business \in Business /\ q.want \in Want
    BY <1>2, OpTellsRecord
  <2>2. \A m \in MemberId : member[m].business = q.business => member[m] # NoMember
    BY <2>1, TenantAssumption DEF NoMember
  <2>3. /\ q.want.do = "revokeKey" => q.want.key \in KeyId
        /\ q.want.do = "testWebhook" => q.want.hook \in HookId
    BY <2>1 DEF Want
  <2> QED BY <1>2, <2>1, <2>2, <2>3, TenantAssumption DEF OwnRow, RowsStay
<1> QED BY <1>1, <1>2

\* One call moves to q, the others stay or are no calls of tenants; rows stay.
LEMMA OwnAfterMove ==
  ASSUME TypeOK, WritesAreOwn, RowsStay, NEW r \in Slot,
         \A p \in Slot : p # r => call'[p] = call[p],
         call'[r].op \in {"find", "write"} => (Held(call[r]))',
         call'[r].op = "write" => (OwnRow(call[r]))'
  PROVE  WritesAreOwn'
<1> SUFFICES ASSUME NEW p \in Slot
             PROVE  /\ call'[p].op \in {"find", "write"} => (Held(call[p]))'
                    /\ call'[p].op = "write" => (OwnRow(call[p]))'
  BY DEF WritesAreOwn
<1>1. CASE p = r
  BY <1>1
<1>2. CASE p # r
  <2>1. call[p] \in {Idle, Rejected} \cup Pending /\ call'[p] = call[p]
    BY <1>2 DEF TypeOK, ServerTypeOK, Pending
  <2>2. PICK q \in {Idle, Rejected} \cup Pending : q = call[p] /\ q = call'[p]
    BY <2>1
  <2>3. CASE q \in Pending
    <3>1. /\ q.op \in {"find", "write"} => Held(q)
          /\ q.op = "write" => OwnRow(q)
      BY <2>2 DEF WritesAreOwn
    <3>2. /\ q.op \in {"find", "write"} => Held(q)'
          /\ q.op = "write" => OwnRow(q)'
      BY <2>3, <3>1, OwnRowsStay
    <3> QED BY <2>2, <3>2
  <2>4. CASE q \in {Idle, Rejected}
    BY <2>2, <2>4 DEF Idle, Rejected
  <2> QED BY <2>3, <2>4
<1> QED BY <1>1, <1>2

\* A step that moves no call of a tenant into a handler leaves writes own.
LEMMA OwnWhenQuiet ==
  ASSUME TypeOK, WritesAreOwn, UNCHANGED tenantVars, NoTenantMoves
  PROVE  WritesAreOwn'
<1>1. RowsStay
  BY DEF RowsStay, tenantVars
<1> SUFFICES ASSUME NEW p \in Slot
             PROVE  /\ call'[p].op \in {"find", "write"} => (Held(call[p]))'
                    /\ call'[p].op = "write" => (OwnRow(call[p]))'
  BY DEF WritesAreOwn
<1>2. CASE call'[p].op \notin TenantOps
  BY <1>2 DEF TenantOps
<1>3. CASE call'[p] = call[p]
  <2>1. PICK q \in {Idle, Rejected} \cup Pending : q = call[p] /\ q = call'[p]
    BY <1>3 DEF TypeOK, ServerTypeOK, Pending
  <2>2. CASE q \in Pending
    <3>1. /\ q.op \in {"find", "write"} => Held(q)
          /\ q.op = "write" => OwnRow(q)
      BY <2>1 DEF WritesAreOwn
    <3>2. /\ q.op \in {"find", "write"} => Held(q)'
          /\ q.op = "write" => OwnRow(q)'
      BY <1>1, <2>2, <3>1, OwnRowsStay
    <3> QED BY <2>1, <3>2
  <2>3. CASE q \in {Idle, Rejected}
    BY <2>1, <2>3 DEF Idle, Rejected
  <2> QED BY <2>2, <2>3
<1> QED BY <1>2, <1>3 DEF NoTenantMoves

\* What responding, rejecting and going on do to the calls.
LEMMA CallsMove ==
  ASSUME ServerTyped, NEW r \in Slot
  PROVE  /\ Respond(r) => /\ \A p \in Slot : p # r => call'[p] = call[p]
                          /\ call'[r] = Idle
         /\ Reject(r)  => /\ \A p \in Slot : p # r => call'[p] = call[p]
                          /\ call'[r] \in {Idle, Rejected}
         /\ \A q : GoOn(r, q) => /\ \A p \in Slot : p # r => call'[p] = call[p]
                                 /\ call'[r] = q
         /\ \A a, kind, q : Arrive(r, a, kind, q) =>
                              /\ \A p \in Slot : p # r => call'[p] = call[p]
                              /\ call'[r] = q /\ call[r] = Idle
BY DEF ServerTyped, ServerTypeOK, Respond, Reject, GoOn, Arrive

\* Billing, idempotency keys and disturbances start no call of a tenant.
LEMMA OthersQuiet ==
  ASSUME TypeOK,
         \/ BillingNext /\ UNCHANGED <<tenantVars, idemVars>>
         \/ IdemNext /\ UNCHANGED <<tenantVars, billingVars>>
         \/ Disturbance
  PROVE  UNCHANGED tenantVars /\ NoTenantMoves
<1>0. ServerTyped
  BY DEF TypeOK, ServerTyped, Pending
<1>a. ASSUME NEW r \in Slot, \A p \in Slot : p # r => call'[p] = call[p], call'[r].op \notin TenantOps
      PROVE  NoTenantMoves
  BY <1>a DEF NoTenantMoves
<1>b. Idle.op \notin TenantOps /\ Rejected.op \notin TenantOps
  BY DEF Idle, Rejected, TenantOps
<1>1. CASE BillingNext /\ UNCHANGED <<tenantVars, idemVars>>
  <2>1. ASSUME NEW r \in Slot, NEW a \in Address, NEW e \in Event, WebhookArrives(r, a, e) PROVE NoTenantMoves
    <3>1. Arrive(r, a, "charge", [op |-> "charge", event |-> e])
      BY <2>1 DEF WebhookArrives
    <3> QED BY <1>0, <1>a, <3>1, CallsMove DEF TenantOps
  <2>2. ASSUME NEW r \in Slot, FindInvoice(r) PROVE NoTenantMoves
    <3>1. call[r] \in BillingCall
      BY <1>0, <2>2, OpTellsRecord DEF FindInvoice, ServerTyped, ServerTypeOK
    <3> DEFINE q == [call[r] EXCEPT !.op = "settle"]
    <3>2. q.op \notin TenantOps
      BY <3>1 DEF BillingCall, TenantOps
    <3>3. Respond(r) \/ GoOn(r, q)
      BY <2>2 DEF FindInvoice
    <3> HIDE DEF q
    <3>4. CASE Respond(r)
      BY <1>0, <1>a, <1>b, <3>4, CallsMove
    <3>5. CASE GoOn(r, q)
      <4>1. (\A p \in Slot : p # r => call'[p] = call[p]) /\ call'[r] = q
        BY <1>0, <3>5 DEF GoOn, ServerTyped, ServerTypeOK
      <4>2. call'[r].op \notin TenantOps
        BY <3>2, <4>1
      <4> QED BY <1>a, <4>1, <4>2
    <3> QED BY <3>3, <3>4, <3>5
  <2>3. ASSUME NEW r \in Slot, Settle(r) PROVE NoTenantMoves
    BY <1>0, <1>a, <1>b, <2>3, CallsMove DEF Settle
  <2> QED BY <1>1, <2>1, <2>2, <2>3 DEF BillingNext
<1>2. CASE IdemNext /\ UNCHANGED <<tenantVars, billingVars>>
  <2>1. ASSUME NEW r \in Slot, NEW a \in Address, NEW x \in IdemKey, IdemArrives(r, a, x) PROVE NoTenantMoves
    <3>1. Arrive(r, a, "repeat", [op |-> "lookup", idem |-> x])
      BY <2>1 DEF IdemArrives
    <3> QED BY <1>0, <1>a, <3>1, CallsMove DEF TenantOps
  <2>2. ASSUME NEW r \in Slot, Lookup(r) \/ Drop(r) \/ LookupFails(r) \/ Execute(r) \/ ExecuteFails(r)
        PROVE  NoTenantMoves
    <3> DEFINE x == call[r].idem
    <3>1. \/ Respond(r) \/ GoOn(r, [op |-> "drop", idem |-> x])
          \/ GoOn(r, Work(x, TRUE)) \/ GoOn(r, Work(x, FALSE))
      BY <2>2 DEF Lookup, Drop, LookupFails, Execute, ExecuteFails
    <3>2. /\ \A p \in Slot : p # r => call'[p] = call[p]
          /\ call'[r] \in {Idle, [op |-> "drop", idem |-> x], Work(x, TRUE), Work(x, FALSE)}
      BY <1>0, <3>1 DEF Respond, GoOn, ServerTyped, ServerTypeOK
    <3>3. call'[r].op \in {"idle", "drop", "work"}
      BY <3>2 DEF Work, Idle
    <3> QED BY <1>a, <3>2, <3>3 DEF TenantOps
  <2>3. ASSUME NEW s \in storing, Store(s) \/ StoreFails(s) PROVE NoTenantMoves
    BY <2>3 DEF Store, StoreFails, serverVars, NoTenantMoves
  <2> QED BY <1>2, <2>1, <2>2, <2>3 DEF IdemNext
<1>3. CASE Disturbance
  <2>1. ASSUME NEW r \in Slot, HandlerFails(r) \/ WorkRejects(r) \/ MiddlewareFails(r)
        PROVE  UNCHANGED tenantVars /\ NoTenantMoves
    <3>1. (Reject(r) \/ Respond(r)) /\ UNCHANGED tenantVars
      BY <2>1 DEF HandlerFails, WorkRejects, MiddlewareFails
    <3> QED BY <1>0, <1>a, <1>b, <3>1, CallsMove
  <2>2. ASSUME Environment PROVE UNCHANGED tenantVars /\ NoTenantMoves
    BY <1>0, <1>b, <2>2 DEF Environment, ClientLeaves, Signal, NoTenantMoves, ServerTyped, ServerTypeOK
  <2>3. ASSUME Clock PROVE UNCHANGED tenantVars /\ NoTenantMoves
    BY <2>3 DEF Clock, serverVars, NoTenantMoves
  <2>4. ASSUME ProcessStops PROVE UNCHANGED tenantVars /\ NoTenantMoves
    BY <1>b, <2>4 DEF ProcessStops, CleanExit, ForcedExit, Crash, ProcessEnds, NoTenantMoves
  <2>5. ASSUME Restart, UNCHANGED tenantVars PROVE UNCHANGED tenantVars /\ NoTenantMoves
    BY <2>5 DEF Restart, NoTenantMoves
  <2> QED BY <1>3, <2>1, <2>2, <2>3, <2>4, <2>5 DEF Disturbance
<1> QED BY <1>1, <1>2, <1>3

\* Whoever tenantIsolation lets pass held an allowed role.
LEMMA MayActHeld ==
  ASSUME NEW q, MayAct(q.by, q.business, q.want)
  PROVE  Held(q)
BY DEF MayAct, Held, Memberships

\* A tenant's row changes only through a request that acts for its business.
OnlyOwnRows ==
  /\ \A m \in MemberId : member'[m] # member[m] => Authorised(member'[m].business)
  /\ \A k \in KeyId : key'[k] # key[k] => Authorised(key'[k].business)
  /\ \A h \in HookId : hook'[h] # hook[h] \/ (h \in delivered' \ delivered) => Authorised(hook'[h])

\* A write in flight is authorised for its business.
LEMMA WriterAuthorised ==
  ASSUME WritesAreOwn, NEW r \in Slot, call[r].op = "write"
  PROVE  Authorised(call[r].business) /\ OwnRow(call[r])
BY DEF WritesAreOwn, Held, Authorised

\* Every action of Tenants writes to rows of its own business.
LEMMA TenantStepsOwn ==
  ASSUME TypeOK, WritesAreOwn, TenantNext
  PROVE  RowsStay /\ WritesAreOwn' /\ OnlyOwnRows
<1>0. ServerTyped /\ TenantTypeOK
  BY DEF TypeOK, ServerTyped, Pending
<1>t. ASSUME UNCHANGED tenantVars PROVE RowsStay /\ OnlyOwnRows
  BY <1>t DEF tenantVars, RowsStay, OnlyOwnRows
<1>i. Idle.op = "idle" /\ Rejected.op = "rejected"
  BY DEF Idle, Rejected
<1>1. ASSUME NEW r \in Slot, NEW a \in Address, NEW u \in User, NEW b \in Business, NEW want \in Want,
             TenantArrives(r, a, u, b, want)
      PROVE  RowsStay /\ WritesAreOwn' /\ OnlyOwnRows
  <2>1. UNCHANGED tenantVars
    BY <1>1 DEF TenantArrives
  <2>2. /\ \A p \in Slot : p # r => call'[p] = call[p]
        /\ call'[r].op = "tenant"
    BY <1>0, <1>1 DEF TenantArrives, Arrive, ServerTyped, ServerTypeOK
  <2>3. WritesAreOwn'
    BY <1>t, <2>1, <2>2, OwnAfterMove
  <2> QED BY <1>t, <2>1, <2>3
<1>2. ASSUME NEW r \in Slot, NEW a \in Address, NEW k \in KeyId, KeyArrives(r, a, k)
      PROVE  RowsStay /\ WritesAreOwn' /\ OnlyOwnRows
  <2>1. UNCHANGED tenantVars
    BY <1>2 DEF KeyArrives
  <2>2. /\ \A p \in Slot : p # r => call'[p] = call[p]
        /\ call'[r].op = "key"
    BY <1>0, <1>2 DEF KeyArrives, Arrive, ServerTyped, ServerTypeOK
  <2>3. WritesAreOwn'
    BY <1>t, <2>1, <2>2, OwnAfterMove
  <2> QED BY <1>t, <2>1, <2>3
<1>3. ASSUME NEW r \in Slot, TenantIsolation(r)
      PROVE  RowsStay /\ WritesAreOwn' /\ OnlyOwnRows
  <2>1. UNCHANGED tenantVars
    BY <1>3 DEF TenantIsolation
  <2>2. \A p \in Slot : p # r => call'[p] = call[p]
    BY <1>0, <1>3 DEF TenantIsolation, Respond, GoOn, ServerTyped, ServerTypeOK
  <2>3. PICK q \in Pending : q = call[r] /\ q.op = "tenant"
    BY <1>0, <1>3, <1>i DEF TenantIsolation, ServerTyped, ServerTypeOK
  <2>4. CASE MayAct(q.by, q.business, q.want)
    <3>1. call'[r] = [q EXCEPT !.op = "find"]
      BY <1>0, <1>3, <2>3, <2>4 DEF TenantIsolation, GoOn, ServerTyped, ServerTypeOK
    <3>2. q \in [op : {"tenant", "find"}, by : User, business : Business, want : Want]
      BY <2>3, OpTellsRecord
    <3>3. /\ call'[r].op = "find" /\ call'[r].by = q.by /\ call'[r].business = q.business
          /\ call'[r].want = q.want
      BY <3>1, <3>2
    <3>4. Held(q)
      BY <2>4, MayActHeld
    <3>5. (Held(call[r]))'
      BY <2>1, <3>3, <3>4 DEF Held, tenantVars
    <3>6. WritesAreOwn'
      BY <1>t, <2>1, <2>2, <3>3, <3>5, OwnAfterMove
    <3> QED BY <1>t, <2>1, <3>6
  <2>5. CASE ~MayAct(q.by, q.business, q.want)
    <3>1. call'[r] = Idle
      BY <1>0, <1>3, <2>3, <2>5 DEF TenantIsolation, Respond, ServerTyped, ServerTypeOK
    <3>2. WritesAreOwn'
      BY <1>i, <1>t, <2>1, <2>2, <3>1, OwnAfterMove
    <3> QED BY <1>t, <2>1, <3>2
  <2> QED BY <2>4, <2>5
<1>4. ASSUME NEW r \in Slot, HandlerFinds(r)
      PROVE  RowsStay /\ WritesAreOwn' /\ OnlyOwnRows
  <2>1. UNCHANGED tenantVars
    BY <1>4 DEF HandlerFinds
  <2>2. \A p \in Slot : p # r => call'[p] = call[p]
    BY <1>0, <1>4 DEF HandlerFinds, Reject, GoOn, ServerTyped, ServerTypeOK
  <2>3. PICK q \in Pending : q = call[r] /\ q.op = "find"
    BY <1>0, <1>4, <1>i DEF HandlerFinds, ServerTyped, ServerTypeOK
  <2>4. Held(q)
    BY <2>3 DEF WritesAreOwn
  <2>5. ASSUME NEW row \in Found(q), GoOn(r, Write(q, row))
        PROVE  RowsStay /\ WritesAreOwn' /\ OnlyOwnRows
    <3>1. call'[r] = Write(q, row)
      BY <1>0, <2>5 DEF GoOn, ServerTyped, ServerTypeOK
    <3>2. /\ call'[r].op = "write" /\ call'[r].by = q.by /\ call'[r].business = q.business
          /\ call'[r].want = q.want /\ call'[r].row = row
      BY <3>1 DEF Write
    <3>3. (Held(call[r]))'
      BY <2>1, <2>4, <3>2 DEF Held, tenantVars
    <3>4. /\ q.want.do = "remove" => row \in Memberships(q.business, q.want.user)
          /\ q.want.do = "revokeKey" => key[q.want.key].business = q.business
          /\ q.want.do = "testWebhook" => hook[q.want.hook] = q.business
      BY <2>5 DEF Found
    <3>5. (OwnRow(call[r]))'
      BY <2>1, <3>2, <3>4 DEF OwnRow, Memberships, tenantVars
    <3>6. WritesAreOwn'
      BY <1>t, <2>1, <2>2, <3>3, <3>5, OwnAfterMove
    <3> QED BY <1>t, <2>1, <3>6
  <2>6. CASE Reject(r)
    <3>1. call'[r] \in {Idle, Rejected}
      BY <1>0, <2>6, CallsMove
    <3>2. WritesAreOwn'
      BY <1>i, <1>t, <2>1, <2>2, <3>1, OwnAfterMove
    <3> QED BY <1>t, <2>1, <3>2
  <2> QED BY <1>4, <2>3, <2>5, <2>6 DEF HandlerFinds
<1>5. ASSUME NEW r \in Slot, NEW do, Writes(r, do)
      PROVE  /\ \A p \in Slot : p # r => call'[p] = call[p]
             /\ call'[r] = Idle
             /\ Authorised(call[r].business) /\ OwnRow(call[r])
             /\ call[r].business \in Business /\ call[r].want \in Want /\ call[r].want.do = do
  <2>1. call[r].op = "write" /\ call[r].want.do = do /\ Respond(r)
    BY <1>5 DEF Writes
  <2>2. call[r].business \in Business /\ call[r].want \in Want
    BY <1>0, <2>1, OpTellsRecord DEF ServerTyped, ServerTypeOK
  <2> QED BY <1>0, <2>1, <2>2, CallsMove, WriterAuthorised
<1>w. ASSUME NEW r \in Slot, NEW do, Writes(r, do), RowsStay PROVE WritesAreOwn'
  BY <1>5, <1>i, <1>w, OwnAfterMove
<1>6. ASSUME NEW r \in Slot, NEW m \in MemberId, AddMember(r, m)
      PROVE  RowsStay /\ WritesAreOwn' /\ OnlyOwnRows
  <2>1. PICK b \in Business : b = call[r].business /\ Authorised(b)
    BY <1>5, <1>6 DEF AddMember
  <2>2. /\ member' = [member EXCEPT ![m] = Row(b, call[r].want.user, call[r].want.role)]
        /\ member[m] = NoMember /\ UNCHANGED <<key, hook, delivered>>
    BY <1>6, <2>1 DEF AddMember
  <2>3. RowsStay
    BY <1>0, <2>2 DEF RowsStay, TenantTypeOK
  <2>4. member'[m].business = b
    BY <1>0, <2>2 DEF TenantTypeOK, Row
  <2>5. \A n \in MemberId : n # m => member'[n] = member[n]
    BY <1>0, <2>2 DEF TenantTypeOK
  <2>6. OnlyOwnRows
    BY <2>1, <2>2, <2>4, <2>5 DEF OnlyOwnRows
  <2> QED BY <1>w, <1>6, <2>3, <2>6 DEF AddMember
<1>7. ASSUME NEW r \in Slot, RemoveMember(r)
      PROVE  RowsStay /\ WritesAreOwn' /\ OnlyOwnRows
  <2>1. call[r].row \in MemberId /\ member[call[r].row].business = call[r].business
        /\ Authorised(call[r].business)
    BY <1>5, <1>7 DEF RemoveMember, OwnRow
  <2>2. PICK m \in MemberId : m = call[r].row /\ Authorised(member[m].business)
    BY <2>1
  <2>3. member' = [member EXCEPT ![m].state = "gone"] /\ UNCHANGED <<key, hook, delivered>>
    BY <1>7, <2>2 DEF RemoveMember
  <2>4. /\ member'[m].business = member[m].business /\ member'[m].user = member[m].user
        /\ member'[m].role = member[m].role
    BY <1>0, <2>3 DEF TenantTypeOK, Member
  <2>5. \A n \in MemberId : n # m => member'[n] = member[n]
    BY <1>0, <2>3 DEF TenantTypeOK
  <2>6. RowsStay
    BY <2>3, <2>4, <2>5 DEF RowsStay
  <2>7. OnlyOwnRows
    BY <2>2, <2>3, <2>4, <2>5 DEF OnlyOwnRows
  <2> QED BY <1>w, <1>7, <2>6, <2>7 DEF RemoveMember
<1>8. ASSUME NEW r \in Slot, NEW k \in KeyId, CreateApiKey(r, k)
      PROVE  RowsStay /\ WritesAreOwn' /\ OnlyOwnRows
  <2>1. PICK b \in Business : b = call[r].business /\ Authorised(b)
    BY <1>5, <1>8 DEF CreateApiKey
  <2>2. /\ key' = [key EXCEPT ![k] = [business |-> b, active |-> TRUE]]
        /\ key[k] = NoKey /\ UNCHANGED <<member, hook, delivered>>
    BY <1>8, <2>1 DEF CreateApiKey
  <2>3. RowsStay
    BY <1>0, <2>2 DEF RowsStay, TenantTypeOK, NoKey
  <2>4. OnlyOwnRows
    BY <1>0, <2>1, <2>2 DEF OnlyOwnRows, TenantTypeOK
  <2> QED BY <1>w, <1>8, <2>3, <2>4 DEF CreateApiKey
<1>9. ASSUME NEW r \in Slot, RevokeApiKey(r)
      PROVE  RowsStay /\ WritesAreOwn' /\ OnlyOwnRows
  <2>1. /\ call[r].want.key \in KeyId /\ key[call[r].want.key].business = call[r].business
        /\ Authorised(call[r].business)
    BY <1>5, <1>9 DEF RevokeApiKey, OwnRow, Want
  <2>2. PICK k \in KeyId : k = call[r].want.key /\ Authorised(key[k].business)
    BY <2>1
  <2>3. key' = [key EXCEPT ![k].active = FALSE] /\ UNCHANGED <<member, hook, delivered>>
    BY <1>9, <2>2 DEF RevokeApiKey
  <2>4. key'[k].business = key[k].business
    BY <1>0, <2>3 DEF TenantTypeOK, Key
  <2>5. \A n \in KeyId : n # k => key'[n] = key[n]
    BY <1>0, <2>3 DEF TenantTypeOK
  <2>6. RowsStay
    BY <2>3, <2>4, <2>5 DEF RowsStay
  <2>7. OnlyOwnRows
    BY <2>2, <2>3, <2>4, <2>5 DEF OnlyOwnRows
  <2> QED BY <1>w, <1>9, <2>6, <2>7 DEF RevokeApiKey
<1>10. ASSUME NEW r \in Slot, NEW h \in HookId, CreateWebhook(r, h)
       PROVE  RowsStay /\ WritesAreOwn' /\ OnlyOwnRows
  <2>1. PICK b \in Business : b = call[r].business /\ Authorised(b)
    BY <1>5, <1>10 DEF CreateWebhook
  <2>2. /\ hook' = [hook EXCEPT ![h] = b]
        /\ hook[h] = Null /\ UNCHANGED <<member, key, delivered>>
    BY <1>10, <2>1 DEF CreateWebhook
  <2>3. RowsStay
    BY <1>0, <2>2 DEF RowsStay, TenantTypeOK
  <2>4. OnlyOwnRows
    BY <1>0, <2>1, <2>2 DEF OnlyOwnRows, TenantTypeOK
  <2> QED BY <1>w, <1>10, <2>3, <2>4 DEF CreateWebhook
<1>11. ASSUME NEW r \in Slot, DispatchTestWebhook(r)
       PROVE  RowsStay /\ WritesAreOwn' /\ OnlyOwnRows
  <2>1. /\ call[r].want.hook \in HookId /\ hook[call[r].want.hook] = call[r].business
        /\ Authorised(call[r].business)
    BY <1>5, <1>11 DEF DispatchTestWebhook, OwnRow, Want
  <2>2. PICK h \in HookId : h = call[r].want.hook /\ Authorised(hook[h])
    BY <2>1
  <2>3. delivered' = delivered \cup {h} /\ UNCHANGED <<member, key, hook>>
    BY <1>11, <2>2 DEF DispatchTestWebhook
  <2>4. RowsStay /\ OnlyOwnRows
    BY <2>2, <2>3 DEF RowsStay, OnlyOwnRows
  <2> QED BY <1>w, <1>11, <2>4 DEF DispatchTestWebhook
<1>12. ASSUME NEW r \in Slot, KeyReads(r) \/ KeyChecked(r)
       PROVE  RowsStay /\ WritesAreOwn' /\ OnlyOwnRows
  <2>1. UNCHANGED <<member, key, hook, delivered>>
    BY <1>12 DEF KeyReads, KeyChecked, tenantVars
  <2>2. RowsStay /\ OnlyOwnRows
    BY <2>1 DEF RowsStay, OnlyOwnRows
  <2>3. /\ \A p \in Slot : p # r => call'[p] = call[p]
        /\ call'[r].op \in {"keyRead", "idle"}
    BY <1>0, <1>i, <1>12 DEF KeyReads, KeyChecked, GoOn, Respond, ServerTyped, ServerTypeOK
  <2>4. WritesAreOwn'
    BY <2>2, <2>3, OwnAfterMove
  <2> QED BY <2>2, <2>4
<1> QED BY <1>1, <1>2, <1>3, <1>4, <1>6, <1>7, <1>8, <1>9, <1>10, <1>11, <1>12 DEF TenantNext

\* The inductive invariant: types, and writes to rows of the writer's business.
TypedAndOwn == TypeOK /\ WritesAreOwn

LEMMA StepTypedAndOwn ==
  ASSUME TypedAndOwn, [Next]_vars
  PROVE  TypedAndOwn' /\ [OnlyOwnRows]_vars /\ RowsStay
<1>0. LimitsTypeOK /\ ServerTyped /\ TenantTypeOK /\ BillingTypeOK /\ IdemTypeOK /\ WritesAreOwn /\ TypeOK
  BY DEF TypedAndOwn, TypeOK, ServerTyped, Pending
<1>q. ASSUME UNCHANGED tenantVars PROVE OnlyOwnRows /\ RowsStay
  BY <1>q DEF tenantVars, OnlyOwnRows, RowsStay
<1>1. CASE TenantNext /\ UNCHANGED <<billingVars, idemVars>>
  <2>1. RemovesRows
    BY <1>0 DEF WritesAreOwn, OwnRow, RemovesRows
  <2>2. LimitsTypeOK' /\ ServerTyped' /\ TenantTypeOK'
    BY <1>0, <1>1, <2>1, TenantStepsTyped
  <2>3. BillingTypeOK' /\ IdemTypeOK'
    BY <1>0, <1>1, TablesLeft
  <2> QED BY <1>0, <1>1, <2>2, <2>3, TenantStepsOwn DEF TypedAndOwn, TypeOK, ServerTyped, Pending
<1>2. CASE BillingNext /\ UNCHANGED <<tenantVars, idemVars>>
  <2>1. LimitsTypeOK' /\ ServerTyped' /\ BillingTypeOK'
    BY <1>0, <1>2, BillingStepsTyped
  <2>2. TenantTypeOK' /\ IdemTypeOK'
    BY <1>0, <1>2, TablesLeft
  <2> QED BY <1>0, <1>2, <1>q, <2>1, <2>2, OthersQuiet, OwnWhenQuiet
          DEF TypedAndOwn, TypeOK, ServerTyped, Pending
<1>3. CASE IdemNext /\ UNCHANGED <<tenantVars, billingVars>>
  <2>1. LimitsTypeOK' /\ ServerTyped' /\ IdemTypeOK'
    BY <1>0, <1>3, IdemStepsTyped
  <2>2. TenantTypeOK' /\ BillingTypeOK'
    BY <1>0, <1>3, TablesLeft
  <2> QED BY <1>0, <1>3, <1>q, <2>1, <2>2, OthersQuiet, OwnWhenQuiet
          DEF TypedAndOwn, TypeOK, ServerTyped, Pending
<1>4. CASE Disturbance
  <2>1. TypeOK'
    BY <1>0, <1>4, DisturbanceTyped
  <2> QED BY <1>0, <1>4, <1>q, <2>1, OthersQuiet, OwnWhenQuiet DEF TypedAndOwn
<1>5. CASE UNCHANGED vars
  <2>1. UNCHANGED <<limitVars, serverVars, tenantVars, billingVars, idemVars>>
    BY <1>5 DEF vars
  <2>2. ServerTyped' /\ NoTenantMoves
    BY <1>0, <2>1 DEF ServerTyped, ServerTypeOK, serverVars, NoTenantMoves
  <2> QED BY <1>0, <1>5, <1>q, <2>1, <2>2, LimitsLeft, TablesLeft, OwnWhenQuiet
          DEF TypedAndOwn, TypeOK, ServerTyped, Pending
<1> QED BY <1>1, <1>2, <1>3, <1>4, <1>5 DEF Next, Disturbance

LEMMA InitOwn == Init => TypedAndOwn
<1>1. Init => WritesAreOwn
  BY DEF Init, ServerInit, WritesAreOwn, Idle
<1> QED BY <1>1, InitTyped DEF TypedAndOwn

LEMMA AlwaysTypedAndOwn == Spec => []TypedAndOwn
BY InitOwn, StepTypedAndOwn, PTL DEF Spec

\* Every table, counter and request keeps its type; a window never counts past its limit.
THEOREM TypeCorrect == Spec => []TypeOK
<1>1. TypedAndOwn => TypeOK
  BY DEF TypedAndOwn
<1> QED BY <1>1, AlwaysTypedAndOwn, PTL

\* A member, key or webhook changes only through a request for its business whose sender
\* held an allowed role there, however requests, removals and failures interleave.
THEOREM TenantsIsolated == Spec => TenantsKeepToThemselves
<1>1. TypedAndOwn /\ [Next]_vars => [OnlyOwnRows]_vars
  BY StepTypedAndOwn
<1>2. Spec => [][OnlyOwnRows]_vars
  BY <1>1, AlwaysTypedAndOwn, PTL DEF Spec
<1> QED BY <1>2 DEF OnlyOwnRows, TenantsKeepToThemselves

-----------------------------------------------------------------------------
(* Revocations *)

\* Revoked keys exist and are inactive; what a late request read of its key is inactive.
RevokedHold ==
  /\ usedLate = {}
  /\ \A k \in revoked : key[k].business # Null /\ ~key[k].active
  /\ \A r \in Slot :
       /\ call[r].op = "key" /\ call[r].late => call[r].key \in revoked
       /\ call[r].op = "keyRead" /\ call[r].late => ~call[r].row.active

\* A step that leaves keys alone and moves no request of a key.
KeysQuiet ==
  /\ UNCHANGED <<key, revoked, usedLate>>
  /\ \A r \in Slot : call'[r] = call[r] \/ call'[r].op \notin {"key", "keyRead"}

LEMMA HoldWhenQuiet ==
  ASSUME RevokedHold, KeysQuiet
  PROVE  RevokedHold'
BY DEF RevokedHold, KeysQuiet

\* The requests of members leave keys quiet, but for creating and revoking.
LEMMA MembersQuiet ==
  ASSUME TypedAndOwn, NEW r \in Slot,
         \/ \E a \in Address, u \in User, b \in Business, want \in Want : TenantArrives(r, a, u, b, want)
         \/ TenantIsolation(r) \/ HandlerFinds(r)
         \/ (\E m \in MemberId : AddMember(r, m)) \/ RemoveMember(r)
         \/ (\E h \in HookId : CreateWebhook(r, h)) \/ DispatchTestWebhook(r)
  PROVE  KeysQuiet
<1>0. ServerTyped
  BY DEF TypedAndOwn, TypeOK, ServerTyped, Pending
<1>1. UNCHANGED <<key, revoked, usedLate>>
  BY DEF TenantArrives, TenantIsolation, HandlerFinds, AddMember, RemoveMember, CreateWebhook,
         DispatchTestWebhook, tenantVars
<1>2. \A p \in Slot : p # r => call'[p] = call[p]
  BY <1>0 DEF TenantArrives, TenantIsolation, HandlerFinds, AddMember, RemoveMember, CreateWebhook,
     DispatchTestWebhook, Writes, Arrive, Reject, GoOn, Respond, ServerTyped, ServerTypeOK
<1>3. call'[r].op \notin {"key", "keyRead"}
  <2>1. ASSUME Respond(r) \/ Reject(r) PROVE call'[r].op \notin {"key", "keyRead"}
    BY <1>0, <2>1, CallsMove DEF Idle, Rejected
  <2>2. ASSUME NEW a \in Address, NEW u \in User, NEW b \in Business, NEW want \in Want,
               TenantArrives(r, a, u, b, want)
        PROVE  call'[r].op \notin {"key", "keyRead"}
    BY <1>0, <2>2 DEF TenantArrives, Arrive, ServerTyped, ServerTypeOK
  <2>3. ASSUME TenantIsolation(r) PROVE call'[r].op \notin {"key", "keyRead"}
    <3>1. CASE MayAct(call[r].by, call[r].business, call[r].want)
      <4>1. call'[r] = [call[r] EXCEPT !.op = "find"]
        BY <1>0, <2>3, <3>1 DEF TenantIsolation, GoOn, ServerTyped, ServerTypeOK
      <4>2. call[r] \in [op : {"tenant", "find"}, by : User, business : Business, want : Want]
        BY <1>0, <2>3, OpTellsRecord DEF TenantIsolation, ServerTyped, ServerTypeOK
      <4> QED BY <4>1, <4>2
    <3>2. CASE ~MayAct(call[r].by, call[r].business, call[r].want)
      BY <2>1, <2>3, <3>2 DEF TenantIsolation
    <3> QED BY <3>1, <3>2
  <2>4. ASSUME NEW row, GoOn(r, Write(call[r], row)) PROVE call'[r].op \notin {"key", "keyRead"}
    BY <1>0, <2>4 DEF GoOn, Write, ServerTyped, ServerTypeOK
  <2>5. ASSUME HandlerFinds(r) PROVE call'[r].op \notin {"key", "keyRead"}
    BY <2>1, <2>4, <2>5 DEF HandlerFinds
  <2> QED BY <2>1, <2>2, <2>3, <2>5 DEF AddMember, RemoveMember, CreateWebhook, DispatchTestWebhook, Writes
<1> QED BY <1>1, <1>2, <1>3 DEF KeysQuiet

LEMMA StepRevokedHold ==
  ASSUME TypedAndOwn, RevokedHold, [Next]_vars
  PROVE  RevokedHold'
<1>0. ServerTyped /\ TenantTypeOK /\ TypeOK /\ WritesAreOwn
  BY DEF TypedAndOwn, TypeOK, ServerTyped, Pending
<1>1. ASSUME NEW r \in Slot, NEW a \in Address, NEW k \in KeyId, KeyArrives(r, a, k)
      PROVE  RevokedHold'
  <2>1. /\ \A p \in Slot : p # r => call'[p] = call[p]
        /\ call'[r] = [op |-> "key", key |-> k, late |-> k \in revoked]
    BY <1>0, <1>1 DEF KeyArrives, Arrive, ServerTyped, ServerTypeOK
  <2>2. call'[r].op = "key" /\ call'[r].key = k
    BY <2>1
  <2>3. call'[r].late = (k \in revoked)
    BY <2>1
  <2>4. call'[r].late => k \in revoked
    BY Zenon, <2>3
  <2> QED BY <1>1, <2>1, <2>2, <2>4 DEF KeyArrives, tenantVars, RevokedHold
<1>2. ASSUME NEW r \in Slot, NEW k \in KeyId, CreateApiKey(r, k)
      PROVE  RevokedHold'
  <2>1. /\ \A p \in Slot : p # r => call'[p] = call[p]
        /\ call'[r].op = "idle"
    BY <1>0, <1>2, CallsMove DEF CreateApiKey, Writes, Idle
  <2>2. key[k].business = Null /\ \A n \in KeyId : n # k => key'[n] = key[n]
    BY <1>0, <1>2 DEF CreateApiKey, NoKey, TenantTypeOK
  <2> QED BY <1>0, <1>2, <2>1, <2>2 DEF CreateApiKey, RevokedHold, TenantTypeOK
<1>3. ASSUME NEW r \in Slot, RevokeApiKey(r)
      PROVE  RevokedHold'
  <2>1. /\ \A p \in Slot : p # r => call'[p] = call[p]
        /\ call'[r].op = "idle"
    BY <1>0, <1>3, CallsMove DEF RevokeApiKey, Writes, Idle
  <2>2. call[r] \in [op : {"write"}, by : User, business : Business, want : Want, row : {Null} \cup MemberId]
    BY <1>0, <1>3, OpTellsRecord DEF RevokeApiKey, Writes, ServerTyped, ServerTypeOK
  <2>3. call[r].want.key \in KeyId /\ key[call[r].want.key].business = call[r].business
    BY <1>0, <1>3, <2>2 DEF RevokeApiKey, Writes, WritesAreOwn, OwnRow, Want
  <2>4. PICK k \in KeyId : k = call[r].want.key /\ key[k].business # Null
    BY <2>2, <2>3, TenantAssumption
  <2>5. /\ key' = [key EXCEPT ![k].active = FALSE] /\ revoked' = revoked \cup {k}
        /\ usedLate' = usedLate
    BY <1>3, <2>4 DEF RevokeApiKey
  <2>6. key'[k].business # Null /\ ~key'[k].active
    BY <1>0, <2>4, <2>5 DEF TenantTypeOK, Key
  <2>7. \A n \in KeyId : n # k => key'[n] = key[n]
    BY <1>0, <2>5 DEF TenantTypeOK
  <2>8. revoked \subseteq KeyId
    BY <1>0 DEF TenantTypeOK
  <2> QED BY <2>1, <2>5, <2>6, <2>7, <2>8 DEF RevokedHold
<1>4. ASSUME NEW r \in Slot, KeyReads(r)
      PROVE  RevokedHold'
  <2>1. call[r] \in [op : {"key"}, key : KeyId, late : BOOLEAN]
    BY <1>0, <1>4, OpTellsRecord DEF KeyReads, ServerTyped, ServerTypeOK
  <2>2. /\ \A p \in Slot : p # r => call'[p] = call[p]
        /\ call'[r] = [op |-> "keyRead", key |-> call[r].key, late |-> call[r].late, row |-> key[call[r].key]]
    BY <1>0, <1>4 DEF KeyReads, GoOn, ServerTyped, ServerTypeOK
  <2>3. call'[r].op = "keyRead" /\ call'[r].late = call[r].late /\ call'[r].row = key[call[r].key]
    BY <2>2
  <2>4. call[r].late => call[r].key \in revoked
    BY <2>1 DEF RevokedHold
  <2> QED BY <1>4, <2>2, <2>3, <2>4 DEF KeyReads, tenantVars, RevokedHold
<1>5. ASSUME NEW r \in Slot, KeyChecked(r)
      PROVE  RevokedHold'
  <2>1. /\ \A p \in Slot : p # r => call'[p] = call[p]
        /\ call'[r].op = "idle"
    BY <1>0, <1>5, CallsMove DEF KeyChecked, Idle
  <2>2. call[r].late => ~KeyAccepted(call[r].row)
    BY <1>5 DEF KeyChecked, RevokedHold, KeyAccepted
  <2>3. usedLate' = usedLate
    BY <1>5, <2>2 DEF KeyChecked
  <2> QED BY <1>5, <2>1, <2>3 DEF KeyChecked, RevokedHold
<1>6. CASE TenantNext
  BY <1>1, <1>2, <1>3, <1>4, <1>5, <1>6, MembersQuiet, HoldWhenQuiet DEF TenantNext
<1>7. CASE \/ BillingNext /\ UNCHANGED <<tenantVars, idemVars>>
           \/ IdemNext /\ UNCHANGED <<tenantVars, billingVars>>
           \/ Disturbance
  <2>1. UNCHANGED tenantVars /\ NoTenantMoves
    BY <1>0, <1>7, OthersQuiet
  <2> QED BY <2>1, HoldWhenQuiet DEF KeysQuiet, tenantVars, NoTenantMoves, TenantOps
<1>8. CASE UNCHANGED vars
  BY <1>8, HoldWhenQuiet DEF KeysQuiet, vars, tenantVars, serverVars
<1> QED BY <1>6, <1>7, <1>8 DEF Next, Disturbance

\* Once a revocation was answered, no request that arrives afterwards passes with the key,
\* though its check reads the row and rules on it in two steps.
THEOREM RevocationsHold == Spec => []RevokedKeysStop
<1>1. Init => RevokedHold
  BY DEF Init, TenantInit, ServerInit, RevokedHold, Idle
<1>2. RevokedHold => RevokedKeysStop
  BY DEF RevokedHold, RevokedKeysStop
<1> QED BY <1>1, <1>2, StepRevokedHold, AlwaysTypedAndOwn, PTL DEF Spec

-----------------------------------------------------------------------------
(* Payments *)

\* The step moves slot r alone: it had one of these operations, or none, before and has one,
\* or none, afterwards.
MovesAmong(r, ops) ==
  /\ \A p \in Slot : p # r => call'[p] = call[p]
  /\ call[r].op \in ops \cup {"idle"}
  /\ call'[r].op \in ops \cup {"idle", "rejected"}

LEMMA MoveKinds ==
  ASSUME ServerTyped, NEW r \in Slot, NEW ops, call[r].op \in ops
  PROVE  /\ Respond(r) => MovesAmong(r, ops)
         /\ Reject(r) => MovesAmong(r, ops)
         /\ \A q : q.op \in ops /\ GoOn(r, q) => MovesAmong(r, ops)
BY DEF ServerTyped, ServerTypeOK, Respond, Reject, GoOn, Idle, Rejected, MovesAmong

LEMMA ArriveKinds ==
  ASSUME ServerTyped, NEW r \in Slot, NEW ops, NEW q, q.op \in ops, NEW a, NEW kind, Arrive(r, a, kind, q)
  PROVE  MovesAmong(r, ops)
BY DEF ServerTyped, ServerTypeOK, Arrive, Idle, MovesAmong

\* The actions of Tenants move requests of tenants.
LEMMA TenantMoves ==
  ASSUME ServerTyped, TenantNext
  PROVE  \E r \in Slot : MovesAmong(r, TenantOps)
<1>1. ASSUME NEW r \in Slot, NEW a \in Address, NEW u \in User, NEW b \in Business, NEW want \in Want,
             TenantArrives(r, a, u, b, want)
      PROVE  MovesAmong(r, TenantOps)
  <2> DEFINE q == [op |-> "tenant", by |-> u, business |-> b, want |-> want]
  <2>1. q.op \in TenantOps
    BY DEF TenantOps
  <2>2. Arrive(r, a, "tenant", q)
    BY <1>1 DEF TenantArrives
  <2> HIDE DEF q
  <2> QED BY <2>1, <2>2, ArriveKinds
<1>2. ASSUME NEW r \in Slot, NEW a \in Address, NEW k \in KeyId, KeyArrives(r, a, k)
      PROVE  MovesAmong(r, TenantOps)
  <2>1. /\ \A p \in Slot : p # r => call'[p] = call[p]
        /\ call[r].op = "idle" /\ call'[r].op = "key"
    BY <1>2 DEF KeyArrives, Arrive, ServerTyped, ServerTypeOK, Idle
  <2> QED BY <2>1 DEF MovesAmong, TenantOps
<1>3. ASSUME NEW r \in Slot, TenantIsolation(r) PROVE MovesAmong(r, TenantOps)
  <2>1. call[r].op \in TenantOps
    BY <1>3 DEF TenantIsolation, TenantOps
  <2>2. call[r] \in [op : {"tenant", "find"}, by : User, business : Business, want : Want]
    BY <1>3, OpTellsRecord DEF TenantIsolation, ServerTyped, ServerTypeOK
  <2> DEFINE q == [call[r] EXCEPT !.op = "find"]
  <2>3. q.op \in TenantOps
    BY <2>2 DEF TenantOps
  <2>4. Respond(r) \/ GoOn(r, q)
    BY <1>3 DEF TenantIsolation
  <2> HIDE DEF q
  <2> QED BY <2>1, <2>3, <2>4, MoveKinds
<1>4. ASSUME NEW r \in Slot, HandlerFinds(r) PROVE MovesAmong(r, TenantOps)
  <2>1. call[r].op \in TenantOps
    BY <1>4 DEF HandlerFinds, TenantOps
  <2>2. \A row : Write(call[r], row).op \in TenantOps
    BY DEF Write, TenantOps
  <2>3. ASSUME NEW row, GoOn(r, Write(call[r], row)) PROVE MovesAmong(r, TenantOps)
    <3> DEFINE q == Write(call[r], row)
    <3>1. q.op \in TenantOps /\ GoOn(r, q)
      BY <2>2, <2>3
    <3> HIDE DEF q
    <3> QED BY <2>1, <3>1, MoveKinds
  <2> QED BY <1>4, <2>1, <2>3, MoveKinds DEF HandlerFinds
<1>5. ASSUME NEW r \in Slot, NEW do, Writes(r, do) PROVE MovesAmong(r, TenantOps)
  BY <1>5, MoveKinds DEF Writes, TenantOps
<1>6. ASSUME NEW r \in Slot, KeyReads(r) \/ KeyChecked(r) PROVE MovesAmong(r, TenantOps)
  <2>1. /\ \A p \in Slot : p # r => call'[p] = call[p]
        /\ call[r].op \in {"key", "keyRead"} /\ call'[r].op \in {"keyRead", "idle"}
    BY <1>6 DEF KeyReads, KeyChecked, GoOn, Respond, ServerTyped, ServerTypeOK, Idle
  <2> QED BY <2>1 DEF MovesAmong, TenantOps
<1> QED BY <1>1, <1>2, <1>3, <1>4, <1>5, <1>6 DEF TenantNext, AddMember, RemoveMember, CreateApiKey,
           RevokeApiKey, CreateWebhook, DispatchTestWebhook

IdemOps == {"lookup", "drop", "work"}

\* The actions of IdempotencyKeys move requests that repeat themselves, or none.
LEMMA IdemMoves ==
  ASSUME ServerTyped, IdemNext
  PROVE  (\E r \in Slot : MovesAmong(r, IdemOps)) \/ UNCHANGED call
<1>1. ASSUME NEW r \in Slot, NEW a \in Address, NEW x \in IdemKey, IdemArrives(r, a, x)
      PROVE  MovesAmong(r, IdemOps)
  BY <1>1 DEF IdemArrives, Arrive, ServerTyped, ServerTypeOK, Idle, MovesAmong, IdemOps
<1>2. ASSUME NEW r \in Slot, Lookup(r) \/ Drop(r) \/ LookupFails(r) \/ Execute(r) \/ ExecuteFails(r)
      PROVE  MovesAmong(r, IdemOps)
  <2> DEFINE x == call[r].idem
  <2>1. \/ Respond(r) \/ GoOn(r, [op |-> "drop", idem |-> x])
        \/ GoOn(r, Work(x, TRUE)) \/ GoOn(r, Work(x, FALSE))
    BY <1>2 DEF Lookup, Drop, LookupFails, Execute, ExecuteFails
  <2>2. /\ \A p \in Slot : p # r => call'[p] = call[p]
        /\ call'[r] \in {Idle, [op |-> "drop", idem |-> x], Work(x, TRUE), Work(x, FALSE)}
    BY <2>1 DEF Respond, GoOn, ServerTyped, ServerTypeOK
  <2>3. call'[r].op \in {"idle", "drop", "work"}
    BY <2>2 DEF Work, Idle
  <2>4. call[r].op \in IdemOps
    BY <1>2 DEF Lookup, Drop, LookupFails, Execute, ExecuteFails, IdemOps
  <2> QED BY <2>2, <2>3, <2>4 DEF MovesAmong, IdemOps
<1>3. ASSUME NEW s \in storing, Store(s) \/ StoreFails(s) PROVE UNCHANGED call
  BY <1>3 DEF Store, StoreFails, serverVars
<1> QED BY <1>1, <1>2, <1>3 DEF IdemNext

\* In a disturbance a request stays where it is, or ends or hangs.
LEMMA DisturbanceMoves ==
  ASSUME ServerTyped, Disturbance
  PROVE  \A p \in Slot : call'[p] = call[p] \/ call'[p].op \in {"idle", "rejected"}
<1>i. Idle.op = "idle" /\ Rejected.op = "rejected"
  BY DEF Idle, Rejected
<1>1. ASSUME NEW r \in Slot, HandlerFails(r) \/ WorkRejects(r) \/ MiddlewareFails(r)
      PROVE  \A p \in Slot : call'[p] = call[p] \/ call'[p].op \in {"idle", "rejected"}
  <2>1. Reject(r) \/ Respond(r)
    BY <1>1 DEF HandlerFails, WorkRejects, MiddlewareFails
  <2> QED BY <1>i, <2>1, CallsMove
<1>2. ASSUME Environment
      PROVE  \A p \in Slot : call'[p] = call[p] \/ call'[p].op \in {"idle", "rejected"}
  BY <1>i, <1>2 DEF Environment, ClientLeaves, Signal, ServerTyped, ServerTypeOK
<1>3. ASSUME Clock \/ Restart
      PROVE  \A p \in Slot : call'[p] = call[p] \/ call'[p].op \in {"idle", "rejected"}
  BY <1>3 DEF Clock, Restart, serverVars
<1>4. ASSUME ProcessStops
      PROVE  \A p \in Slot : call'[p] = call[p] \/ call'[p].op \in {"idle", "rejected"}
  BY <1>i, <1>4 DEF ProcessStops, CleanExit, ForcedExit, Crash, ProcessEnds
<1> QED BY <1>1, <1>2, <1>3, <1>4 DEF Disturbance

\* A request that settles has found its invoice, and invoices stay.
SettlesFound == \A r \in Slot : call[r].op = "settle" => invoice[call[r].event.reference] # NoInvoice

LEMMA PaidWhenQuiet ==
  ASSUME PaidOnce, SettlesFound, UNCHANGED billingVars,
         \A r \in Slot : call'[r] = call[r] \/ call'[r].op # "settle"
  PROVE  PaidOnce' /\ SettlesFound'
BY DEF PaidOnce, SettlesFound, billingVars

LEMMA StepPaidOnce ==
  ASSUME TypedAndOwn, PaidOnce, SettlesFound, [Next]_vars
  PROVE  PaidOnce' /\ SettlesFound'
<1>0. ServerTyped /\ BillingTypeOK
  BY DEF TypedAndOwn, TypeOK, ServerTyped, Pending
<1>1. ASSUME NEW r \in Slot, NEW a \in Address, NEW e \in Event, WebhookArrives(r, a, e)
      PROVE  PaidOnce' /\ SettlesFound'
  <2>1. /\ \A p \in Slot : p # r => call'[p] = call[p]
        /\ call'[r].op = "charge"
    BY <1>0, <1>1 DEF WebhookArrives, Arrive, ServerTyped, ServerTypeOK
  <2> QED BY <1>1, <2>1, PaidWhenQuiet DEF WebhookArrives
<1>2. ASSUME NEW r \in Slot, FindInvoice(r)
      PROVE  PaidOnce' /\ SettlesFound'
  <2>1. call[r] \in BillingCall
    BY <1>0, <1>2, OpTellsRecord DEF FindInvoice, ServerTyped, ServerTypeOK
  <2>2. PICK e \in Event : e = call[r].event
    BY <2>1 DEF BillingCall
  <2>3. UNCHANGED <<invoice, payment>>
    BY <1>2 DEF FindInvoice
  <2>4. CASE invoice[e.reference] = NoInvoice
    <3>1. Respond(r) /\ acked' = acked \cup {e}
      BY <1>2, <2>2, <2>4 DEF FindInvoice
    <3>2. /\ \A p \in Slot : p # r => call'[p] = call[p]
          /\ call'[r].op = "idle"
      BY <1>0, <3>1, CallsMove DEF Idle
    <3>3. SettlesFound'
      BY <2>3, <3>2 DEF SettlesFound
    <3>4. PaidOnce'
      BY <2>3, <2>4, <3>1 DEF PaidOnce
    <3> QED BY <3>3, <3>4
  <2>5. CASE invoice[e.reference] # NoInvoice
    <3>1. GoOn(r, [call[r] EXCEPT !.op = "settle"]) /\ acked' = acked
      BY <1>2, <2>2, <2>5 DEF FindInvoice
    <3>2. /\ \A p \in Slot : p # r => call'[p] = call[p]
          /\ call'[r] = [call[r] EXCEPT !.op = "settle"]
      BY <1>0, <3>1 DEF GoOn, ServerTyped, ServerTypeOK
    <3>3. call'[r].event = e
      BY <2>1, <2>2, <3>2 DEF BillingCall
    <3>4. SettlesFound'
      BY <2>3, <2>5, <3>2, <3>3 DEF SettlesFound
    <3>5. PaidOnce'
      BY <2>3, <3>1 DEF PaidOnce
    <3> QED BY <3>4, <3>5
  <2> QED BY <2>4, <2>5
<1>3. ASSUME NEW r \in Slot, Settle(r)
      PROVE  PaidOnce' /\ SettlesFound'
  <2>1. PICK e \in Event : e = call[r].event
    BY <1>0, <1>3, OpTellsRecord DEF Settle, ServerTyped, ServerTypeOK, BillingCall
  <2>2. e.reference \in Invoice /\ invoice[e.reference] # NoInvoice
    BY <1>3, <2>1 DEF Settle, SettlesFound, Event
  <2> DEFINE paid == [status |-> "PAID", amountPaid |-> e.amount]
  <2>3. /\ invoice' = [invoice EXCEPT ![e.reference] = paid]
        /\ payment' = payment \cup {e} /\ acked' = acked \cup {e}
        /\ \A p \in payment : p.reference # e.reference
    BY <1>3, <2>1 DEF Settle, Paid, Unpaid
  <2>4. paid.status = "PAID" /\ paid.amountPaid = e.amount /\ paid # NoInvoice
    BY DEF NoInvoice
  <2> HIDE DEF paid
  <2>5. invoice'[e.reference] = paid /\ \A i \in Invoice : i # e.reference => invoice'[i] = invoice[i]
    BY <1>0, <2>2, <2>3 DEF BillingTypeOK
  <2>6. ASSUME NEW i \in Invoice
        PROVE  LET found == { p \in payment' : p.reference = i } IN
               IF invoice'[i].status = "PAID"
               THEN \E p \in found : found = {p} /\ invoice'[i].amountPaid = p.amount
               ELSE found = {}
    <3>1. CASE i = e.reference
      <4>1. { p \in payment' : p.reference = i } = {e}
        BY <2>3, <3>1
      <4> QED BY <2>4, <2>5, <3>1, <4>1
    <3>2. CASE i # e.reference
      <4>1. { p \in payment' : p.reference = i } = { p \in payment : p.reference = i }
        BY <2>3, <3>2
      <4>2. invoice'[i] = invoice[i]
        BY <2>5, <3>2
      <4> QED BY <4>1, <4>2 DEF PaidOnce
    <3> QED BY <3>1, <3>2
  <2>7. \A f \in acked' : invoice'[f.reference] # NoInvoice => f \in payment'
    <3>1. ASSUME NEW f \in acked', invoice'[f.reference] # NoInvoice, f # e
          PROVE  f \in payment'
      <4>1. f \in acked /\ f.reference \in Invoice
        BY <1>0, <2>3, <3>1 DEF BillingTypeOK, Event
      <4>2. invoice[f.reference] # NoInvoice
        BY <2>2, <2>5, <3>1, <4>1
      <4> QED BY <2>3, <4>1, <4>2 DEF PaidOnce
    <3> QED BY <2>3, <3>1
  <2>8. PaidOnce'
    BY <2>6, <2>7 DEF PaidOnce
  <2>9. /\ \A p \in Slot : p # r => call'[p] = call[p]
        /\ call'[r].op = "idle"
    BY <1>0, <1>3, CallsMove DEF Settle, Idle
  <2>10. ASSUME NEW p \in Slot, call'[p].op = "settle"
         PROVE  invoice'[call'[p].event.reference] # NoInvoice
    <3>1. p # r /\ call'[p] = call[p]
      BY <2>9, <2>10
    <3>2. PICK f \in Event : f = call[p].event /\ invoice[f.reference] # NoInvoice
      BY <1>0, <2>10, <3>1, OpTellsRecord DEF SettlesFound, ServerTyped, ServerTypeOK, BillingCall
    <3>3. f.reference \in Invoice
      BY DEF Event
    <3> QED BY <2>4, <2>5, <3>1, <3>2, <3>3
  <2> QED BY <2>8, <2>10 DEF SettlesFound
<1>4. CASE TenantNext /\ UNCHANGED <<billingVars, idemVars>>
  <2>1. PICK r \in Slot : MovesAmong(r, TenantOps)
    BY <1>0, <1>4, TenantMoves
  <2>2. \A p \in Slot : call'[p] = call[p] \/ call'[p].op # "settle"
    BY <2>1 DEF MovesAmong, TenantOps
  <2> QED BY <1>4, <2>2, PaidWhenQuiet
<1>5. CASE IdemNext /\ UNCHANGED <<tenantVars, billingVars>>
  <2>1. \A p \in Slot : call'[p] = call[p] \/ call'[p].op # "settle"
    BY <1>0, <1>5, IdemMoves DEF MovesAmong, IdemOps
  <2> QED BY <1>5, <2>1, PaidWhenQuiet
<1>6. CASE Disturbance
  <2>1. UNCHANGED billingVars
    BY <1>6 DEF Disturbance, HandlerFails, WorkRejects, MiddlewareFails, Environment, Clock, ProcessStops
  <2> QED BY <1>0, <1>6, <2>1, DisturbanceMoves, PaidWhenQuiet
<1>7. CASE UNCHANGED vars
  BY <1>7, PaidWhenQuiet DEF vars, serverVars
<1> QED BY <1>1, <1>2, <1>3, <1>4, <1>5, <1>6, <1>7 DEF Next, Disturbance, BillingNext

\* Whatever the provider delivers, in whatever order and however often, and wherever a
\* process stops: an invoice is paid by exactly one payment and shows its amount.
THEOREM PaymentsHappenOnce == Spec => []PaidOnce
<1>1. Init => PaidOnce /\ SettlesFound
  BY DEF Init, BillingInit, ServerInit, PaidOnce, SettlesFound, NoInvoice, Idle
<1> QED BY <1>1, StepPaidOnce, AlwaysTypedAndOwn, PTL DEF Spec

-----------------------------------------------------------------------------
(* Limits *)

\* What window w remembers at instant t of the passes it counted: those up to the first of
\* its count came no later than it opened, and those up to the first of the window before it
\* more than a span before that. A window that is gone was over.
Remembers(w, times, max, span, t) ==
  /\ \A n \in DOMAIN times : times[n] <= t
  /\ \/ /\ w = NoWindow
        /\ \A n \in DOMAIN times : n <= Len(times) - max + 1 => times[n] + span < t
     \/ /\ w \in Window(max, span)
        /\ w.reset - span <= t
        /\ \A n \in DOMAIN times : n <= Len(times) - w.count + 1 => times[n] <= w.reset - span
        /\ \A n \in DOMAIN times :
             n <= Len(times) - w.count - max + 1 => times[n] + span < w.reset - span

\* Windows and the instants of passes are made of natural numbers.
LEMMA LimitNumbers ==
  ASSUME NEW max \in Nat \ {0}, NEW span \in Nat
  PROVE  /\ MaxNow \in Nat /\ 0..MaxNow \subseteq Nat
         /\ \A w \in Window(max, span) : w.count \in Nat /\ w.count >= 1 /\ w.count <= max /\ w.reset \in Nat
         /\ \A times \in Seq(0..MaxNow) :
              /\ Len(times) \in Nat /\ DOMAIN times = 1..Len(times)
              /\ \A n \in DOMAIN times : times[n] \in Nat
<1>1. MaxNow \in Nat
  BY LimitsAssumption
<1>2. 0..MaxNow \subseteq Nat
  BY <1>1
<1>3. ASSUME NEW w \in Window(max, span)
      PROVE  w.count \in Nat /\ w.count >= 1 /\ w.count <= max /\ w.reset \in Nat
  <2>1. w.count \in 1..max /\ w.reset \in span..(MaxNow + span)
    BY DEF Window
  <2> QED BY <1>1, <2>1
<1>4. ASSUME NEW times \in Seq(0..MaxNow)
      PROVE  /\ Len(times) \in Nat /\ DOMAIN times = 1..Len(times)
             /\ \A n \in DOMAIN times : times[n] \in Nat
  BY <1>1
<1> QED BY <1>1, <1>2, <1>3, <1>4

\* A pass at instant t that a window allows is remembered by the window that counts it, and
\* is the last of 2 * max passes that take more than a span.
LEMMA PassRemembered ==
  ASSUME NEW max \in Nat \ {0}, NEW span \in Nat, NEW t \in 0..MaxNow, NEW times \in Seq(0..MaxNow),
         NEW w, Remembers(w, times, max, span, t), Spread(times, max, span),
         NEW v \in Window(max, span),
         \/ /\ w = NoWindow \/ t > w.reset
            /\ v.count = 1 /\ v.reset = t + span
         \/ w # NoWindow /\ w.count < max /\ v.count = w.count + 1 /\ v.reset = w.reset
  PROVE  /\ Remembers(v, Append(times, t), max, span, t)
         /\ Spread(Append(times, t), max, span)
<1> DEFINE new == Append(times, t)
<1>0. /\ MaxNow \in Nat /\ t \in Nat /\ Len(times) \in Nat
      /\ DOMAIN times = 1..Len(times) /\ \A n \in DOMAIN times : times[n] \in Nat
      /\ v.count \in Nat /\ v.reset \in Nat
      /\ w # NoWindow => /\ w \in Window(max, span)
                         /\ w.count \in Nat /\ w.count >= 1 /\ w.count <= max /\ w.reset \in Nat
  BY LimitNumbers DEF Remembers
<1>1. /\ Len(new) = Len(times) + 1 /\ DOMAIN new = 1..(Len(times) + 1)
      /\ new[Len(times) + 1] = t
      /\ \A n \in 1..Len(times) : new[n] = times[n]
  BY <1>0
<1> HIDE DEF new
<1>2. \A n \in DOMAIN new : new[n] <= t
  <2>1. \A n \in DOMAIN times : times[n] <= t
    BY DEF Remembers
  <2>2. PICK L \in Nat : L = Len(times) /\ DOMAIN times = 1..L
    BY <1>0
  <2>3. DOMAIN new = 1..(L + 1) /\ new[L + 1] = t /\ \A n \in 1..L : new[n] = times[n]
    BY <1>1, <2>2
  <2>4. \A n \in 1..(L + 1) : n \in 1..L \/ n = L + 1
    BY <2>2
  <2>5. t <= t
    BY <1>0
  <2> QED BY <2>1, <2>2, <2>3, <2>4, <2>5
<1>3. ASSUME NEW n \in DOMAIN new, n >= 2 * max, n \in DOMAIN times PROVE new[n] - new[n - 2 * max + 1] > span
  <2>0. PICK L \in Nat : L = Len(times) /\ DOMAIN times = 1..L
    BY <1>0
  <2>m. max \in Nat /\ max >= 1 /\ n \in 1..L
    BY <1>3, <2>0
  <2>n. n - 2 * max + 1 \in 1..L
    BY <1>3, <2>m
  <2>1. n - 2 * max + 1 \in 1..Len(times) /\ n \in 1..Len(times)
    BY <2>0, <2>m, <2>n
  <2>2. times[n] - times[n - 2 * max + 1] > span
    BY <1>3 DEF Spread
  <2> QED BY <1>1, <2>1, <2>2
<1>4. CASE (w = NoWindow \/ t > w.reset) /\ v.count = 1 /\ v.reset = t + span
  <2>1. ASSUME NEW n \in DOMAIN times, n <= Len(times) - max + 1 PROVE times[n] + span < t
    <3>1. CASE w = NoWindow
      BY <2>1, <3>1 DEF Remembers, NoWindow, Window
    <3>2. CASE w # NoWindow
      <4>l. PICK L \in Nat : L = Len(times) /\ DOMAIN times = 1..L
        BY <1>0
      <4>c. PICK c \in Nat : c = w.count /\ c <= max
        BY <1>0, <3>2
      <4>n. n \in 1..L /\ n <= L - max + 1 /\ max \in Nat
        BY <2>1, <4>l
      <4>1. n \in Nat /\ n <= Len(times) - w.count + 1
        BY <4>l, <4>c, <4>n
      <4>2. times[n] <= w.reset - span
        BY <2>1, <3>2, <4>1 DEF Remembers
      <4>3. times[n] \in Nat /\ w.reset \in Nat /\ t > w.reset
        BY <1>0, <1>4, <2>1, <3>2
      <4> QED BY <1>0, <4>2, <4>3
    <3> QED BY <3>1, <3>2
  <2>2. ASSUME NEW n \in DOMAIN new, n <= Len(new) - v.count - max + 1 PROVE new[n] + span < v.reset - span
    <3>1. n \in 1..Len(times) /\ n <= Len(times) - max + 1
      BY <1>0, <1>1, <1>4, <2>2
    <3>2. times[n] + span < t /\ new[n] = times[n] /\ times[n] \in Nat
      BY <1>0, <1>1, <2>1, <3>1
    <3> QED BY <1>0, <1>4, <3>2
  <2>3. ASSUME NEW n \in DOMAIN new, n <= Len(new) - v.count + 1 PROVE new[n] <= v.reset - span
    BY <1>0, <1>2, <1>4
  <2>4. v.reset - span <= t
    BY <1>0, <1>4
  <2>5. Remembers(v, new, max, span, t)
    BY <1>0, <1>2, <2>2, <2>3, <2>4 DEF Remembers
  <2>6. ASSUME NEW n \in DOMAIN new, n >= 2 * max, n = Len(times) + 1 PROVE new[n] - new[n - 2 * max + 1] > span
    <3>1. n - 2 * max + 1 \in 1..Len(times) /\ n - 2 * max + 1 <= Len(times) - max + 1
      BY <1>0, <2>6
    <3>2. PICK k \in 1..Len(times) : k = n - 2 * max + 1 /\ k <= Len(times) - max + 1
      BY <3>1
    <3>3. times[k] + span < t /\ new[k] = times[k] /\ times[k] \in Nat /\ new[n] = t
      BY <1>0, <1>1, <2>1, <2>6, <3>2
    <3> QED BY <1>0, <3>2, <3>3
  <2>7. ASSUME NEW n \in DOMAIN new, n >= 2 * max PROVE new[n] - new[n - 2 * max + 1] > span
    BY <1>0, <1>1, <1>3, <2>6, <2>7
  <2> QED BY <2>5, <2>7 DEF Spread, new
<1>5. CASE w # NoWindow /\ w.count < max /\ v.count = w.count + 1 /\ v.reset = w.reset
  <2>0. PICK c \in Nat : c = w.count /\ v.count = c + 1 /\ c >= 1
    BY <1>0, <1>5
  <2>l. PICK L \in Nat : L = Len(times) /\ DOMAIN times = 1..L /\ Len(new) = L + 1 /\ DOMAIN new = 1..(L + 1)
    BY <1>0, <1>1
  <2>n. PICK R \in Nat : R = v.reset /\ R - span <= t
    BY <1>0, <1>5 DEF Remembers
  <2>1. /\ \A n \in 1..L : n <= L - c + 1 => times[n] <= R - span
        /\ \A n \in 1..L : n <= L - c - max + 1 => times[n] + span < R - span
    BY <1>5, <2>0, <2>l, <2>n DEF Remembers
  <2>m. max \in Nat /\ c \in Nat /\ L \in Nat /\ max >= 1
    BY <2>0, <2>l
  <2>2. ASSUME NEW n \in 1..(L + 1), n <= L - c + 1 PROVE n \in 1..L
    BY <2>0, <2>2, <2>m
  <2>3. \A n \in 1..L : new[n] = times[n]
    BY <1>1, <2>l
  <2>4. ASSUME NEW n \in DOMAIN new, n <= Len(new) - v.count + 1 PROVE new[n] <= v.reset - span
    <3>0. Len(new) - v.count + 1 = (L + 1) - (c + 1) + 1
      BY <2>0, <2>l, Zenon
    <3>1. n \in 1..(L + 1) /\ n <= L + 1 - (c + 1) + 1
      BY <2>l, <2>4, <3>0
    <3>2. n <= L - c + 1
      BY <2>m, <3>1
    <3>3. n \in 1..L
      BY <2>2, <3>1, <3>2
    <3> QED BY <2>1, <2>3, <2>n, <3>2, <3>3
  <2>5. ASSUME NEW n \in DOMAIN new, n <= Len(new) - v.count - max + 1 PROVE new[n] + span < v.reset - span
    <3>1. n \in 1..(L + 1) /\ Len(new) - v.count - max + 1 = (L + 1) - (c + 1) - max + 1
      BY <2>0, <2>l
    <3>2. n \in Nat
      BY <2>m, <3>1
    <3>4. (L + 1) - (c + 1) - max + 1 = L - c - max + 1
      BY <2>m
    <3>5. n <= L - c - max + 1
      BY <2>5, <3>1, <3>4
    <3>6. n <= L - c + 1
      BY <2>m, <3>2, <3>5
    <3>3. n \in 1..L
      BY <2>2, <3>1, <3>6
    <3>7. times[n] + span < R - span
      BY <2>1, <3>5, <3>3
    <3> QED BY <2>3, <2>n, <3>3, <3>7
  <2>6. Remembers(v, new, max, span, t)
    BY <1>2, <2>n, <2>4, <2>5 DEF Remembers
  <2>7. ASSUME NEW n \in DOMAIN new, n >= 2 * max, n = L + 1 PROVE new[n] - new[n - 2 * max + 1] > span
    <3>1. c < max
      BY <1>5, <2>0
    <3>2. n - 2 * max + 1 \in 1..L /\ n - 2 * max + 1 <= L - c - max + 1
      BY <2>7, <2>m, <3>1
    <3>3. PICK k \in 1..L : k = n - 2 * max + 1 /\ k <= L - c - max + 1
      BY <3>2
    <3>4. times[k] + span < R - span /\ new[k] = times[k] /\ times[k] \in Nat /\ new[n] = t
      BY <1>0, <1>1, <2>1, <2>3, <2>7, <2>l, <3>3
    <3>5. t - times[k] > span
      <4>1. PICK x \in Nat : x = times[k] /\ x + span < R - span
        BY <3>4
      <4>2. t \in Nat /\ span \in Nat /\ R \in Nat /\ R - span <= t
        BY <1>0, <2>n
      <4>3. t - x > span
        BY <4>1, <4>2
      <4> QED BY <4>1, <4>3
    <3> QED BY <3>3, <3>4, <3>5
  <2>8. ASSUME NEW n \in DOMAIN new, n >= 2 * max PROVE new[n] - new[n - 2 * max + 1] > span
    <3>1. n \in 1..L \/ n = L + 1
      BY <2>l
    <3> QED BY <1>3, <2>7, <2>8, <2>l, <3>1
  <2> QED BY <2>6, <2>8 DEF Spread, new
<1> QED BY <1>4, <1>5

\* Memory outlives the clock and the cleaning of windows that are over.
LEMMA MemoryLasts ==
  ASSUME NEW max \in Nat \ {0}, NEW span \in Nat, NEW t \in Nat, NEW times \in Seq(0..MaxNow),
         NEW w, Remembers(w, times, max, span, t)
  PROVE  /\ Remembers(w, times, max, span, t + 1)
         /\ t > w.reset => Remembers(NoWindow, times, max, span, t)
<1>0. /\ MaxNow \in Nat /\ Len(times) \in Nat
      /\ DOMAIN times = 1..Len(times) /\ \A n \in DOMAIN times : times[n] \in Nat
      /\ w \in Window(max, span) =>
           w.count \in Nat /\ w.count >= 1 /\ w.count <= max /\ w.reset \in Nat
  BY LimitNumbers
<1>1. Remembers(w, times, max, span, t + 1)
  <2>1. \A n \in DOMAIN times : times[n] <= t + 1
    BY <1>0 DEF Remembers
  <2>2. ASSUME w = NoWindow, \A n \in DOMAIN times : n <= Len(times) - max + 1 => times[n] + span < t
        PROVE  \A n \in DOMAIN times : n <= Len(times) - max + 1 => times[n] + span < t + 1
    <3>1. ASSUME NEW x \in Nat, x + span < t PROVE x + span < t + 1
      BY <3>1
    <3> QED BY <1>0, <2>2, <3>1
  <2>3. ASSUME w \in Window(max, span), w.reset - span <= t PROVE w.reset - span <= t + 1
    BY <1>0, <2>3
  <2> QED BY <2>1, <2>2, <2>3 DEF Remembers
<1>2. ASSUME t > w.reset PROVE Remembers(NoWindow, times, max, span, t)
  <2>1. CASE w = NoWindow
    BY <2>1
  <2>2. CASE w \in Window(max, span)
    <3>1. w # NoWindow
      BY <1>0, <2>2 DEF NoWindow
    <3>2. ASSUME NEW n \in DOMAIN times, n <= Len(times) - max + 1 PROVE times[n] + span < t
      <4>1. n \in Nat /\ n <= Len(times) - w.count + 1
        BY <1>0, <2>2, <3>2
      <4>2. times[n] <= w.reset - span
        BY <3>1, <3>2, <4>1 DEF Remembers
      <4>3. times[n] \in Nat /\ w.reset \in Nat
        BY <1>0, <2>2, <3>2
      <4> QED BY <1>2, <4>2, <4>3
    <3>3. \A n \in DOMAIN times : times[n] <= t
      BY DEF Remembers
    <3> QED BY <3>2, <3>3 DEF Remembers
  <2> QED BY <2>1, <2>2 DEF Remembers
<1> QED BY <1>1, <1>2

\* Every counter remembers the passes it let through, and they are spread.
LimitsRemember ==
  /\ \A a \in Address : /\ Remembers(bucket[a], passes[a], MaxRequests, WindowMs, now)
                        /\ Spread(passes[a], MaxRequests, WindowMs)
  /\ \A k \in KeyId : /\ Remembers(keyWindow[k], keyPasses[k], KeyLimit, KeyWindowMs, now)
                      /\ Spread(keyPasses[k], KeyLimit, KeyWindowMs)

\* What counting does to a window that is not full.
LEMMA CountedWindow ==
  ASSUME NEW max \in Nat \ {0}, NEW span \in Nat, now \in 0..MaxNow,
         NEW w \in Window(max, span) \cup {NoWindow}, ~Full(w, max)
  PROVE  \E v \in Window(max, span) :
           /\ v = Counted(w, span)
           /\ \/ /\ w = NoWindow \/ now > w.reset
                 /\ v.count = 1 /\ v.reset = now + span
              \/ w # NoWindow /\ w.count < max /\ v.count = w.count + 1 /\ v.reset = w.reset
<1>1. Counted(w, span) \in Window(max, span)
  BY CountedTyped
<1>2. CASE Over(w)
  BY <1>1, <1>2 DEF Counted, Over
<1>3. CASE ~Over(w)
  <2>1. w \in Window(max, span) /\ w # NoWindow /\ w.count \in Nat /\ w.count < max
    BY <1>3, LimitNumbers DEF Full, Over
  <2>2. Counted(w, span) = [w EXCEPT !.count = @ + 1]
    BY <1>3 DEF Counted
  <2>3. Counted(w, span).count = w.count + 1 /\ Counted(w, span).reset = w.reset
    BY <2>1, <2>2 DEF Window
  <2> QED BY <1>1, <2>1, <2>3
<1> QED BY <1>2, <1>3

LEMMA PassRemembers ==
  ASSUME LimitsTypeOK, LimitsRemember, NEW a \in Address, Pass(a)
  PROVE  LimitsRemember'
<1>0. /\ now \in 0..MaxNow /\ MaxRequests \in Nat \ {0} /\ WindowMs \in Nat
      /\ bucket[a] \in Window(MaxRequests, WindowMs) \cup {NoWindow}
      /\ passes[a] \in Seq(0..MaxNow)
  BY LimitsAssumption DEF LimitsTypeOK
<1>1. PICK v \in Window(MaxRequests, WindowMs) :
        /\ v = Counted(bucket[a], WindowMs)
        /\ \/ /\ bucket[a] = NoWindow \/ now > bucket[a].reset
              /\ v.count = 1 /\ v.reset = now + WindowMs
           \/ /\ bucket[a] # NoWindow /\ bucket[a].count < MaxRequests
              /\ v.count = bucket[a].count + 1 /\ v.reset = bucket[a].reset
  BY <1>0, CountedWindow DEF Pass
<1>2. /\ Remembers(v, Append(passes[a], now), MaxRequests, WindowMs, now)
      /\ Spread(Append(passes[a], now), MaxRequests, WindowMs)
  BY <1>0, <1>1, PassRemembered DEF LimitsRemember
<1>3. /\ bucket' = [bucket EXCEPT ![a] = v]
      /\ passes' = [passes EXCEPT ![a] = Append(passes[a], now)]
      /\ UNCHANGED <<now, keyWindow, keyPasses>>
  BY <1>1 DEF Pass
<1>4. /\ bucket'[a] = v /\ passes'[a] = Append(passes[a], now)
      /\ \A b \in Address : b # a => bucket'[b] = bucket[b] /\ passes'[b] = passes[b]
  BY <1>3 DEF LimitsTypeOK
<1> QED BY <1>2, <1>3, <1>4 DEF LimitsRemember

LEMMA KeyPassRemembers ==
  ASSUME LimitsTypeOK, LimitsRemember, NEW k \in KeyId, KeyPass(k)
  PROVE  LimitsRemember'
<1>0. /\ now \in 0..MaxNow /\ KeyLimit \in Nat \ {0} /\ KeyWindowMs \in Nat
      /\ keyWindow[k] \in Window(KeyLimit, KeyWindowMs) \cup {NoWindow}
      /\ keyPasses[k] \in Seq(0..MaxNow)
  BY LimitsAssumption DEF LimitsTypeOK
<1>1. PICK v \in Window(KeyLimit, KeyWindowMs) :
        /\ v = Counted(keyWindow[k], KeyWindowMs)
        /\ \/ /\ keyWindow[k] = NoWindow \/ now > keyWindow[k].reset
              /\ v.count = 1 /\ v.reset = now + KeyWindowMs
           \/ /\ keyWindow[k] # NoWindow /\ keyWindow[k].count < KeyLimit
              /\ v.count = keyWindow[k].count + 1 /\ v.reset = keyWindow[k].reset
  BY <1>0, CountedWindow DEF KeyPass
<1>2. /\ Remembers(v, Append(keyPasses[k], now), KeyLimit, KeyWindowMs, now)
      /\ Spread(Append(keyPasses[k], now), KeyLimit, KeyWindowMs)
  BY <1>0, <1>1, PassRemembered DEF LimitsRemember
<1>3. /\ keyWindow' = [keyWindow EXCEPT ![k] = v]
      /\ keyPasses' = [keyPasses EXCEPT ![k] = Append(keyPasses[k], now)]
      /\ UNCHANGED <<now, bucket, passes>>
  BY <1>1 DEF KeyPass
<1>4. /\ keyWindow'[k] = v /\ keyPasses'[k] = Append(keyPasses[k], now)
      /\ \A b \in KeyId : b # k => keyWindow'[b] = keyWindow[b] /\ keyPasses'[b] = keyPasses[b]
  BY <1>3 DEF LimitsTypeOK
<1> QED BY <1>2, <1>3, <1>4 DEF LimitsRemember

\* A counter that starts again has nothing to remember.
LEMMA NothingRemembered ==
  ASSUME NEW max \in Nat \ {0}, NEW span, NEW t
  PROVE  Remembers(NoWindow, << >>, max, span, t) /\ Spread(<< >>, max, span)
BY DEF Remembers, Spread

LEMMA StepLimitsRemember ==
  ASSUME TypedAndOwn, LimitsRemember, [Next]_vars
  PROVE  LimitsRemember'
<1>0. LimitsTypeOK /\ ServerTyped
  BY DEF TypedAndOwn, TypeOK, ServerTyped, Pending
<1>n. /\ now \in Nat /\ {WindowMs, KeyWindowMs} \subseteq Nat
      /\ {MaxRequests, KeyLimit} \subseteq Nat \ {0}
      /\ \A a \in Address : passes[a] \in Seq(0..MaxNow)
      /\ \A k \in KeyId : keyPasses[k] \in Seq(0..MaxNow)
  BY <1>0, LimitsAssumption DEF LimitsTypeOK
<1>1. ASSUME UNCHANGED limitVars PROVE LimitsRemember'
  BY <1>1 DEF limitVars, LimitsRemember
<1>2. ASSUME NEW r \in Slot, NEW a \in Address, NEW kind, NEW q, Arrive(r, a, kind, q)
      PROVE  LimitsRemember'
  BY <1>0, <1>2, PassRemembers DEF Arrive
<1>3. ASSUME NEW r \in Slot, KeyChecked(r) PROVE LimitsRemember'
  <2>1. call[r].key \in KeyId
    BY <1>0, <1>3, OpTellsRecord DEF KeyChecked, ServerTyped, ServerTypeOK
  <2> QED BY <1>0, <1>1, <1>3, <2>1, KeyPassRemembers DEF KeyChecked
<1>4. CASE TenantNext
  BY <1>1, <1>2, <1>3, <1>4 DEF TenantNext, TenantArrives, KeyArrives, TenantIsolation, HandlerFinds,
     AddMember, RemoveMember, CreateApiKey, RevokeApiKey, CreateWebhook, DispatchTestWebhook, KeyReads
<1>5. CASE BillingNext
  BY <1>1, <1>2, <1>5 DEF BillingNext, WebhookArrives, FindInvoice, Settle
<1>6. CASE IdemNext
  BY <1>1, <1>2, <1>6 DEF IdemNext, IdemArrives, Lookup, Drop, LookupFails, Execute, ExecuteFails,
     Store, StoreFails
<1>7. CASE \/ \E r \in Slot : HandlerFails(r) \/ WorkRejects(r) \/ MiddlewareFails(r)
           \/ Environment \/ ProcessStops \/ UNCHANGED vars
  BY <1>1, <1>7 DEF HandlerFails, WorkRejects, MiddlewareFails, Environment, ProcessStops, vars
<1>8. CASE TimePasses
  <2>1. \A a \in Address : Remembers(bucket[a], passes[a], MaxRequests, WindowMs, now + 1)
    BY <1>n, MemoryLasts DEF LimitsRemember
  <2>2. \A k \in KeyId : Remembers(keyWindow[k], keyPasses[k], KeyLimit, KeyWindowMs, now + 1)
    BY <1>n, MemoryLasts DEF LimitsRemember
  <2> QED BY <1>8, <2>1, <2>2 DEF TimePasses, LimitsRemember
<1>9. CASE CleanBuckets
  <2>1. \A a \in Address : now > bucket[a].reset => Remembers(NoWindow, passes[a], MaxRequests, WindowMs, now)
    BY <1>n, MemoryLasts DEF LimitsRemember
  <2>2. \A a \in Address : bucket'[a] = IF now > bucket[a].reset THEN NoWindow ELSE bucket[a]
    BY <1>9 DEF CleanBuckets
  <2>3. UNCHANGED <<now, keyWindow, passes, keyPasses>>
    BY <1>9 DEF CleanBuckets
  <2> QED BY <2>1, <2>2, <2>3 DEF LimitsRemember
<1>10. CASE Restart
  <2>1. /\ \A a \in Address : bucket'[a] = NoWindow /\ passes'[a] = << >>
        /\ \A k \in KeyId : keyWindow'[k] = NoWindow /\ keyPasses'[k] = << >>
        /\ now' = now
    BY <1>10 DEF Restart
  <2> QED BY <1>n, <2>1, NothingRemembered DEF LimitsRemember
<1> QED BY <1>4, <1>5, <1>6, <1>7, <1>8, <1>9, <1>10 DEF Next, Clock

\* In no stretch of a window's length do twice the limit pass, around the boundary of two
\* windows and whenever the cleaning runs.
THEOREM LimitsSpread == Spec => []PassesAreSpread
<1>1. ASSUME Init PROVE LimitsRemember
  <2>1. {MaxRequests, KeyLimit} \subseteq Nat \ {0}
    BY LimitsAssumption
  <2>2. /\ \A a \in Address : bucket[a] = NoWindow /\ passes[a] = << >>
        /\ \A k \in KeyId : keyWindow[k] = NoWindow /\ keyPasses[k] = << >>
    BY <1>1 DEF Init, LimitsInit, CountersEmpty
  <2> QED BY <2>1, <2>2, NothingRemembered DEF LimitsRemember
<1>2. LimitsRemember => PassesAreSpread
  BY DEF LimitsRemember, PassesAreSpread
<1> QED BY <1>1, <1>2, StepLimitsRemember, AlwaysTypedAndOwn, PTL DEF Spec

-----------------------------------------------------------------------------
(* Idempotency keys *)

Ran1(x) == executed[x] # << >>

LastRun(x) == executed[x][Len(executed[x])]

\* The last run for key x is so old that its answer is not kept any more.
Aged(x) == Ran1(x) => LastRun(x) + KeepMs <= now

Working(x) == \E r \in Slot : ForKey(r, x) /\ call[r].op = "work"

Storing(x) == \E s \in storing : s.idem = x

Remembered(x) == stored[x] # NoAnswer /\ stored[x].expires = LastRun(x) + KeepMs

Spaced(x) == \A n \in DOMAIN executed[x] : n > 1 => executed[x][n] - executed[x][n - 1] >= KeepMs

\* While nothing of key x overlaps or fails: one thing at most is under way for it, what
\* works or is about to comes when the last run has aged, and the last run is remembered, or
\* its answer is on its way, or the next run is.
OneAtATime(x) ==
  /\ \A p, r \in Slot : ForKey(p, x) /\ ForKey(r, x) => p = r
  /\ (\E r \in Slot : ForKey(r, x)) => ~Storing(x)
  /\ \A s, u \in storing : s.idem = x /\ u.idem = x => s = u
  /\ \A r \in Slot : ForKey(r, x) /\ call[r].op \in {"drop", "work"} => Aged(x)
  /\ \A r \in Slot : ForKey(r, x) /\ call[r].op = "work" => call[r].capture
  /\ \A s \in storing : s.idem = x => Ran1(x) /\ s.row.expires = LastRun(x) + KeepMs
  /\ Ran1(x) => Storing(x) \/ Working(x) \/ Remembered(x)
  /\ Spaced(x)

OnceInv == \A x \in IdemKey \ unsettled : OneAtATime(x)

\* A step that does nothing for key x but let time pass.
KeyIdle(x) ==
  /\ stored'[x] = stored[x] /\ executed'[x] = executed[x]
  /\ \A s : s.idem = x => (s \in storing' <=> s \in storing)
  /\ now \in Nat /\ now' \in Nat /\ now <= now'
  /\ \A r \in Slot : call'[r] = call[r] \/ (~ForKey(r, x) /\ ~(ForKey(r, x))')

\* The last of some instants is an instant.
LEMMA LastInstant ==
  ASSUME NEW times \in Seq(0..MaxNow), times # << >>
  PROVE  /\ Len(times) \in Nat \ {0} /\ Len(times) \in DOMAIN times
         /\ times[Len(times)] \in Nat
<1>1. Len(times) \in Nat \ {0}
  BY EmptySeq
<1>2. DOMAIN times = 1..Len(times) /\ \A n \in DOMAIN times : times[n] \in 0..MaxNow
  BY LenProperties, ElementOfSeq
<1>3. Len(times) \in DOMAIN times
  BY <1>1, <1>2
<1>4. MaxNow \in Nat
  BY LimitsAssumption
<1>5. times[Len(times)] \in 0..MaxNow
  BY <1>2, <1>3
<1> QED BY <1>1, <1>3, <1>4, <1>5

LEMMA OneWhenIdle ==
  ASSUME IdemTypeOK, NEW x \in IdemKey, OneAtATime(x), KeyIdle(x)
  PROVE  OneAtATime(x)'
<1>1. /\ Ran1(x)' = Ran1(x) /\ LastRun(x)' = LastRun(x) /\ Spaced(x)' = Spaced(x)
      /\ Remembered(x)' = Remembered(x)
  BY DEF KeyIdle, Ran1, LastRun, Spaced, Remembered
<1>2. Ran1(x) => LastRun(x) \in Nat
  <2>1. executed[x] \in Seq(0..MaxNow)
    BY DEF IdemTypeOK
  <2> QED BY <2>1, LastInstant DEF Ran1, LastRun
<1>3. Aged(x) => Aged(x)'
  BY <1>1, <1>2, IdempotencyAssumption DEF KeyIdle, Aged
<1>4. \A r \in Slot : /\ (ForKey(r, x))' <=> ForKey(r, x)
                      /\ ForKey(r, x) => call'[r] = call[r]
  BY DEF KeyIdle, ForKey
<1>5. Storing(x)' <=> Storing(x)
  BY DEF KeyIdle, Storing
<1>6. Working(x)' <=> Working(x)
  BY <1>4 DEF Working
<1>7. \A p, r \in Slot : (ForKey(p, x))' /\ (ForKey(r, x))' => p = r
  BY <1>4 DEF OneAtATime
<1>8. (\E r \in Slot : (ForKey(r, x))') => ~Storing(x)'
  BY <1>4, <1>5 DEF OneAtATime
<1>9. \A s, u \in storing' : s.idem = x /\ u.idem = x => s = u
  BY DEF OneAtATime, KeyIdle
<1>10. \A r \in Slot : (ForKey(r, x))' /\ call'[r].op \in {"drop", "work"} => Aged(x)'
  BY <1>3, <1>4 DEF OneAtATime
<1>11. \A r \in Slot : (ForKey(r, x))' /\ call'[r].op = "work" => call'[r].capture
  BY <1>4 DEF OneAtATime
<1>12. \A s \in storing' : s.idem = x => Ran1(x)' /\ s.row.expires = LastRun(x)' + KeepMs
  BY <1>1 DEF OneAtATime, KeyIdle
<1>13. Ran1(x)' => Storing(x)' \/ Working(x)' \/ Remembered(x)'
  BY <1>1, <1>5, <1>6 DEF OneAtATime
<1>14. Spaced(x)'
  BY <1>1 DEF OneAtATime
<1> QED BY <1>7, <1>8, <1>9, <1>10, <1>11, <1>12, <1>13, <1>14 DEF OneAtATime

\* When every key is idle or unsettled, or keeps to one at a time, so do all.
LEMMA OnceWhenIdle ==
  ASSUME IdemTypeOK, OnceInv, unsettled \subseteq unsettled',
         \A x \in IdemKey \ unsettled' : KeyIdle(x) \/ OneAtATime(x)'
  PROVE  OnceInv'
<1>1. ASSUME NEW x \in IdemKey, x \notin unsettled' PROVE OneAtATime(x)'
  <2>1. OneAtATime(x)
    BY <1>1 DEF OnceInv
  <2> QED BY <1>1, <2>1, OneWhenIdle
<1> QED BY <1>1 DEF OnceInv

\* A step that leaves the keys' tables alone and moves no request that repeats itself.
LEMMA OthersIdle ==
  ASSUME TypedAndOwn, UNCHANGED <<stored, storing, executed>>, now' \in Nat, now <= now',
         \A r \in Slot : call'[r] = call[r] \/ (call[r].op \notin IdemOps /\ call'[r].op \notin IdemOps)
  PROVE  \A x \in IdemKey : KeyIdle(x)
<1>1. now \in Nat
  BY LimitsAssumption DEF TypedAndOwn, TypeOK, LimitsTypeOK
<1>2. \A x \in IdemKey, r \in Slot : call'[r] = call[r] \/ (~ForKey(r, x) /\ ~(ForKey(r, x))')
  BY DEF ForKey, IdemOps
<1> QED BY <1>1, <1>2 DEF KeyIdle

\* Tenants, billing and most disturbances leave every key idle.
LEMMA OtherStepsOnce ==
  ASSUME TypedAndOwn, OnceInv,
         \/ TenantNext /\ UNCHANGED <<billingVars, idemVars>>
         \/ BillingNext /\ UNCHANGED <<tenantVars, idemVars>>
         \/ \E r \in Slot : HandlerFails(r) \/ MiddlewareFails(r)
         \/ Environment
         \/ Clock
         \/ Restart /\ UNCHANGED <<tenantVars, billingVars, idemVars>>
         \/ UNCHANGED vars
  PROVE  OnceInv'
<1>0. ServerTyped /\ IdemTypeOK /\ LimitsTypeOK
  BY DEF TypedAndOwn, TypeOK, ServerTyped, Pending
<1>n. now \in Nat
  BY <1>0, LimitsAssumption DEF LimitsTypeOK
<1>i. Idle.op \notin IdemOps /\ Rejected.op \notin IdemOps
  BY DEF Idle, Rejected, IdemOps
<1>q. ASSUME UNCHANGED idemVars, now' \in Nat, now <= now',
             \A r \in Slot : call'[r] = call[r] \/ (call[r].op \notin IdemOps /\ call'[r].op \notin IdemOps)
      PROVE  OnceInv'
  <2>1. \A x \in IdemKey : KeyIdle(x)
    BY <1>q, OthersIdle DEF idemVars
  <2>2. unsettled \subseteq unsettled'
    BY <1>q DEF idemVars
  <2> QED BY <1>0, <2>1, <2>2, OnceWhenIdle
<1>1. CASE TenantNext /\ UNCHANGED <<billingVars, idemVars>>
  <2>1. PICK r \in Slot : MovesAmong(r, TenantOps)
    BY <1>0, <1>1, TenantMoves
  <2>2. \A p \in Slot : call'[p] = call[p] \/ (call[p].op \notin IdemOps /\ call'[p].op \notin IdemOps)
    BY <2>1 DEF MovesAmong, TenantOps, IdemOps
  <2>3. now' = now
    <3>1. ASSUME NEW p \in Slot, NEW a \in Address, NEW kind, NEW q, Arrive(p, a, kind, q) PROVE now' = now
      BY <3>1 DEF Arrive, Pass
    <3>2. ASSUME NEW p \in Slot, KeyChecked(p) PROVE now' = now
      BY <3>2 DEF KeyChecked, KeyPass, limitVars
    <3>3. ASSUME UNCHANGED limitVars PROVE now' = now
      BY <3>3 DEF limitVars
    <3> QED BY <1>1, <3>1, <3>2, <3>3 DEF TenantNext, TenantArrives, KeyArrives, TenantIsolation,
               HandlerFinds, AddMember, RemoveMember, CreateApiKey, RevokeApiKey, CreateWebhook,
               DispatchTestWebhook, KeyReads
  <2> QED BY <1>1, <1>n, <1>q, <2>2, <2>3
<1>2. CASE BillingNext /\ UNCHANGED <<tenantVars, idemVars>>
  <2>1. ASSUME NEW r \in Slot, NEW a \in Address, NEW e \in Event, WebhookArrives(r, a, e)
        PROVE  \A p \in Slot : call'[p] = call[p] \/ (call[p].op \notin IdemOps /\ call'[p].op \notin IdemOps)
    BY <1>0, <2>1 DEF WebhookArrives, Arrive, ServerTyped, ServerTypeOK, Idle, IdemOps
  <2>2. ASSUME NEW r \in Slot, FindInvoice(r)
        PROVE  \A p \in Slot : call'[p] = call[p] \/ (call[p].op \notin IdemOps /\ call'[p].op \notin IdemOps)
    <3>1. call[r] \in BillingCall
      BY <1>0, <2>2, OpTellsRecord DEF FindInvoice, ServerTyped, ServerTypeOK
    <3>2. call'[r] \in {Idle, [call[r] EXCEPT !.op = "settle"]} /\ \A p \in Slot : p # r => call'[p] = call[p]
      BY <1>0, <2>2 DEF FindInvoice, Respond, GoOn, ServerTyped, ServerTypeOK
    <3>3. call'[r].op \in {"idle", "settle"}
      BY <3>1, <3>2 DEF BillingCall, Idle
    <3> QED BY <2>2, <3>2, <3>3 DEF FindInvoice, IdemOps
  <2>3. ASSUME NEW r \in Slot, Settle(r)
        PROVE  \A p \in Slot : call'[p] = call[p] \/ (call[p].op \notin IdemOps /\ call'[p].op \notin IdemOps)
    BY <1>0, <1>i, <2>3, CallsMove DEF Settle, IdemOps
  <2>4. now' = now
    BY <1>2 DEF BillingNext, WebhookArrives, Arrive, Pass, FindInvoice, Settle, limitVars
  <2> QED BY <1>2, <1>n, <1>q, <2>1, <2>2, <2>3, <2>4 DEF BillingNext
<1>3. ASSUME NEW r \in Slot, HandlerFails(r) \/ MiddlewareFails(r) PROVE OnceInv'
  <2>1. call[r].op \notin IdemOps /\ (Reject(r) \/ Respond(r)) /\ UNCHANGED <<limitVars, idemVars>>
    BY <1>3 DEF HandlerFails, MiddlewareFails, IdemOps
  <2>2. \A p \in Slot : call'[p] = call[p] \/ (call[p].op \notin IdemOps /\ call'[p].op \notin IdemOps)
    BY <1>0, <1>i, <2>1, CallsMove
  <2> QED BY <1>n, <1>q, <2>1, <2>2 DEF limitVars
<1>4. CASE Environment
  <2>1. \A p \in Slot : call'[p] = call[p] \/ (call[p] = Rejected /\ call'[p] = Idle)
    BY <1>0, <1>4 DEF Environment, ClientLeaves, Signal, ServerTyped, ServerTypeOK
  <2> QED BY <1>4, <1>i, <1>n, <1>q, <2>1 DEF Environment, limitVars
<1>5. CASE Clock
  <2>1. now' \in Nat /\ now <= now'
    BY <1>5, <1>n DEF Clock, TimePasses, CleanBuckets
  <2> QED BY <1>5, <1>q, <2>1 DEF Clock, serverVars
<1>6. CASE Restart /\ UNCHANGED <<tenantVars, billingVars, idemVars>>
  BY <1>6, <1>n, <1>q DEF Restart
<1>7. CASE UNCHANGED vars
  BY <1>7, <1>n, <1>q DEF vars, serverVars, limitVars
<1> QED BY <1>1, <1>2, <1>3, <1>4, <1>5, <1>6, <1>7

\* A step of slot r for key x leaves the other keys idle.
LEMMA OtherKeysIdle ==
  ASSUME TypedAndOwn, NEW r \in Slot, NEW x \in IdemKey, now' = now,
         call[r].op = "idle" \/ ForKey(r, x),
         call'[r].op \in {"idle", "rejected"} \/ (ForKey(r, x))',
         \A p \in Slot : p # r => call'[p] = call[p],
         \A y \in IdemKey : y # x => stored'[y] = stored[y] /\ executed'[y] = executed[y],
         \A s : s.idem # x => (s \in storing' <=> s \in storing)
  PROVE  \A y \in IdemKey : y # x => KeyIdle(y)
<1>1. now \in Nat
  BY LimitsAssumption DEF TypedAndOwn, TypeOK, LimitsTypeOK
<1>2. ASSUME NEW y \in IdemKey, y # x, NEW p \in Slot
      PROVE  call'[p] = call[p] \/ (~ForKey(p, y) /\ ~(ForKey(p, y))')
  BY <1>2 DEF ForKey
<1> QED BY <1>1, <1>2 DEF KeyIdle

\* A request that begins to wait for key x meets nothing of it, or unsettles it.
LEMMA ArrivesOnce ==
  ASSUME TypedAndOwn, OnceInv, NEW r \in Slot, NEW a \in Address, NEW x \in IdemKey,
         IdemArrives(r, a, x)
  PROVE  OnceInv'
<1>0. ServerTyped /\ IdemTypeOK
  BY DEF TypedAndOwn, TypeOK, ServerTyped, Pending
<1>1. /\ \A p \in Slot : p # r => call'[p] = call[p]
      /\ call[r] = Idle /\ call'[r] = [op |-> "lookup", idem |-> x]
      /\ UNCHANGED <<stored, storing, executed, now>>
  BY <1>0 DEF IdemArrives, Arrive, Pass, ServerTyped, ServerTypeOK
<1>2. call[r].op = "idle" /\ call'[r].op = "lookup" /\ call'[r].idem = x
  BY <1>1 DEF Idle
<1>3. unsettled \subseteq unsettled' /\ (UnderWay(x) => x \in unsettled')
  BY DEF IdemArrives
<1>4. \A y \in IdemKey : y # x => KeyIdle(y)
  BY <1>1, <1>2, OtherKeysIdle DEF ForKey
<1>5. ASSUME x \notin unsettled' PROVE OneAtATime(x)'
  <2>1. OneAtATime(x) /\ ~UnderWay(x)
    BY <1>3, <1>5 DEF OnceInv
  <2>2. ~Storing(x) /\ \A p \in Slot : ~ForKey(p, x)
    BY <2>1 DEF UnderWay, Storing
  <2>3. ~Working(x)
    BY <2>2 DEF Working
  <2>4. ~Storing(x)' /\ \A p \in Slot : (ForKey(p, x))' => p = r
    BY <1>1, <2>2 DEF Storing, ForKey
  <2>5. Ran1(x) => Remembered(x)
    BY <2>1, <2>2, <2>3 DEF OneAtATime
  <2>6. Ran1(x)' => Remembered(x)'
    BY <1>1, <2>5 DEF Ran1, Remembered, LastRun
  <2>7. Spaced(x)'
    BY <1>1, <2>1 DEF OneAtATime, Spaced
  <2> QED BY <1>1, <1>2, <2>4, <2>6, <2>7 DEF OneAtATime, Storing
<1> QED BY <1>0, <1>3, <1>4, <1>5, OnceWhenIdle

\* The middleware looks: what it lets through has aged, or is not the middleware's to keep.
LEMMA LooksOnce ==
  ASSUME TypedAndOwn, OnceInv, NEW r \in Slot, Lookup(r) \/ Drop(r) \/ LookupFails(r)
  PROVE  OnceInv'
<1>0. ServerTyped /\ IdemTypeOK
  BY DEF TypedAndOwn, TypeOK, ServerTyped, Pending
<1>1. PICK x \in IdemKey : x = call[r].idem /\ call[r].op \in {"lookup", "drop"} /\ ForKey(r, x)
  <2>1. call[r].op \in {"lookup", "drop"}
    BY DEF Lookup, Drop, LookupFails
  <2>2. call[r].idem \in IdemKey
    BY <1>0, <2>1, OpTellsRecord DEF ServerTyped, ServerTypeOK
  <2> QED BY <2>1, <2>2 DEF ForKey
<1>2. /\ \A p \in Slot : p # r => call'[p] = call[p]
      /\ call'[r] \in {Idle, [op |-> "drop", idem |-> x], Work(x, TRUE), Work(x, FALSE)}
      /\ UNCHANGED <<storing, executed, now>>
      /\ stored' \in {stored, [stored EXCEPT ![x] = NoAnswer]}
      /\ unsettled' \in {unsettled, unsettled \cup {x}}
  BY <1>0, <1>1 DEF Lookup, Drop, LookupFails, Respond, GoOn, ServerTyped, ServerTypeOK, idemVars, limitVars
<1>3. /\ Idle.op = "idle"
      /\ [op |-> "drop", idem |-> x].op = "drop" /\ [op |-> "drop", idem |-> x].idem = x
      /\ \A capture : Work(x, capture).op = "work" /\ Work(x, capture).idem = x
      /\ Work(x, TRUE).capture
  BY DEF Idle, Work
<1>4. call'[r].op = "idle" \/ (ForKey(r, x))'
  <2>1. CASE call'[r] = Idle
    BY <1>3, <2>1
  <2>2. CASE call'[r] = [op |-> "drop", idem |-> x]
    BY <2>2 DEF ForKey
  <2>3. ASSUME NEW capture, call'[r] = Work(x, capture) PROVE (ForKey(r, x))'
    BY <2>3 DEF ForKey, Work
  <2> QED BY <1>2, <2>1, <2>2, <2>3
<1>5. \A y \in IdemKey : y # x => stored'[y] = stored[y]
  BY <1>0, <1>2 DEF IdemTypeOK
<1>6. \A y \in IdemKey : y # x => KeyIdle(y)
  BY <1>1, <1>2, <1>4, <1>5, OtherKeysIdle
<1>7. unsettled \subseteq unsettled'
  BY <1>2
<1>8. ASSUME x \notin unsettled' PROVE OneAtATime(x)'
  <2>1. OneAtATime(x)
    BY <1>7, <1>8 DEF OnceInv
  <2>2. ~Storing(x) /\ \A p \in Slot : ForKey(p, x) => p = r
    BY <1>1, <2>1 DEF OneAtATime
  <2>3. ~Working(x)
    BY <1>1, <2>2 DEF Working
  <2>4. ~Storing(x)' /\ \A p \in Slot : (ForKey(p, x))' => p = r
    BY <1>2, <2>2 DEF Storing, ForKey
  <2>5. Ran1(x) => Remembered(x)
    BY <2>1, <2>2, <2>3 DEF OneAtATime
  <2>6. Ran1(x)' = Ran1(x) /\ LastRun(x)' = LastRun(x) /\ Spaced(x)' = Spaced(x) /\ Aged(x)' = Aged(x)
    BY <1>2 DEF Ran1, LastRun, Spaced, Aged
  <2>7. ~LookupFails(r)
    BY <1>1, <1>8 DEF LookupFails
  <2>8. CASE Lookup(r)
    <3>0. call[r].op = "lookup" /\ stored' = stored
      BY <2>8 DEF Lookup, idemVars
    <3>1. CASE stored[x] = NoAnswer
      <4>1. call'[r] = Work(x, TRUE)
        BY <1>0, <1>1, <2>8, <3>1 DEF Lookup, GoOn, ServerTyped, ServerTypeOK
      <4>2. Aged(x)
        BY <2>5, <3>1 DEF Aged, Remembered
      <4>3. Working(x)'
        BY <1>3, <4>1 DEF Working, ForKey
      <4>4. Spaced(x)'
        BY <2>1, <2>6 DEF OneAtATime
      <4> QED BY <1>3, <2>4, <2>6, <4>1, <4>2, <4>3, <4>4 DEF OneAtATime, Storing
    <3>2. CASE stored[x] # NoAnswer /\ Expired(x)
      <4>1. call'[r] = [op |-> "drop", idem |-> x]
        BY <1>0, <1>1, <2>8, <3>2 DEF Lookup, GoOn, ServerTyped, ServerTypeOK
      <4>2. Aged(x)
        BY <2>5, <3>2 DEF Aged, Remembered, Expired
      <4>3. Ran1(x)' => Remembered(x)'
        BY <1>2, <2>5, <2>6, <3>0 DEF Remembered
      <4>4. Spaced(x)'
        BY <2>1, <2>6 DEF OneAtATime
      <4> QED BY <1>3, <2>4, <2>6, <4>1, <4>2, <4>3, <4>4 DEF OneAtATime, Storing
    <3>3. CASE stored[x] # NoAnswer /\ ~Expired(x)
      <4>1. call'[r] = Idle
        BY <1>0, <1>1, <2>8, <3>3 DEF Lookup, Respond, ServerTyped, ServerTypeOK
      <4>2. \A p \in Slot : ~(ForKey(p, x))'
        BY <1>3, <2>4, <4>1 DEF ForKey
      <4>3. Ran1(x)' => Remembered(x)'
        BY <1>2, <2>5, <2>6, <3>0 DEF Remembered
      <4>4. Spaced(x)'
        BY <2>1, <2>6 DEF OneAtATime
      <4> QED BY <2>4, <4>2, <4>3, <4>4 DEF OneAtATime, Storing
    <3> QED BY <3>1, <3>2, <3>3
  <2>9. CASE Drop(r)
    <3>1. call'[r] = Work(x, TRUE) /\ call[r].op = "drop"
      BY <1>0, <1>1, <2>9 DEF Drop, GoOn, ServerTyped, ServerTypeOK
    <3>2. Aged(x)
      BY <1>1, <2>1, <3>1 DEF OneAtATime
    <3>3. Working(x)'
      BY <1>3, <3>1 DEF Working, ForKey
    <3>4. Spaced(x)'
      BY <2>1, <2>6 DEF OneAtATime
    <3> QED BY <1>3, <2>4, <2>6, <3>1, <3>2, <3>3, <3>4 DEF OneAtATime, Storing
  <2> QED BY <2>7, <2>8, <2>9
<1> QED BY <1>0, <1>6, <1>7, <1>8, OnceWhenIdle

\* The handler runs when the last run has aged, and its answer is on its way.
LEMMA RunsOnce ==
  ASSUME TypedAndOwn, OnceInv, NEW r \in Slot, Execute(r) \/ ExecuteFails(r) \/ WorkRejects(r)
  PROVE  OnceInv'
<1>0. ServerTyped /\ IdemTypeOK /\ LimitsTypeOK
  BY DEF TypedAndOwn, TypeOK, ServerTyped, Pending
<1>1. PICK x \in IdemKey : x = call[r].idem /\ call[r].op = "work" /\ ForKey(r, x)
  BY <1>0, OpTellsRecord DEF Execute, ExecuteFails, WorkRejects, ServerTyped, ServerTypeOK, ForKey
<1>2. /\ \A p \in Slot : p # r => call'[p] = call[p]
      /\ call'[r].op \in {"idle", "rejected"}
  BY <1>0, CallsMove DEF Execute, ExecuteFails, WorkRejects, Idle, Rejected
<1>3. /\ UNCHANGED <<stored, now>>
      /\ executed' = executed \/ Ran(x)
      /\ unsettled' \in {unsettled, unsettled \cup {x}}
  BY <1>1 DEF Execute, ExecuteFails, WorkRejects, limitVars
<1>4. \A y \in IdemKey : y # x => executed'[y] = executed[y]
  BY <1>0, <1>3 DEF Ran, IdemTypeOK
<1> DEFINE row == [answer |-> Len(executed[x]) + 1, expires |-> now + KeepMs]
           new == [idem |-> x, row |-> row]
<1>5. storing' \in {storing, storing \cup {new}}
  BY <1>1 DEF Execute, ExecuteFails, WorkRejects
<1>6. new.idem = x /\ new.row.expires = now + KeepMs
  OBVIOUS
<1>7. /\ Execute(r) => Ran(x) /\ (call[r].capture => storing' = storing \cup {new})
      /\ ~Execute(r) => x \in unsettled'
  BY <1>1 DEF Execute, ExecuteFails, WorkRejects
<1> HIDE DEF new
<1>8. \A s : s.idem # x => (s \in storing' <=> s \in storing)
  BY <1>5, <1>6
<1>9. \A y \in IdemKey : y # x => KeyIdle(y)
  BY <1>1, <1>2, <1>3, <1>4, <1>8, OtherKeysIdle
<1>10. unsettled \subseteq unsettled'
  BY <1>3
<1>11. ASSUME x \notin unsettled' PROVE OneAtATime(x)'
  <2>1. OneAtATime(x)
    BY <1>10, <1>11 DEF OnceInv
  <2>2. /\ ~Storing(x) /\ Aged(x) /\ call[r].capture
        /\ \A p \in Slot : ForKey(p, x) => p = r
    BY <1>1, <2>1 DEF OneAtATime
  <2>3. /\ executed' = [executed EXCEPT ![x] = Append(executed[x], now)]
        /\ storing' = storing \cup {new}
    BY <1>7, <1>11, <2>2 DEF Ran
  <2>4. \A p \in Slot : ~(ForKey(p, x))'
    BY <1>2, <2>2 DEF ForKey
  <2>5. PICK times \in Seq(0..MaxNow) : times = executed[x]
    BY <1>0 DEF IdemTypeOK
  <2>s. executed'[x] = Append(times, now)
    BY <1>0, <2>3, <2>5 DEF IdemTypeOK
  <2>6. PICK runs \in Seq(0..MaxNow) : runs = Append(times, now) /\ executed'[x] = runs
    BY <1>0, <2>s, AppendProperties DEF LimitsTypeOK
  <2>7. /\ Len(times) \in Nat /\ Len(runs) = Len(times) + 1 /\ runs[Len(runs)] = now
        /\ DOMAIN times = 1..Len(times) /\ DOMAIN runs = 1..(Len(times) + 1)
        /\ \A n \in 1..Len(times) : runs[n] = times[n]
    BY <1>0, <2>6, LenProperties, AppendProperties DEF LimitsTypeOK
  <2>8. runs # << >>
    BY <2>7, EmptySeq
  <2>9. Ran1(x)' /\ LastRun(x)' = now
    BY <2>6, <2>7, <2>8 DEF Ran1, LastRun
  <2>10. \A s \in storing' : s.idem = x => s = new
    BY <2>2, <2>3 DEF Storing
  <2>11. Storing(x)'
    BY <1>6, <2>3 DEF Storing
  <2>12. Spaced(x)'
    <3>1. ASSUME NEW n \in DOMAIN runs, n > 1 PROVE runs[n] - runs[n - 1] >= KeepMs
      <4>1. CASE n \in 1..Len(times)
        <5>1. n - 1 \in 1..Len(times)
          BY <2>7, <3>1, <4>1
        <5>2. times[n] - times[n - 1] >= KeepMs
          BY <2>1, <2>5, <2>7, <3>1, <4>1 DEF OneAtATime, Spaced
        <5> QED BY <2>7, <4>1, <5>1, <5>2
      <4>2. CASE n = Len(times) + 1
        <5>1. n - 1 = Len(times) /\ Len(times) # 0
          BY <2>7, <3>1, <4>2
        <5>2. times # << >>
          BY <5>1, EmptySeq
        <5>3. times[Len(times)] \in Nat /\ Len(times) \in 1..Len(times)
          BY <2>7, <5>2, LastInstant
        <5>4. times[Len(times)] + KeepMs <= now
          BY <2>2, <2>5, <5>2 DEF Aged, Ran1, LastRun
        <5>5. runs[n] = now /\ runs[n - 1] = times[Len(times)]
          BY <2>7, <4>2, <5>1, <5>3
        <5>6. now \in Nat
          BY <1>0, LimitsAssumption DEF LimitsTypeOK
        <5> QED BY <5>3, <5>4, <5>5, <5>6, IdempotencyAssumption
      <4> QED BY <2>7, <4>1, <4>2
    <3> QED BY <2>6, <3>1 DEF Spaced
  <2> QED BY <1>6, <2>4, <2>9, <2>10, <2>11, <2>12 DEF OneAtATime
<1> QED BY <1>0, <1>9, <1>10, <1>11, OnceWhenIdle

\* What nobody waits for is kept, or is lost and unsettles its key.
LEMMA StoresOnce ==
  ASSUME TypedAndOwn, OnceInv, NEW s \in storing, Store(s) \/ StoreFails(s)
  PROVE  OnceInv'
<1>0. IdemTypeOK /\ now \in Nat
  BY LimitsAssumption DEF TypedAndOwn, TypeOK, LimitsTypeOK
<1>1. PICK x \in IdemKey : x = s.idem
  BY <1>0 DEF IdemTypeOK
<1>2. s.row.answer # 0
  BY <1>0 DEF IdemTypeOK, StoredAnswer
<1>3. /\ UNCHANGED <<call, executed, now>> /\ storing' = storing \ {s}
      /\ unsettled' \in {unsettled, unsettled \cup {x}}
      /\ stored' \in {stored, [stored EXCEPT ![x] = s.row]}
  BY <1>1 DEF Store, StoreFails, serverVars, limitVars
<1>4. \A y \in IdemKey : y # x => KeyIdle(y)
  <2>1. \A y \in IdemKey : y # x => stored'[y] = stored[y]
    BY <1>0, <1>3 DEF IdemTypeOK
  <2>2. \A y \in IdemKey : y # x => \A u : u.idem = y => (u \in storing' <=> u \in storing)
    BY <1>1, <1>3
  <2> QED BY <1>0, <1>3, <2>1, <2>2 DEF KeyIdle
<1>5. unsettled \subseteq unsettled'
  BY <1>3
<1>6. ASSUME x \notin unsettled' PROVE OneAtATime(x)'
  <2>1. OneAtATime(x)
    BY <1>5, <1>6 DEF OnceInv
  <2>2. stored' = [stored EXCEPT ![x] = s.row]
    BY <1>1, <1>6 DEF Store, StoreFails
  <2>3. stored'[x] = s.row
    BY <1>0, <2>2 DEF IdemTypeOK
  <2>4. s.row.expires = LastRun(x) + KeepMs /\ Ran1(x)
    BY <1>1, <2>1 DEF OneAtATime
  <2>5. Remembered(x)'
    BY <1>2, <1>3, <2>3, <2>4 DEF Remembered, LastRun, NoAnswer
  <2>6. \A r \in Slot : ~ForKey(r, x)
    BY <1>1, <2>1 DEF OneAtATime, Storing
  <2>7. \A r \in Slot : ~(ForKey(r, x))'
    BY <1>3, <2>6 DEF ForKey
  <2>8. \A u \in storing' : u.idem # x
    BY <1>1, <1>3, <2>1 DEF OneAtATime
  <2>9. Spaced(x)'
    BY <1>3, <2>1 DEF OneAtATime, Spaced
  <2> QED BY <2>5, <2>7, <2>8, <2>9 DEF OneAtATime, Storing
<1> QED BY <1>0, <1>4, <1>5, <1>6, OnceWhenIdle

\* When the process ends, nothing is under way for any key, and what was unsettles its key.
LEMMA EndsOnce ==
  ASSUME TypedAndOwn, OnceInv, ProcessStops
  PROVE  OnceInv'
<1>1. /\ \A r \in Slot : call'[r] = Idle
      /\ storing' = {} /\ UNCHANGED <<stored, executed, now>>
      /\ unsettled' = unsettled \cup { x \in IdemKey : UnderWay(x) }
  BY DEF ProcessStops, CleanExit, ForcedExit, Crash, ProcessEnds, IdemProcessEnds, limitVars
<1>2. ASSUME NEW x \in IdemKey, x \notin unsettled' PROVE OneAtATime(x)'
  <2>1. OneAtATime(x) /\ ~UnderWay(x)
    BY <1>1, <1>2 DEF OnceInv
  <2>2. ~Storing(x) /\ ~Working(x)
    BY <2>1 DEF UnderWay, Storing, Working
  <2>3. \A r \in Slot : ~(ForKey(r, x))'
    BY <1>1 DEF ForKey, Idle
  <2>4. Ran1(x)' => Remembered(x)'
    BY <1>1, <2>1, <2>2 DEF OneAtATime, Ran1, Remembered, LastRun
  <2>5. Spaced(x)'
    BY <1>1, <2>1 DEF OneAtATime, Spaced
  <2> QED BY <1>1, <2>3, <2>4, <2>5 DEF OneAtATime, Storing
<1> QED BY <1>2 DEF OnceInv

LEMMA StepOnce ==
  ASSUME TypedAndOwn, OnceInv, [Next]_vars
  PROVE  OnceInv'
<1>1. CASE IdemNext /\ UNCHANGED <<tenantVars, billingVars>>
  BY <1>1, ArrivesOnce, LooksOnce, RunsOnce, StoresOnce DEF IdemNext
<1>2. ASSUME NEW r \in Slot, WorkRejects(r) PROVE OnceInv'
  BY <1>2, RunsOnce
<1>3. CASE ProcessStops
  BY <1>3, EndsOnce
<1> QED BY <1>1, <1>2, <1>3, OtherStepsOnce DEF Next

\* When a client waits for one answer, and for its storing, before it repeats a request, and
\* nothing fails, the handler runs once while the answer is kept, for every number of keys,
\* slots and processes: nothing else of idempotency.ts keeps two runs apart.
THEOREM RepeatsRunOnce == Spec => []OncePerWindow
<1>1. ASSUME Init PROVE OnceInv
  <2>1. /\ \A x \in IdemKey : executed[x] = << >>
        /\ \A r \in Slot : call[r] = Idle
        /\ storing = {}
    BY <1>1 DEF Init, IdemInit, ServerInit
  <2>2. ASSUME NEW x \in IdemKey PROVE OneAtATime(x)
    <3>1. ~Ran1(x) /\ Spaced(x)
      BY <2>1 DEF Ran1, Spaced
    <3>2. \A r \in Slot : ~ForKey(r, x)
      BY <2>1 DEF ForKey, Idle
    <3> QED BY <2>1, <3>1, <3>2 DEF OneAtATime, Storing
  <2> QED BY <2>2 DEF OnceInv
<1>2. OnceInv => OncePerWindow
  BY DEF OnceInv, OneAtATime, Spaced, OncePerWindow
<1> QED BY <1>1, <1>2, StepOnce, AlwaysTypedAndOwn, PTL DEF Spec
=============================================================================
