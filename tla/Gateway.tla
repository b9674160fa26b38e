---------------------------------- MODULE Gateway ----------------------------------
(***************************************************************************)
(* One server process: the requests of tenants, of developer keys, of      *)
(* Paystack and of clients that repeat themselves, behind one limiter,     *)
(* interleaved at their awaits, with signals, crashes and restarts.        *)
(***************************************************************************)
EXTENDS Tenants, BillingService, IdempotencyKeys

vars == <<limitVars, serverVars, tenantVars, billingVars, idemVars>>

Init == LimitsInit /\ ServerInit /\ TenantInit /\ BillingInit /\ IdemInit

\* A query or a write of a controller fails, constraints included.
HandlerFails(r) ==
  /\ call[r].op \in {"find", "write", "charge", "settle"}
  /\ Reject(r)
  /\ UNCHANGED <<limitVars, tenantVars, billingVars, idemVars>>

\* The handler behind the idempotency middleware rejects after it did its work or not.
WorkRejects(r) ==
  LET q == call[r] IN
  /\ q.op = "work"
  /\ Reject(r)
  /\ Ran(q.idem) \/ UNCHANGED executed
  /\ unsettled' = unsettled \cup {q.idem}
  /\ UNCHANGED <<limitVars, tenantVars, billingVars, stored, storing>>

\* A query of a middleware fails: the error handler answers.
MiddlewareFails(r) ==
  /\ call[r].op \in {"tenant", "key"}
  /\ Respond(r)
  /\ UNCHANGED <<limitVars, tenantVars, billingVars, idemVars>>

Environment ==
  /\ \/ \E r \in Slot : ClientLeaves(r)
     \/ Signal
  /\ UNCHANGED <<limitVars, tenantVars, billingVars, idemVars>>

Clock ==
  /\ "time" \in focus
  /\ \/ now < ClockEnd[focus] /\ TimePasses
     \/ Running /\ CleanBuckets
  /\ UNCHANGED <<serverVars, tenantVars, billingVars, idemVars>>

ProcessStops ==
  /\ CleanExit \/ ForcedExit \/ Crash
  /\ IdemProcessEnds
  /\ UNCHANGED <<limitVars, tenantVars, billingVars>>

Next ==
  \/ TenantNext /\ UNCHANGED <<billingVars, idemVars>>
  \/ BillingNext /\ UNCHANGED <<tenantVars, idemVars>>
  \/ IdemNext /\ UNCHANGED <<tenantVars, billingVars>>
  \/ \E r \in Slot : HandlerFails(r) \/ WorkRejects(r) \/ MiddlewareFails(r)
  \/ Environment
  \/ Clock
  \/ ProcessStops
  \/ Restart /\ UNCHANGED <<tenantVars, billingVars, idemVars>>

Spec == Init /\ [][Next]_vars

-----------------------------------------------------------------------------
TypeOK ==
  /\ LimitsTypeOK
  /\ ServerTypeOK(TenantCall \cup KeyCall \cup BillingCall \cup IdemCall)
  /\ TenantTypeOK
  /\ BillingTypeOK
  /\ IdemTypeOK

\* 2 * max passes in a row take more than a span.
Spread(times, max, span) ==
  \A n \in DOMAIN times : n >= 2 * max => times[n] - times[n - 2 * max + 1] > span

\* What the fixed windows do keep, which is less than they announce (see
\* KeyRateIsKept): one pass short of twice the limit in any stretch of a window's
\* length, around a boundary too and whenever stale buckets are cleaned.
PassesAreSpread ==
  /\ \A a \in Address : Spread(passes[a], MaxRequests, WindowMs)
  /\ \A k \in KeyId : Spread(keyPasses[k], KeyLimit, KeyWindowMs)

\* Somebody acts for business b who held, when tenantIsolation looked, a role the
\* route allows: memberships keep their role, and are kept when they are removed.
Authorised(b) ==
  \E r \in Slot :
    /\ call[r].op = "write" /\ call[r].business = b
    /\ \/ call[r].by \in Staff
       \/ \E m \in MemberId :
            /\ member[m].business = b /\ member[m].user = call[r].by
            /\ member[m].role \in Allowed(call[r].want)

\* Members, keys and webhooks of a business change only through a request that
\* came in for that business, from somebody who held an allowed role in it.
TenantsKeepToThemselves ==
  [][ /\ \A m \in MemberId : member'[m] # member[m] => Authorised(member'[m].business)
      /\ \A k \in KeyId : key'[k] # key[k] => Authorised(key'[k].business)
      /\ \A h \in HookId : hook'[h] # hook[h] \/ (h \in delivered' \ delivered)
                             => Authorised(hook'[h]) ]_vars

\* A revocation that was answered holds: no request that arrives later passes with
\* the key, though one that was under way may.
RevokedKeysStop == usedLate = {}

\* However often and with whatever data Paystack delivers, an invoice is paid by
\* exactly one payment, whose amount it shows, and by the time the event is answered.
PaidOnce ==
  /\ \A i \in Invoice :
       LET found == { p \in payment : p.reference = i } IN
       IF invoice[i].status = "PAID"
       THEN \E p \in found : found = {p} /\ invoice[i].amountPaid = p.amount
       ELSE found = {}
  /\ \A e \in acked : invoice[e.reference] # NoInvoice => e \in payment

\* If a client waits for one answer, and for its storing, before it repeats a
\* request, and nothing fails, then the handler runs once while the answer is kept.
OncePerWindow ==
  \A x \in IdemKey \ unsettled :
    \A n \in DOMAIN executed[x] : n > 1 => executed[x][n] - executed[x][n - 1] >= KeepMs

-----------------------------------------------------------------------------
(* What the repository says, and the code does not do. *)

\* "Max N requests per minute", counted by a "sliding-window counter": from one pass
\* of a key to the Nth pass after it a minute goes by.
KeyRateIsKept ==
  \A k \in KeyId : \A n \in DOMAIN keyPasses[k] :
    n > KeyLimit => keyPasses[k][n] - keyPasses[k][n - KeyLimit] >= KeyWindowMs

\* The handler in slot r goes on: the query it waits for comes back or fails.
GoesOn(r) == Next /\ call[r] \notin {Idle, Rejected} /\ call'[r] # call[r]

FairSpec == Spec /\ \A r \in Slot : WF_vars(GoesOn(r))

\* "Every PayRescue endpoint returns a uniform envelope", for success and for error:
\* if no query hangs, nobody waits for an answer for ever.
EveryRequestIsAnswered == \A r \in Slot : r \in waiting ~> r \notin waiting
=============================================================================
