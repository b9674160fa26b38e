------------------------------ MODULE BillingService ------------------------------
(***************************************************************************)
(* The charge.success webhook of Paystack, which delivers an event again   *)
(* until it is answered 200. Invoices come from outside this code; other   *)
(* events, plans and checkouts write nothing. The signature is checked     *)
(* before; what fails it is rejected and changes nothing.                  *)
(***************************************************************************)
EXTENDS HttpServer

CONSTANTS
  Invoice,   \* references: the invoiceNumber of an invoice or of none
  ChargeId,  \* data.id of the charges
  Amount     \* amounts, in naira

ASSUME BillingAssumption == Amount \subseteq Nat

\* The charge.success events that may come.
Event == [reference : Invoice, id : ChargeId, amount : Amount]

VARIABLES
  invoice,  \* the Invoice table, by invoiceNumber
  payment,  \* the Payment table
  acked     \* history: events that were answered 200

billingVars == <<invoice, payment, acked>>

InvoiceRow == [status : {"OPEN", "PAID"}, amountPaid : Amount \cup {0}]

NoInvoice == [status |-> "none", amountPaid |-> 0]

\* row: the invoice that findFirst found.
BillingCall == [op : {"charge", "settle"}, event : Event]

BillingTypeOK ==
  /\ invoice \in [Invoice -> InvoiceRow \cup {NoInvoice}]
  /\ payment \subseteq Event
  /\ acked \subseteq Event

BillingInit ==
  /\ invoice \in [Invoice -> {NoInvoice, [status |-> "OPEN", amountPaid |-> 0]}]
  /\ payment = {} /\ acked = {}

WebhookArrives(r, a, e) ==
  /\ Arrive(r, a, "charge", [op |-> "charge", event |-> e])
  /\ UNCHANGED billingVars

\* Without an invoice the event counts as processed.
FindInvoice(r) ==
  LET q == call[r] IN
  /\ q.op = "charge"
  /\ IF invoice[q.event.reference] = NoInvoice
     THEN Respond(r) /\ acked' = acked \cup {q.event}
     ELSE GoOn(r, [q EXCEPT !.op = "settle"]) /\ UNCHANGED acked
  /\ UNCHANGED <<limitVars, invoice, payment>>

\* paymentReference and paystackReference are unique.
Unpaid(e) == \A p \in payment : p.reference # e.reference /\ p.id # e.id

Paid(e) == [invoice EXCEPT ![e.reference] = [status |-> "PAID", amountPaid |-> e.amount]]

\* Mutant: the two writes are no transaction; the first stays when the second fails.
SettleInTwo(r) ==
  LET q == call[r] IN
  /\ q.op = "settle"
  /\ invoice' = Paid(q.event)
  /\ IF Unpaid(q.event)
     THEN Respond(r) /\ payment' = payment \cup {q.event} /\ acked' = acked \cup {q.event}
     ELSE Reject(r) /\ UNCHANGED <<payment, acked>>
  /\ UNCHANGED limitVars

\* Invoice and payment in one transaction; the status the invoice has is not looked at.
Settle(r) ==
  LET q == call[r] IN
  /\ q.op = "settle"
  /\ Unpaid(q.event)
  /\ invoice' = Paid(q.event)
  /\ payment' = payment \cup {q.event}
  /\ acked'   = acked \cup {q.event}
  /\ Respond(r)
  /\ UNCHANGED limitVars

BillingNext ==
  \E r \in Slot :
    \/ \E a \in Address, e \in Event : WebhookArrives(r, a, e)
    \/ FindInvoice(r)
    \/ Settle(r)
=============================================================================
