--------------------------- MODULE TransactionLedger ---------------------------
(***************************************************************************)
(* TransactionsService: createTransaction and updateTransactionStatus over *)
(* the Transaction and TransactionEvent tables.  A row is inserted with    *)
(* its first event in one $transaction; an update reads the status in one  *)
(* statement and writes row and event in a later $transaction.             *)
(*                                                                         *)
(* A row belongs to the business in the context of the call, or to none.   *)
(* (The service takes any context; of the middleware only tenantIsolation  *)
(* and requireApiKey set businessId, and no route that creates a           *)
(* transaction mounts either.)                                             *)
(***************************************************************************)
EXTENDS Integers, Sequences

CONSTANTS
  Transaction,      \* ids of the Transaction rows that may be created
  Business,         \* tenants
  ReferenceKey,     \* publicReference in lower case
  Spelling,         \* the ways to write a reference in upper and lower case
  LedgerAmount,     \* amounts a Decimal(14, 2) column holds, in 1/1000 NGN
  RoundsDown,       \* amounts a for which |a - (a + 0.01)| < 0.01 in floating point
  InitialStatus,    \* the claimedStatus a request may give
  NewStatus,        \* the statuses an operator asks for
  StatusCall,       \* updates the service may be handling at the same time
  Null,             \* SQL NULL; as a status: the row does not exist
  MaxCalls          \* how many requests the server receives in a behaviour

TransactionStatus ==
  { "PENDING", "SUCCESS", "FAILED", "REVERSED", "PARTIALLY_REFUNDED",
    "DISPUTED", "UNKNOWN" }

Reference == [key : ReferenceKey, spelling : Spelling]

ASSUME LedgerAssumption ==
  /\ LedgerAmount \subseteq Nat
  /\ InitialStatus \subseteq TransactionStatus
  /\ NewStatus \subseteq TransactionStatus
  /\ MaxCalls \in Nat
  /\ Null \notin TransactionStatus \cup Transaction \cup Business \cup Reference \cup Int

VARIABLES
  ledger,      \* the Transaction table
  log,         \* the TransactionEvent rows of a transaction, in commit order
  statusCall,  \* the update in each slot
  calls        \* how many requests the server has received

ledgerVars == <<ledger, log, statusCall>>

Entry ==
  [ owner     : Business \cup {Null},
    reference : Reference \cup {Null},
    amount    : LedgerAmount \cup {Null},
    status    : TransactionStatus \cup {Null},
    verified  : TransactionStatus \cup {Null} ]   \* verifiedStatus

\* No row.
NoEntry ==
  [ owner |-> Null, reference |-> Null, amount |-> Null, status |-> Null,
    verified |-> Null ]

\* Math.abs(a - b) < 0.01, in 1/1000 NGN; at a difference of exactly 0.01 the
\* answer is that of the rounding of doubles.
Near(a, b) ==
  \/ a - b < 10 /\ b - a < 10
  \/ a - b = 10 /\ b \in RoundsDown
  \/ b - a = 10 /\ a \in RoundsDown

Entered(t) == ledger[t].status # Null

TransactionEvent ==
  [previous : TransactionStatus \cup {Null}, new : TransactionStatus]

IdleCall == [op |-> "idle"]

\* An update in flight: tx.status as it was read, and input.newStatus.
PendingUpdate ==
  [ op : {"update"}, transaction : Transaction, previous : TransactionStatus,
    new : NewStatus ]

LedgerTypeOK ==
  /\ ledger \in [Transaction -> Entry]
  /\ \A t \in Transaction : ~Entered(t) => ledger[t] = NoEntry
  /\ log \in [Transaction -> Seq(TransactionEvent)]
  /\ statusCall \in [StatusCall -> {IdleCall} \cup PendingUpdate]
  /\ calls \in 0..MaxCalls

LedgerInit ==
  /\ ledger     = [t \in Transaction |-> NoEntry]
  /\ log        = [t \in Transaction |-> << >>]
  /\ statusCall = [u \in StatusCall |-> IdleCall]
  /\ calls      = 0

\* A request arrives; it is counted against the bound.
Call ==
  /\ calls < MaxCalls
  /\ calls' = calls + 1

-----------------------------------------------------------------------------
NewEntry(owner, reference, amount, status) ==
  [ owner |-> owner, reference |-> reference, amount |-> amount,
    status |-> status, verified |-> Null ]

\* Nothing makes publicReference unique: rows may share one.
CreateTransaction(t, owner, reference, amount, status) ==
  /\ ~Entered(t)
  /\ Call
  /\ ledger' = [ledger EXCEPT ![t] = NewEntry(owner, reference, amount, status)]
  /\ log'    = [log EXCEPT ![t] = Append(@, [previous |-> Null, new |-> status])]
  /\ UNCHANGED statusCall

-----------------------------------------------------------------------------
(* updateTransactionStatus *)

\* Mutant: the row that findUnique did not find is not noticed.
ReadStatusUnchecked(u, t, new) ==
  /\ statusCall[u].op = "idle"
  /\ Call
  /\ statusCall' = [statusCall EXCEPT ![u] =
       [op |-> "update", transaction |-> t, previous |-> ledger[t].status, new |-> new]]
  /\ UNCHANGED <<ledger, log>>

ReadStatus(u, t, new) ==
  /\ statusCall[u].op = "idle"
  /\ Entered(t)
  /\ Call
  /\ statusCall' = [statusCall EXCEPT ![u] =
       [op |-> "update", transaction |-> t, previous |-> ledger[t].status, new |-> new]]
  /\ UNCHANGED <<ledger, log>>

\* Mutant: the new status is written, verifiedStatus is not.
CommitStatusUnverified(u) ==
  LET q == statusCall[u] IN
  /\ q.op = "update"
  /\ ledger' = [ledger EXCEPT ![q.transaction].status = q.new]
  /\ log' = [log EXCEPT ![q.transaction] = Append(@, [previous |-> q.previous, new |-> q.new])]
  /\ statusCall' = [statusCall EXCEPT ![u] = IdleCall]
  /\ UNCHANGED calls

\* Mutant: the event takes the new status for the one that is left.
CommitStatusSwapped(u) ==
  LET q == statusCall[u] IN
  /\ q.op = "update"
  /\ ledger' = [ledger EXCEPT ![q.transaction].status   = q.new,
                              ![q.transaction].verified = q.new]
  /\ log' = [log EXCEPT ![q.transaction] = Append(@, [previous |-> q.new, new |-> q.new])]
  /\ statusCall' = [statusCall EXCEPT ![u] = IdleCall]
  /\ UNCHANGED calls

CommitStatus(u) ==
  LET q == statusCall[u] IN
  /\ q.op = "update"
  /\ ledger' = [ledger EXCEPT ![q.transaction].status   = q.new,
                              ![q.transaction].verified = q.new]
  /\ log' = [log EXCEPT ![q.transaction] = Append(@, [previous |-> q.previous, new |-> q.new])]
  /\ statusCall' = [statusCall EXCEPT ![u] = IdleCall]
  /\ UNCHANGED calls

\* A statement rejects or the process stops between the read and the commit.
StatusCallFails(u) ==
  /\ statusCall[u].op # "idle"
  /\ statusCall' = [statusCall EXCEPT ![u] = IdleCall]
  /\ UNCHANGED <<ledger, log, calls>>

LedgerNext ==
  \/ \E t \in Transaction, owner \in Business \cup {Null}, r \in Reference,
        a \in LedgerAmount, s \in InitialStatus : CreateTransaction(t, owner, r, a, s)
  \/ \E u \in StatusCall :
       \/ \E t \in Transaction, s \in NewStatus : ReadStatus(u, t, s)
       \/ CommitStatus(u)
       \/ StatusCallFails(u)
=============================================================================
