---------------------------- MODULE Reconciliation ----------------------------
(***************************************************************************)
(* ReconciliationService.reconcileBatch: one findMany takes the rows of    *)
(* the business; the loop answers every claim of the batch from them       *)
(* without another await; one $transaction saves the job and its results.  *)
(* The counts of a job are those of the statuses of its results.           *)
(***************************************************************************)
EXTENDS TransactionLedger, SequencesExt

CONSTANTS
  BatchAmount,  \* amounts a claim of a batch may state, in 1/1000 NGN
  MaxBatch,     \* how many claims a batch may hold
  BatchCall     \* batches the service may be handling at the same time

\* findMany returns finitely many rows.
ASSUME BatchAssumption ==
  /\ IsFiniteSet(Transaction)
  /\ BatchAmount \subseteq Nat
  /\ MaxBatch \in Nat

VARIABLES
  jobs,       \* the ReconciliationJob rows with their results, in commit order
  batchCall   \* the batch in each slot

batchVars == <<jobs, batchCall>>

\* claim.claimedReference may be spelled in any way; only its key is compared.
BatchClaim == [reference : Reference, amount : BatchAmount]

BatchResult ==
  [ claim       : BatchClaim,
    status      : {"MATCHED", "MISMATCH", "PARTIAL_MATCH", "UNMATCHED"},
    transaction : Transaction \cup {Null} ]   \* matchedTransactionId

Job == [business : Business, results : Seq(BatchResult)]

IdleBatch == [op |-> "idle"]

Answered == [op : {"answered"}, job : Job]

BatchTypeOK ==
  /\ jobs \in Seq(Job)
  /\ batchCall \in [BatchCall -> {IdleBatch} \cup Answered]

BatchInit ==
  /\ jobs      = << >>
  /\ batchCall = [b \in BatchCall |-> IdleBatch]

Owned(b) == { t \in Transaction : Entered(t) /\ ledger[t].owner = b }

\* txMap.get: Map.set keeps the last row of a key.
ByReference(known, key) ==
  LET IsLast(i) == /\ ledger[known[i]].reference.key = key
                   /\ \A j \in DOMAIN known : j > i => ledger[known[j]].reference.key # key
  IN  IF \E i \in DOMAIN known : IsLast(i)
        THEN known[CHOOSE i \in DOMAIN known : IsLast(i)]
        ELSE Null

\* Mutant: the difference is compared without Math.abs.
ByAmountSigned(known, amount) ==
  LET Test(i)    == ledger[known[i]].amount - amount < 10
      IsFirst(i) == Test(i) /\ \A j \in DOMAIN known : j < i => ~Test(j)
  IN  IF \E i \in DOMAIN known : IsFirst(i)
        THEN known[CHOOSE i \in DOMAIN known : IsFirst(i)]
        ELSE Null

\* knownTransactions.find: the first row with the amount, settled or not, although
\* the comment above it says "among unsettled transactions", and whether another
\* claim has it already or not.
ByAmount(known, amount) ==
  LET Test(i)    == Near(ledger[known[i]].amount, amount)
      IsFirst(i) == Test(i) /\ \A j \in DOMAIN known : j < i => ~Test(j)
  IN  IF \E i \in DOMAIN known : IsFirst(i)
        THEN known[CHOOSE i \in DOMAIN known : IsFirst(i)]
        ELSE Null

\* Mutant: a known reference is a match, whatever the amount.
AnswerByReference(known, claim) ==
  LET t == ByReference(known, claim.reference.key)
      f == ByAmount(known, claim.amount)
  IN  CASE t # Null -> [claim |-> claim, status |-> "MATCHED", transaction |-> t]
        [] t = Null /\ f # Null -> [claim |-> claim, status |-> "PARTIAL_MATCH", transaction |-> f]
        [] OTHER -> [claim |-> claim, status |-> "UNMATCHED", transaction |-> Null]

Answer(known, claim) ==
  LET t == ByReference(known, claim.reference.key)
      f == ByAmount(known, claim.amount)
  IN  CASE t # Null /\ Near(ledger[t].amount, claim.amount) ->
             [claim |-> claim, status |-> "MATCHED", transaction |-> t]
        [] t # Null /\ ~Near(ledger[t].amount, claim.amount) ->
             [claim |-> claim, status |-> "MISMATCH", transaction |-> t]
        [] t = Null /\ f # Null ->
             [claim |-> claim, status |-> "PARTIAL_MATCH", transaction |-> f]
        [] OTHER ->
             [claim |-> claim, status |-> "UNMATCHED", transaction |-> Null]

\* findMany has no orderBy: the rows come in any order, the same for all claims.
ReconcileBatch(c, b, claims) ==
  /\ batchCall[c].op = "idle"
  /\ Call
  /\ \E known \in SetToSeqs(Owned(b)) :
       batchCall' = [batchCall EXCEPT ![c] =
         [ op  |-> "answered",
           job |-> [ business |-> b,
                     results  |-> [i \in DOMAIN claims |-> Answer(known, claims[i])] ] ]]
  /\ UNCHANGED jobs

SaveJob(c) ==
  /\ batchCall[c].op = "answered"
  /\ jobs' = Append(jobs, batchCall[c].job)
  /\ batchCall' = [batchCall EXCEPT ![c] = IdleBatch]
  /\ UNCHANGED calls

BatchFails(c) ==
  /\ batchCall[c].op # "idle"
  /\ batchCall' = [batchCall EXCEPT ![c] = IdleBatch]
  /\ UNCHANGED <<jobs, calls>>

Batches == UNION { [1..n -> BatchClaim] : n \in 0..MaxBatch }

BatchNext ==
  \E c \in BatchCall :
    \/ \E b \in Business, claims \in Batches : ReconcileBatch(c, b, claims)
    \/ SaveJob(c)
    \/ BatchFails(c)
=============================================================================
