-------------------------- MODULE PaymentLedgerProofs --------------------------
(***************************************************************************)
(* Proofs about PaymentLedger for every set of rows, tenants, references,  *)
(* amounts and handlers, and for every bound.                              *)
(***************************************************************************)
EXTENDS PaymentLedger, WellFoundedInduction, FiniteSetTheorems, TLAPS

-----------------------------------------------------------------------------
(* Types *)

\* The initial state is typed.
LEMMA InitTyped == Init => TypeOK
BY LedgerAssumption
   DEF Init, TypeOK, LedgerInit, VerificationInit, BatchInit, LedgerTypeOK,
       VerificationTypeOK, BatchTypeOK, NoEntry, Entry, NoRequest, RequestRow, Entered

\* A request that arrives keeps the count within its bound.
LEMMA CallTyped ==
  ASSUME calls \in 0..MaxCalls, Call
  PROVE  calls' \in 0..MaxCalls
BY LedgerAssumption DEF Call

\* The ledger's handlers keep its types.
LEMMA LedgerTyped ==
  ASSUME LedgerTypeOK, LedgerNext
  PROVE  LedgerTypeOK'
<1> USE DEF LedgerTypeOK
<1>1. ASSUME NEW t \in Transaction, NEW owner \in Business \cup {Null}, NEW r \in Reference,
             NEW a \in LedgerAmount, NEW s \in InitialStatus, CreateTransaction(t, owner, r, a, s)
      PROVE  LedgerTypeOK'
  <2>1. s \in TransactionStatus
    BY LedgerAssumption
  <2>2. NewEntry(owner, r, a, s) \in Entry
    BY <2>1 DEF NewEntry, Entry
  <2>3. [previous |-> Null, new |-> s] \in TransactionEvent
    BY <2>1 DEF TransactionEvent
  <2>4. log' \in [Transaction -> Seq(TransactionEvent)]
    BY <1>1, <2>3 DEF CreateTransaction
  <2>5. /\ ledger' \in [Transaction -> Entry]
        /\ \A x \in Transaction : ~Entered(x)' => ledger'[x] = NoEntry
    <3>1. NewEntry(owner, r, a, s).status # Null
      BY <2>1, LedgerAssumption DEF NewEntry
    <3> QED BY <1>1, <2>2, <3>1 DEF CreateTransaction, Entered
  <2> QED BY <1>1, <2>4, <2>5, CallTyped DEF CreateTransaction
<1>2. ASSUME NEW u \in StatusCall, NEW t \in Transaction, NEW s \in NewStatus, ReadStatus(u, t, s)
      PROVE  LedgerTypeOK'
  <2>1. ledger[t].status \in TransactionStatus
    BY <1>2 DEF ReadStatus, Entered, Entry
  <2>2. [op |-> "update", transaction |-> t, previous |-> ledger[t].status, new |-> s] \in PendingUpdate
    BY <2>1 DEF PendingUpdate
  <2> QED BY <1>2, <2>2, CallTyped DEF ReadStatus, Entered
<1>3. ASSUME NEW u \in StatusCall, CommitStatus(u)
      PROVE  LedgerTypeOK'
  <2> DEFINE q == statusCall[u]
  <2>1. q \in PendingUpdate
    BY <1>3 DEF CommitStatus, IdleCall
  <2>2. /\ q.transaction \in Transaction
        /\ q.new \in TransactionStatus
        /\ [previous |-> q.previous, new |-> q.new] \in TransactionEvent
    BY <2>1, LedgerAssumption DEF PendingUpdate, TransactionEvent
  <2>3. ledger' \in [Transaction -> Entry]
    BY <1>3, <2>2 DEF CommitStatus, Entry
  <2>4. log' \in [Transaction -> Seq(TransactionEvent)]
    BY <1>3, <2>2 DEF CommitStatus
  <2>5. statusCall' \in [StatusCall -> {IdleCall} \cup PendingUpdate]
    BY <1>3 DEF CommitStatus
  <2>6. \A x \in Transaction : ~Entered(x)' => ledger'[x] = NoEntry
    <3>1. q.new # Null
      BY <2>2, LedgerAssumption
    <3>2. ledger' = [ledger EXCEPT ![q.transaction].status   = q.new,
                                   ![q.transaction].verified = q.new]
      BY <1>3 DEF CommitStatus
    <3>3. ledger'[q.transaction].status = q.new
      BY <2>2, <3>2 DEF Entry
    <3>4. \A x \in Transaction : x # q.transaction => ledger'[x] = ledger[x]
      BY <2>2, <3>2
    <3> QED BY <2>2, <3>1, <3>3, <3>4 DEF Entered
  <2> QED BY <1>3, <2>3, <2>4, <2>5, <2>6 DEF CommitStatus
<1>4. ASSUME NEW u \in StatusCall, StatusCallFails(u)
      PROVE  LedgerTypeOK'
  BY <1>4 DEF StatusCallFails, Entered
<1> QED BY <1>1, <1>2, <1>3, <1>4 DEF LedgerNext

\* A verdict is a typed row.
LEMMA VerdictTyped ==
  ASSUME NEW q \in Found
  PROVE  Verdict(q) \in VerificationResult
<1>1. Confirms(q) \in BOOLEAN
  BY DEF Confirms
<1>2. Confidence(q) \in {"HIGH", "MEDIUM", "LOW", "UNVERIFIED"}
  BY DEF Confidence, Confirms
<1>3. q.claim \in Claim /\ q.transaction \in Transaction \cup {Null} /\ q.seen \in Entry
  BY DEF Found
<1>4. q.seen.amount \in LedgerAmount \cup {Null}
  BY <1>3 DEF Entry
<1> HIDE DEF Confirms, Confidence
<1> QED BY <1>1, <1>2, <1>3, <1>4 DEF Verdict, VerificationResult

\* Verification keeps its own types and the count of calls.
LEMMA VerificationTyped ==
  ASSUME LedgerTypeOK, VerificationTypeOK, VerificationNext
  PROVE  VerificationTypeOK' /\ calls' \in 0..MaxCalls
<1> USE DEF VerificationTypeOK
<1>0. calls \in 0..MaxCalls
  BY DEF LedgerTypeOK
<1>1. ASSUME NEW p \in PaymentRequest, NEW b \in Business, NEW a \in LedgerAmount,
             CreatePaymentRequest(p, b, a)
      PROVE  VerificationTypeOK' /\ calls' \in 0..MaxCalls
  <2>1. [owner |-> b, expected |-> a, isFulfilled |-> FALSE] \in RequestRow
    BY DEF RequestRow
  <2> QED BY <1>0, <1>1, <2>1, CallTyped DEF CreatePaymentRequest
<1>2. ASSUME NEW v \in VerifyCall, NEW b \in Business, NEW p \in PaymentRequest,
             NEW r \in Reference, AskAboutRequest(v, b, p, r)
      PROVE  VerificationTypeOK' /\ calls' \in 0..MaxCalls
  <2> DEFINE claim == [ business |-> b, request |-> p, reference |-> r,
                        expected |-> paymentRequest[p].expected ]
  <2>1. claim \in Claim
    BY DEF Claim, RequestRow
  <2>2. [op |-> "asked", claim |-> claim] \in Asked
    BY <2>1 DEF Asked
  <2> HIDE DEF claim
  <2> QED BY <1>0, <1>2, <2>2, CallTyped DEF AskAboutRequest, claim
<1>3. ASSUME NEW v \in VerifyCall, NEW b \in Business, NEW r \in Reference,
             NEW a \in ClaimedAmount \cup {Null}, Ask(v, b, r, a)
      PROVE  VerificationTypeOK' /\ calls' \in 0..MaxCalls
  <2> DEFINE claim == [business |-> b, request |-> Null, reference |-> r, expected |-> a]
  <2>1. claim \in Claim
    BY DEF Claim
  <2>2. [op |-> "asked", claim |-> claim] \in Asked
    BY <2>1 DEF Asked
  <2> HIDE DEF claim
  <2> QED BY <1>0, <1>3, <2>2, CallTyped DEF Ask, claim
<1>4. ASSUME NEW v \in VerifyCall, FindTransaction(v)
      PROVE  VerificationTypeOK' /\ calls' \in 0..MaxCalls
  <2> DEFINE claim == verifyCall[v].claim
  <2>1. claim \in Claim
    BY <1>4 DEF FindTransaction, IdleVerify, Asked, Found
  <2>2. \A t \in Transaction :
          [op |-> "found", claim |-> claim, transaction |-> t, seen |-> ledger[t]] \in Found
    BY <2>1 DEF Found, LedgerTypeOK
  <2>3. NoEntry \in Entry
    BY DEF NoEntry, Entry
  <2>4. [op |-> "found", claim |-> claim, transaction |-> Null, seen |-> NoEntry] \in Found
    BY <2>1, <2>3 DEF Found
  <2> HIDE DEF claim
  <2> QED BY <1>0, <1>4, <2>2, <2>4 DEF FindTransaction, claim
<1>5. ASSUME NEW v \in VerifyCall, SaveResult(v)
      PROVE  VerificationTypeOK' /\ calls' \in 0..MaxCalls
  <2> DEFINE q == verifyCall[v]
  <2>1. q \in Found
    BY <1>5 DEF SaveResult, IdleVerify, Asked
  <2>2. results' = Append(results, Verdict(q))
    BY <1>5 DEF SaveResult, Verdict
  <2>3. results' \in Seq(VerificationResult)
    BY <2>1, <2>2, VerdictTyped
  <2>4. q.claim.request \in PaymentRequest \cup {Null}
    BY <2>1 DEF Found, Claim
  <2>5. paymentRequest' \in [PaymentRequest -> RequestRow]
    BY <1>5, <2>4 DEF SaveResult, RequestRow
  <2> QED BY <1>0, <1>5, <2>3, <2>5 DEF SaveResult
<1>6. ASSUME NEW v \in VerifyCall, VerifyCallFails(v)
      PROVE  VerificationTypeOK' /\ calls' \in 0..MaxCalls
  BY <1>0, <1>6 DEF VerifyCallFails
<1> QED BY <1>1, <1>2, <1>3, <1>4, <1>5, <1>6 DEF VerificationNext

-----------------------------------------------------------------------------
(* The orders in which rows come back *)

\* A nonempty set of naturals has a least member.
LEMMA LeastIndex ==
  ASSUME NEW T \in SUBSET Nat, T # {}
  PROVE  \E i \in T : \A j \in T : ~(j < i)
<1>1. \E i \in T : \A j \in T : <<j, i>> \notin OpToRel(<, Nat)
  BY NatLessThanWellFounded, WFMin
<1> QED BY <1>1 DEF OpToRel

\* A nonempty set of indices of a sequence has a greatest member.
LEMMA GreatestIndex ==
  ASSUME NEW n \in Nat, NEW T \in SUBSET (1..n), T # {}
  PROVE  \E i \in T : \A j \in T : ~(j > i)
<1> DEFINE U == { n - i : i \in T }
<1>0. \A i \in T : n - i \in Nat
  OBVIOUS
<1>1. U \in SUBSET Nat /\ U # {}
  BY <1>0
<1>2. PICK k \in U : \A j \in U : ~(j < k)
  BY <1>1, LeastIndex
<1>3. PICK i \in T : k = n - i
  OBVIOUS
<1>4. \A j \in T : n - j \in U
  OBVIOUS
<1>5. \A j \in T : ~(n - j < n - i)
  BY <1>2, <1>3, <1>4
<1>6. \A j \in T : j \in Int /\ i \in Int
  OBVIOUS
<1> HIDE DEF U
<1> QED BY <1>5, <1>6

\* Any order of a finite set enumerates it.
LEMMA OrderEnumerates ==
  ASSUME NEW S, IsFiniteSet(S), NEW f \in SetToSeqs(S)
  PROVE  /\ DOMAIN f = 1..Cardinality(S)
         /\ Cardinality(S) \in Nat
         /\ \A i \in DOMAIN f : f[i] \in S
         /\ \A s \in S : \E i \in DOMAIN f : f[i] = s
<1>1. Cardinality(S) \in Nat
  BY FS_CardinalityType
<1> DEFINE D == 1..Cardinality(S)
<1>2. IsFiniteSet(D) /\ Cardinality(D) = Cardinality(S)
  BY <1>1, FS_Interval
<1>3. f \in [D -> S] /\ \A i, j \in D : i # j => f[i] # f[j]
  BY DEF SetToSeqs
<1>4. f \in Injection(D, S)
  BY <1>3 DEF Injection, IsInjective
<1>5. f \in Surjection(D, S)
  BY <1>2, <1>4, FS_Injection
<1> QED BY <1>1, <1>3, <1>5 DEF Surjection

\* The rows of a business are finitely many and none of them is Null.
LEMMA OwnedFinite ==
  ASSUME NEW b
  PROVE  /\ IsFiniteSet(Owned(b))
         /\ Owned(b) \subseteq Transaction
         /\ Null \notin Owned(b)
<1>1. Owned(b) \in SUBSET Transaction
  BY DEF Owned
<1> QED BY <1>1, BatchAssumption, LedgerAssumption, FS_Subset

\* The lookup by reference finds a row of the business with the key if there is one.
LEMMA ByReferenceFinds ==
  ASSUME NEW b, NEW known \in SetToSeqs(Owned(b)), NEW key
  PROVE  LET t == ByReference(known, key) IN
         /\ t # Null => t \in Owned(b) /\ ledger[t].reference.key = key
         /\ t = Null => \A s \in Owned(b) : ledger[s].reference.key # key
<1> DEFINE IsLast(i) == /\ ledger[known[i]].reference.key = key
                        /\ \A j \in DOMAIN known : j > i => ledger[known[j]].reference.key # key
           T == { i \in DOMAIN known : ledger[known[i]].reference.key = key }
           n == Cardinality(Owned(b))
           k == CHOOSE i \in DOMAIN known : IsLast(i)
<1>1. /\ DOMAIN known = 1..n
      /\ n \in Nat
      /\ \A i \in DOMAIN known : known[i] \in Owned(b)
      /\ \A s \in Owned(b) : \E i \in DOMAIN known : known[i] = s
  BY OwnedFinite, OrderEnumerates
<1>2. ByReference(known, key) = IF \E i \in DOMAIN known : IsLast(i) THEN known[k] ELSE Null
  BY DEF ByReference
<1>3. CASE \E i \in DOMAIN known : IsLast(i)
  <2>1. k \in DOMAIN known /\ IsLast(k)
    BY <1>3
  <2>2. known[k] \in Owned(b) /\ known[k] # Null /\ ledger[known[k]].reference.key = key
    BY <1>1, <2>1, OwnedFinite
  <2> QED BY <1>2, <1>3, <2>2
<1>4. CASE ~\E i \in DOMAIN known : IsLast(i)
  <2>1. T = {}
    <3> SUFFICES ASSUME T # {} PROVE FALSE
      OBVIOUS
    <3>1. T \in SUBSET (1..n)
      BY <1>1
    <3>2. PICK i \in T : \A j \in T : ~(j > i)
      BY <1>1, <3>1, GreatestIndex
    <3> QED BY <1>4, <3>2
  <2>2. \A s \in Owned(b) : ledger[s].reference.key # key
    BY <1>1, <2>1
  <2> QED BY <1>2, <1>4, <2>2
<1> QED BY <1>3, <1>4

\* The search by amount finds a row of the business with the amount if there is one.
LEMMA ByAmountFinds ==
  ASSUME NEW b, NEW known \in SetToSeqs(Owned(b)), NEW amount
  PROVE  LET t == ByAmount(known, amount) IN
         /\ t # Null => t \in Owned(b) /\ Near(ledger[t].amount, amount)
         /\ t = Null => \A s \in Owned(b) : ~Near(ledger[s].amount, amount)
<1> DEFINE Test(i)    == Near(ledger[known[i]].amount, amount)
           IsFirst(i) == Test(i) /\ \A j \in DOMAIN known : j < i => ~Test(j)
           T == { i \in DOMAIN known : Test(i) }
           n == Cardinality(Owned(b))
           k == CHOOSE i \in DOMAIN known : IsFirst(i)
<1>1. /\ DOMAIN known = 1..n
      /\ n \in Nat
      /\ \A i \in DOMAIN known : known[i] \in Owned(b)
      /\ \A s \in Owned(b) : \E i \in DOMAIN known : known[i] = s
  BY OwnedFinite, OrderEnumerates
<1>2. ByAmount(known, amount) = IF \E i \in DOMAIN known : IsFirst(i) THEN known[k] ELSE Null
  BY DEF ByAmount
<1>3. CASE \E i \in DOMAIN known : IsFirst(i)
  <2>1. k \in DOMAIN known /\ IsFirst(k)
    BY <1>3
  <2>2. known[k] \in Owned(b) /\ known[k] # Null /\ Near(ledger[known[k]].amount, amount)
    BY <1>1, <2>1, OwnedFinite
  <2> QED BY <1>2, <1>3, <2>2
<1>4. CASE ~\E i \in DOMAIN known : IsFirst(i)
  <2>1. T = {}
    <3> SUFFICES ASSUME T # {} PROVE FALSE
      OBVIOUS
    <3>1. T \in SUBSET Nat
      BY <1>1
    <3>2. PICK i \in T : \A j \in T : ~(j < i)
      BY <3>1, LeastIndex
    <3> QED BY <1>4, <3>2
  <2>2. \A s \in Owned(b) : ~Near(ledger[s].amount, amount)
    BY <1>1, <2>1
  <2> QED BY <1>2, <1>4, <2>2
<1> QED BY <1>3, <1>4

\* What an answer says holds of the rows it was found in, and it is UNMATCHED or
\* PARTIAL_MATCH only when nothing better is there.
LEMMA AnswerCorrect ==
  ASSUME NEW b, NEW known \in SetToSeqs(Owned(b)), NEW claim \in BatchClaim
  PROVE  LET r       == Answer(known, claim)
             sameKey == { t \in Owned(b) : ledger[t].reference.key = claim.reference.key }
             sameSum == { t \in Owned(b) : Near(ledger[t].amount, claim.amount) }
         IN  /\ r \in BatchResult
             /\ r.claim = claim
             /\ AnswerHolds(b, r)
             /\ r.status = "UNMATCHED" <=> sameKey = {} /\ sameSum = {}
             /\ r.status = "PARTIAL_MATCH" <=> sameKey = {} /\ sameSum # {}
             /\ r.status = "MATCHED" => r.transaction \in sameKey \cap sameSum
             /\ r.status = "MISMATCH" => r.transaction \in sameKey \ sameSum
<1> DEFINE t == ByReference(known, claim.reference.key)
           f == ByAmount(known, claim.amount)
           sameKey == { s \in Owned(b) : ledger[s].reference.key = claim.reference.key }
           sameSum == { s \in Owned(b) : Near(ledger[s].amount, claim.amount) }
           r == Answer(known, claim)
<1>0. Owned(b) \subseteq Transaction /\ Null \notin Owned(b)
  BY OwnedFinite
<1>1. (t # Null => t \in sameKey) /\ (t = Null => sameKey = {})
  BY ByReferenceFinds
<1>2. (f # Null => f \in sameSum) /\ (f = Null => sameSum = {})
  BY ByAmountFinds
<1>3. CASE t # Null /\ Near(ledger[t].amount, claim.amount)
  <2>1. r = [claim |-> claim, status |-> "MATCHED", transaction |-> t]
    BY <1>3 DEF Answer
  <2> HIDE DEF t, f, r
  <2> QED BY <1>0, <1>1, <1>3, <2>1 DEF BatchResult, AnswerHolds, r
<1>4. CASE t # Null /\ ~Near(ledger[t].amount, claim.amount)
  <2>1. r = [claim |-> claim, status |-> "MISMATCH", transaction |-> t]
    BY <1>4 DEF Answer
  <2> HIDE DEF t, f, r
  <2> QED BY <1>0, <1>1, <1>4, <2>1 DEF BatchResult, AnswerHolds, r
<1>5. CASE t = Null /\ f # Null
  <2>1. r = [claim |-> claim, status |-> "PARTIAL_MATCH", transaction |-> f]
    BY <1>5 DEF Answer
  <2> HIDE DEF t, f, r
  <2> QED BY <1>0, <1>1, <1>2, <1>5, <2>1 DEF BatchResult, AnswerHolds, r
<1>6. CASE t = Null /\ f = Null
  <2>1. r = [claim |-> claim, status |-> "UNMATCHED", transaction |-> Null]
    BY <1>6 DEF Answer
  <2> HIDE DEF t, f, r
  <2> QED BY <1>0, <1>1, <1>2, <1>6, <2>1 DEF BatchResult, AnswerHolds, r
<1> QED BY <1>3, <1>4, <1>5, <1>6

-----------------------------------------------------------------------------
(* Type correctness *)

\* Reconciliation keeps its own types and the count of calls.
LEMMA BatchTyped ==
  ASSUME LedgerTypeOK, BatchTypeOK, BatchNext
  PROVE  BatchTypeOK' /\ calls' \in 0..MaxCalls
<1> USE DEF BatchTypeOK
<1>0. calls \in 0..MaxCalls
  BY DEF LedgerTypeOK
<1>1. ASSUME NEW c \in BatchCall, NEW b \in Business, NEW claims \in Batches,
             ReconcileBatch(c, b, claims)
      PROVE  BatchTypeOK' /\ calls' \in 0..MaxCalls
  <2>1. PICK n \in 0..MaxBatch : claims \in [1..n -> BatchClaim]
    BY DEF Batches
  <2>2. PICK known \in SetToSeqs(Owned(b)) :
          batchCall' = [batchCall EXCEPT ![c] =
            [ op  |-> "answered",
              job |-> [ business |-> b,
                        results  |-> [i \in DOMAIN claims |-> Answer(known, claims[i])] ] ]]
    BY <1>1 DEF ReconcileBatch
  <2> DEFINE found == [i \in DOMAIN claims |-> Answer(known, claims[i])]
  <2>3. \A i \in 1..n : Answer(known, claims[i]) \in BatchResult
    BY <2>1, AnswerCorrect
  <2>4. n \in Nat /\ DOMAIN claims = 1..n
    BY <2>1, BatchAssumption
  <2>5. found \in Seq(BatchResult)
    BY <2>3, <2>4
  <2> HIDE DEF found
  <2>6. [op |-> "answered", job |-> [business |-> b, results |-> found]] \in Answered
    BY <2>5 DEF Answered, Job
  <2>7. batchCall' \in [BatchCall -> {IdleBatch} \cup Answered]
    BY <2>2, <2>6 DEF found
  <2> QED BY <1>0, <1>1, <2>7, CallTyped DEF ReconcileBatch
<1>2. ASSUME NEW c \in BatchCall, SaveJob(c)
      PROVE  BatchTypeOK' /\ calls' \in 0..MaxCalls
  <2>1. batchCall[c].job \in Job
    BY <1>2 DEF SaveJob, IdleBatch, Answered
  <2> QED BY <1>0, <1>2, <2>1 DEF SaveJob
<1>3. ASSUME NEW c \in BatchCall, BatchFails(c)
      PROVE  BatchTypeOK' /\ calls' \in 0..MaxCalls
  BY <1>0, <1>3 DEF BatchFails
<1> QED BY <1>1, <1>2, <1>3 DEF BatchNext

\* Every step of the three services together keeps every type.
LEMMA StepTyped ==
  ASSUME TypeOK, [Next]_vars
  PROVE  TypeOK'
<1> USE DEF TypeOK
<1>1. CASE LedgerNext /\ UNCHANGED <<verificationVars, batchVars>>
  BY <1>1, LedgerTyped
     DEF verificationVars, batchVars, VerificationTypeOK, BatchTypeOK
<1>2. CASE VerificationNext /\ UNCHANGED <<ledgerVars, batchVars>>
  BY <1>2, VerificationTyped DEF ledgerVars, batchVars, LedgerTypeOK, BatchTypeOK, Entered
<1>3. CASE BatchNext /\ UNCHANGED <<ledgerVars, verificationVars>>
  BY <1>3, BatchTyped DEF ledgerVars, verificationVars, LedgerTypeOK, VerificationTypeOK, Entered
<1>4. CASE UNCHANGED vars
  BY <1>4 DEF vars, ledgerVars, verificationVars, batchVars, LedgerTypeOK,
              VerificationTypeOK, BatchTypeOK, Entered
<1> QED BY <1>1, <1>2, <1>3, <1>4 DEF Next

-----------------------------------------------------------------------------
(* What no step takes back *)

\* Owner, reference and amount of a row stay as they were entered.
RowsKept ==
  \A t \in Transaction :
    Entered(t) =>
      /\ Entered(t)'
      /\ ledger'[t].owner = ledger[t].owner
      /\ ledger'[t].reference = ledger[t].reference
      /\ ledger'[t].amount = ledger[t].amount

\* Events are only appended.
LogsGrow ==
  \A t \in Transaction : \A n \in DOMAIN log[t] :
    n \in DOMAIN log'[t] /\ log'[t][n] = log[t][n]

\* Issuer and amount of a payment request stay as they were entered.
RequestsKept ==
  \A p \in PaymentRequest :
    paymentRequest[p].owner # Null =>
      /\ paymentRequest'[p].owner = paymentRequest[p].owner
      /\ paymentRequest'[p].expected = paymentRequest[p].expected

\* What the ledger's handlers do to rows and events.
LEMMA LedgerKeeps ==
  ASSUME LedgerTypeOK, LedgerNext
  PROVE  RowsKept /\ LogsGrow
<1> USE DEF LedgerTypeOK, RowsKept, LogsGrow
<1>1. ASSUME NEW t \in Transaction, NEW owner \in Business \cup {Null}, NEW r \in Reference,
             NEW a \in LedgerAmount, NEW s \in InitialStatus, CreateTransaction(t, owner, r, a, s)
      PROVE  RowsKept /\ LogsGrow
  <2> DEFINE e == [previous |-> Null, new |-> s]
  <2>1. e \in TransactionEvent
    BY LedgerAssumption DEF TransactionEvent
  <2>2. log' = [log EXCEPT ![t] = Append(@, e)]
    BY <1>1 DEF CreateTransaction
  <2> HIDE DEF e
  <2>3. LogsGrow
    BY <2>1, <2>2
  <2>4. RowsKept
    BY <1>1 DEF CreateTransaction, Entered
  <2> QED BY <2>3, <2>4
<1>2. ASSUME NEW u \in StatusCall, CommitStatus(u)
      PROVE  RowsKept /\ LogsGrow
  <2> DEFINE q == statusCall[u]
             e == [previous |-> q.previous, new |-> q.new]
  <2>1. q \in PendingUpdate
    BY <1>2 DEF CommitStatus, IdleCall
  <2>2. q.transaction \in Transaction /\ q.new \in TransactionStatus /\ e \in TransactionEvent
    BY <2>1, LedgerAssumption DEF PendingUpdate, TransactionEvent
  <2>3. log' = [log EXCEPT ![q.transaction] = Append(@, e)]
    BY <1>2 DEF CommitStatus
  <2>4. ledger' = [ledger EXCEPT ![q.transaction].status   = q.new,
                                 ![q.transaction].verified = q.new]
    BY <1>2 DEF CommitStatus
  <2>5. q.new # Null
    BY <2>2, LedgerAssumption
  <2> HIDE DEF q, e
  <2>6. LogsGrow
    BY <2>2, <2>3
  <2>7. RowsKept
    BY <2>2, <2>4, <2>5 DEF Entered, Entry, NoEntry
  <2> QED BY <2>6, <2>7
<1>3. CASE UNCHANGED <<ledger, log>>
  BY <1>3 DEF Entered
<1> QED BY <1>1, <1>2, <1>3 DEF LedgerNext, ReadStatus, StatusCallFails

\* What verification does to payment requests.
LEMMA VerificationKeeps ==
  ASSUME VerificationTypeOK, VerificationNext
  PROVE  RequestsKept
<1> USE DEF VerificationTypeOK, RequestsKept
<1>1. ASSUME NEW p \in PaymentRequest, NEW b \in Business, NEW a \in LedgerAmount,
             CreatePaymentRequest(p, b, a)
      PROVE  RequestsKept
  BY <1>1 DEF CreatePaymentRequest
<1>2. ASSUME NEW v \in VerifyCall, SaveResult(v)
      PROVE  RequestsKept
  <2>1. \/ UNCHANGED paymentRequest
        \/ paymentRequest' = [paymentRequest EXCEPT ![verifyCall[v].claim.request].isFulfilled = TRUE]
    BY <1>2 DEF SaveResult
  <2> QED BY <2>1 DEF RequestRow
<1>3. CASE UNCHANGED paymentRequest
  BY <1>3
<1> QED BY <1>1, <1>2, <1>3 DEF VerificationNext, AskAboutRequest, Ask, FindTransaction,
                               VerifyCallFails

\* No step takes back a row, an event or a payment request.
LEMMA StepKeeps ==
  ASSUME TypeOK, [Next]_vars
  PROVE  RowsKept /\ LogsGrow /\ RequestsKept
<1>1. UNCHANGED ledgerVars => RowsKept /\ LogsGrow
  BY DEF ledgerVars, RowsKept, LogsGrow, Entered
<1>2. UNCHANGED verificationVars => RequestsKept
  BY DEF verificationVars, RequestsKept
<1> QED BY <1>1, <1>2, LedgerKeeps, VerificationKeeps DEF TypeOK, Next, vars

\* What has been logged stays logged.
LEMMA LoggedKept ==
  ASSUME LogsGrow, NEW t \in Transaction, NEW s, Logged(t, s)
  PROVE  Logged(t, s)'
BY DEF LogsGrow, Logged

\* A row with an event is in the ledger, and it has one for its status.
LEMMA LoggedEntered ==
  ASSUME TypeOK, LogEndsInStatus, NEW t \in Transaction
  PROVE  /\ \A s : Logged(t, s) => Entered(t)
         /\ Entered(t) => Logged(t, ledger[t].status)
<1>1. log[t] \in Seq(TransactionEvent)
  BY DEF TypeOK, LedgerTypeOK
<1>2. log[t] # << >> => Len(log[t]) \in DOMAIN log[t]
  BY <1>1
<1> QED BY <1>1, <1>2 DEF LogEndsInStatus, Logged

-----------------------------------------------------------------------------
(* The ledger and its log *)

\* A new row starts its log.
Enters(t, entry, s) ==
  /\ log[t] = << >>
  /\ entry.status = s
  /\ entry.verified = Null
  /\ ledger' = [ledger EXCEPT ![t] = entry]
  /\ log' = [log EXCEPT ![t] = Append(@, [previous |-> Null, new |-> s])]

\* An update extends the log of a row that has one.
Moves(t, p, s) ==
  /\ log[t] # << >>
  /\ Logged(t, p)
  /\ ledger' = [ledger EXCEPT ![t].status = s, ![t].verified = s]
  /\ log' = [log EXCEPT ![t] = Append(@, [previous |-> p, new |-> s])]

\* Nothing else happens to the ledger and its log.
LEMMA LedgerChange ==
  ASSUME TypeOK, LogEndsInStatus, CallsRememberHistory, LedgerNext
  PROVE  \/ UNCHANGED <<ledger, log>>
         \/ \E t \in Transaction, entry \in Entry, s \in TransactionStatus : Enters(t, entry, s)
         \/ \E t \in Transaction, p \in TransactionStatus, s \in TransactionStatus : Moves(t, p, s)
<1>1. ASSUME NEW t \in Transaction, NEW owner \in Business \cup {Null}, NEW r \in Reference,
             NEW a \in LedgerAmount, NEW s \in InitialStatus, CreateTransaction(t, owner, r, a, s)
      PROVE  \E entry \in Entry, x \in TransactionStatus : Enters(t, entry, x)
  <2> DEFINE entry == NewEntry(owner, r, a, s)
  <2>1. s \in TransactionStatus
    BY LedgerAssumption
  <2>2. entry \in Entry /\ entry.status = s /\ entry.verified = Null
    BY <2>1 DEF NewEntry, Entry
  <2>3. log[t] = << >>
    BY <1>1 DEF CreateTransaction, LogEndsInStatus
  <2>4. Enters(t, entry, s)
    BY <1>1, <2>2, <2>3 DEF CreateTransaction, Enters
  <2> QED BY <2>1, <2>2, <2>4
<1>2. ASSUME NEW u \in StatusCall, CommitStatus(u)
      PROVE  \E t \in Transaction, p \in TransactionStatus, s \in TransactionStatus : Moves(t, p, s)
  <2> DEFINE q == statusCall[u]
  <2>1. q \in PendingUpdate
    BY <1>2 DEF CommitStatus, IdleCall, TypeOK, LedgerTypeOK
  <2>2. q.transaction \in Transaction /\ q.previous \in TransactionStatus /\ q.new \in TransactionStatus
    BY <2>1, LedgerAssumption DEF PendingUpdate
  <2>3. Logged(q.transaction, q.previous)
    BY <1>2 DEF CallsRememberHistory, CommitStatus
  <2>4. log[q.transaction] # << >>
    BY <2>2, <2>3, LoggedEntered DEF LogEndsInStatus
  <2>5. Moves(q.transaction, q.previous, q.new)
    BY <1>2, <2>3, <2>4 DEF CommitStatus, Moves
  <2> HIDE DEF q
  <2> QED BY <2>2, <2>5
<1>3. \/ UNCHANGED <<ledger, log>>
      \/ \E t \in Transaction, owner \in Business \cup {Null}, r \in Reference,
            a \in LedgerAmount, s \in InitialStatus : CreateTransaction(t, owner, r, a, s)
      \/ \E u \in StatusCall : CommitStatus(u)
  BY DEF LedgerNext, ReadStatus, StatusCallFails
<1> QED BY <1>1, <1>2, <1>3

\* What appending to a sequence that is not empty gives.
LEMMA AppendToNonempty ==
  ASSUME NEW S, NEW q \in Seq(S), q # << >>, NEW e \in S
  PROVE  /\ Append(q, e) # << >>
         /\ Len(Append(q, e)) # 1
         /\ Append(q, e)[Len(Append(q, e))] = e
<1>1. Len(q) \in Nat /\ Len(q) # 0
  OBVIOUS
<1>2. Len(Append(q, e)) = Len(q) + 1 /\ Append(q, e)[Len(q) + 1] = e
  OBVIOUS
<1> QED BY <1>1, <1>2

\* What LogEndsInStatus says of one row and its events.
EndsInStatus(entry, events) ==
  /\ entry.status # Null <=> events # << >>
  /\ entry.status # Null =>
       /\ events[Len(events)].new = entry.status
       /\ entry.verified = IF Len(events) = 1 THEN Null ELSE entry.status

\* The log still ends in the status of its row.
LEMMA LogEndsStep ==
  ASSUME TypeOK, LogEndsInStatus, CallsRememberHistory, LedgerNext
  PROVE  LogEndsInStatus'
<1> USE DEF TypeOK, LedgerTypeOK
<1>0. \A t \in Transaction : EndsInStatus(ledger[t], log[t])
  BY DEF LogEndsInStatus, EndsInStatus, Entered
<1> SUFFICES \A t \in Transaction : EndsInStatus(ledger'[t], log'[t])
  BY DEF LogEndsInStatus, EndsInStatus, Entered
<1>1. CASE UNCHANGED <<ledger, log>>
  BY <1>0, <1>1
<1>2. ASSUME NEW t \in Transaction, NEW entry \in Entry, NEW s \in TransactionStatus,
             Enters(t, entry, s)
      PROVE  \A x \in Transaction : EndsInStatus(ledger'[x], log'[x])
  <2> DEFINE e == [previous |-> Null, new |-> s]
  <2>1. log'[t] = Append(<< >>, e) /\ e.new = s
    BY <1>2 DEF Enters
  <2> HIDE DEF e
  <2>2. /\ log'[t] # << >>
        /\ Len(log'[t]) = 1
        /\ log'[t][Len(log'[t])].new = s
    BY <2>1
  <2>3. ledger'[t].status = s /\ ledger'[t].verified = Null /\ s # Null
    BY <1>2, LedgerAssumption DEF Enters
  <2>4. EndsInStatus(ledger'[t], log'[t])
    BY <2>2, <2>3 DEF EndsInStatus
  <2>5. \A x \in Transaction : x # t => ledger'[x] = ledger[x] /\ log'[x] = log[x]
    BY <1>2 DEF Enters
  <2> QED BY <1>0, <2>4, <2>5
<1>3. ASSUME NEW t \in Transaction, NEW p \in TransactionStatus, NEW s \in TransactionStatus,
             Moves(t, p, s)
      PROVE  \A x \in Transaction : EndsInStatus(ledger'[x], log'[x])
  <2> DEFINE e == [previous |-> p, new |-> s]
  <2>1. log'[t] = Append(log[t], e) /\ e.new = s /\ e \in TransactionEvent
    BY <1>3 DEF Moves, TransactionEvent
  <2> HIDE DEF e
  <2>2. log[t] \in Seq(TransactionEvent) /\ log[t] # << >>
    BY <1>3 DEF Moves
  <2>3. /\ log'[t] # << >>
        /\ Len(log'[t]) # 1
        /\ log'[t][Len(log'[t])].new = s
    BY <2>1, <2>2, AppendToNonempty
  <2>4. ledger'[t].status = s /\ ledger'[t].verified = s /\ s # Null
    BY <1>3, LedgerAssumption DEF Entry, Moves
  <2>5. EndsInStatus(ledger'[t], log'[t])
    BY <2>3, <2>4 DEF EndsInStatus
  <2>6. \A x \in Transaction : x # t => ledger'[x] = ledger[x] /\ log'[x] = log[x]
    BY <1>3 DEF Moves
  <2> QED BY <1>0, <2>5, <2>6
<1> QED BY <1>1, <1>2, <1>3, LedgerChange

\* What PreviousStatusesWereHeld says of the events of one row.
PredecessorsHeld(events) ==
  \A n \in DOMAIN events :
    IF n = 1 THEN events[n].previous = Null
             ELSE \E m \in DOMAIN events : m < n /\ events[m].new = events[n].previous

\* An event may be appended whose predecessor is the status of an earlier one.
LEMMA PredecessorsExtend ==
  ASSUME NEW events \in Seq(TransactionEvent), NEW e \in TransactionEvent,
         PredecessorsHeld(events),
         NEW m \in DOMAIN events, events[m].new = e.previous
  PROVE  PredecessorsHeld(Append(events, e))
<1> DEFINE k == Len(events)
           longer == Append(events, e)
<1>1. /\ k \in Nat
      /\ DOMAIN events = 1..k
      /\ DOMAIN longer = 1..(k + 1)
      /\ longer[k + 1] = e
      /\ \A n \in 1..k : longer[n] = events[n]
  OBVIOUS
<1> HIDE DEF k, longer
<1>2. \A n \in 1..(k + 1) : n \in 1..k \/ n = k + 1
  BY <1>1
<1>3. \A n \in 1..k : n \in 1..(k + 1)
  BY <1>1
<1>4. k + 1 # 1 /\ m < k + 1 /\ m \in 1..(k + 1) /\ longer[m].new = e.previous
  BY <1>1
<1> SUFFICES ASSUME NEW n \in 1..(k + 1)
             PROVE  IF n = 1 THEN longer[n].previous = Null
                    ELSE \E i \in 1..(k + 1) : i < n /\ longer[i].new = longer[n].previous
  BY <1>1 DEF PredecessorsHeld, longer
<1>5. CASE n = k + 1
  BY <1>1, <1>4, <1>5
<1>6. CASE n \in 1..k
  BY <1>1, <1>3, <1>6 DEF PredecessorsHeld
<1> QED BY <1>2, <1>5, <1>6

\* The predecessor a new event names is one the log has.
LEMMA PreviousStep ==
  ASSUME TypeOK, LogEndsInStatus, PreviousStatusesWereHeld, CallsRememberHistory, LedgerNext
  PROVE  PreviousStatusesWereHeld'
<1> USE DEF TypeOK, LedgerTypeOK
<1>0. \A t \in Transaction : PredecessorsHeld(log[t])
  BY DEF PreviousStatusesWereHeld, PredecessorsHeld
<1> SUFFICES \A t \in Transaction : PredecessorsHeld(log'[t])
  BY DEF PreviousStatusesWereHeld, PredecessorsHeld
<1>1. CASE UNCHANGED <<ledger, log>>
  BY <1>0, <1>1
<1>2. ASSUME NEW t \in Transaction, NEW entry \in Entry, NEW s \in TransactionStatus,
             Enters(t, entry, s)
      PROVE  \A x \in Transaction : PredecessorsHeld(log'[x])
  <2> DEFINE e == [previous |-> Null, new |-> s]
  <2>1. log'[t] = Append(<< >>, e) /\ e.previous = Null
    BY <1>2 DEF Enters
  <2> HIDE DEF e
  <2>2. DOMAIN log'[t] = {1} /\ log'[t][1].previous = Null
    BY <2>1
  <2>3. PredecessorsHeld(log'[t])
    BY <2>2 DEF PredecessorsHeld
  <2>4. \A x \in Transaction : x # t => log'[x] = log[x]
    BY <1>2 DEF Enters
  <2> QED BY <1>0, <2>3, <2>4
<1>3. ASSUME NEW t \in Transaction, NEW p \in TransactionStatus, NEW s \in TransactionStatus,
             Moves(t, p, s)
      PROVE  \A x \in Transaction : PredecessorsHeld(log'[x])
  <2> DEFINE e == [previous |-> p, new |-> s]
  <2>1. log'[t] = Append(log[t], e) /\ e.previous = p /\ e \in TransactionEvent
    BY <1>3 DEF Moves, TransactionEvent
  <2> HIDE DEF e
  <2>2. PICK m \in DOMAIN log[t] : log[t][m].new = p
    BY <1>3 DEF Moves, Logged
  <2>3. PredecessorsHeld(log'[t])
    BY <1>0, <2>1, <2>2, PredecessorsExtend
  <2>4. \A x \in Transaction : x # t => log'[x] = log[x]
    BY <1>3 DEF Moves
  <2> QED BY <1>0, <2>3, <2>4
<1> QED BY <1>1, <1>2, <1>3, LedgerChange

-----------------------------------------------------------------------------
(* What handlers in flight remember *)

\* Whatever is remembered of a row stays true of it.
LEMMA ClaimedKept ==
  ASSUME RowsKept, NEW t \in Transaction, Entered(t), NEW claim, IsClaimed(t, claim)
  PROVE  /\ Entered(t)'
         /\ ledger'[t].owner = claim.business /\ ledger'[t].reference = claim.reference
         /\ ledger'[t].amount = ledger[t].amount
BY DEF RowsKept, IsClaimed

\* An update remembers a status its transaction had.
UpdatesRemember ==
  \A u \in StatusCall :
    statusCall[u].op = "update" => Logged(statusCall[u].transaction, statusCall[u].previous)

\* A verification remembers its request.
RequestRemembered(q) ==
  LET claim == q.claim
      p == claim.request
  IN  q.op # "idle" /\ p # Null =>
        /\ paymentRequest[p].owner = claim.business
        /\ paymentRequest[p].expected = claim.expected

\* A verification remembers the row it saw.
RowRemembered(q) ==
  q.op = "found" /\ q.transaction # Null =>
    /\ IsClaimed(q.transaction, q.claim)
    /\ ledger[q.transaction].amount = q.seen.amount
    /\ Logged(q.transaction, q.seen.status)

\* The three parts are the invariant.
LEMMA RememberParts ==
  CallsRememberHistory <=>
    /\ UpdatesRemember
    /\ \A v \in VerifyCall : RequestRemembered(verifyCall[v]) /\ RowRemembered(verifyCall[v])
BY DEF CallsRememberHistory, UpdatesRemember, RequestRemembered, RowRemembered

\* A status that has just been read is in the log.
LEMMA UpdatesRememberStep ==
  ASSUME TypeOK, LogEndsInStatus, UpdatesRemember, LogsGrow, [Next]_vars
  PROVE  UpdatesRemember'
<1>1. ASSUME NEW u \in StatusCall, statusCall[u].op = "update"
      PROVE  Logged(statusCall[u].transaction, statusCall[u].previous)'
             \/ statusCall'[u] # statusCall[u]
  <2>1. statusCall[u].transaction \in Transaction
    BY <1>1 DEF TypeOK, LedgerTypeOK, IdleCall, PendingUpdate
  <2>2. Logged(statusCall[u].transaction, statusCall[u].previous)
    BY <1>1 DEF UpdatesRemember
  <2> QED BY <2>1, <2>2 DEF Logged, LogsGrow
<1>2. CASE UNCHANGED statusCall
  BY <1>1, <1>2 DEF UpdatesRemember
<1>3. ASSUME NEW u \in StatusCall, NEW t \in Transaction, NEW s \in NewStatus, ReadStatus(u, t, s)
      PROVE  UpdatesRemember'
  <2>1. Logged(t, ledger[t].status)'
    BY <1>3, LoggedEntered DEF ReadStatus, Logged, LogsGrow
  <2>2. statusCall'[u] =
          [op |-> "update", transaction |-> t, previous |-> ledger[t].status, new |-> s]
    BY <1>3 DEF ReadStatus, TypeOK, LedgerTypeOK
  <2>3. ledger' = ledger /\ \A x \in StatusCall : x # u => statusCall'[x] = statusCall[x]
    BY <1>3 DEF ReadStatus, TypeOK, LedgerTypeOK
  <2> QED BY <1>1, <2>1, <2>2, <2>3 DEF UpdatesRemember
<1>4. ASSUME NEW u \in StatusCall, CommitStatus(u) \/ StatusCallFails(u)
      PROVE  UpdatesRemember'
  <2>1. statusCall' = [statusCall EXCEPT ![u] = IdleCall]
    BY <1>4 DEF CommitStatus, StatusCallFails
  <2>2. statusCall'[u].op # "update" /\ \A x \in StatusCall : x # u => statusCall'[x] = statusCall[x]
    BY <2>1 DEF IdleCall, TypeOK, LedgerTypeOK
  <2> QED BY <1>1, <2>2 DEF UpdatesRemember
<1> QED BY <1>2, <1>3, <1>4
        DEF Next, LedgerNext, CreateTransaction, vars, ledgerVars

\* A verification remembers the request it was asked about and the row it found.
LEMMA VerificationsRememberStep ==
  ASSUME TypeOK, LogEndsInStatus, RowsKept, LogsGrow, RequestsKept, [Next]_vars,
         NEW v \in VerifyCall,
         RequestRemembered(verifyCall[v]), RowRemembered(verifyCall[v])
  PROVE  RequestRemembered(verifyCall[v])' /\ RowRemembered(verifyCall[v])'
<1> USE DEF TypeOK, VerificationTypeOK
<1>1. ASSUME verifyCall'[v] = verifyCall[v]
      PROVE  RequestRemembered(verifyCall[v])' /\ RowRemembered(verifyCall[v])'
  <2> DEFINE q == verifyCall[v]
  <2>1. RequestRemembered(q)'
    <3> SUFFICES ASSUME q.op # "idle", q.claim.request # Null
                 PROVE  /\ paymentRequest'[q.claim.request].owner = q.claim.business
                        /\ paymentRequest'[q.claim.request].expected = q.claim.expected
      BY <1>1 DEF RequestRemembered
    <3>1. q.claim \in Claim
      BY DEF IdleVerify, Asked, Found
    <3>2. q.claim.request \in PaymentRequest /\ q.claim.business # Null
      BY <3>1, LedgerAssumption DEF Claim
    <3> QED BY <3>2 DEF RequestRemembered, RequestsKept
  <2>2. RowRemembered(q)'
    <3> SUFFICES ASSUME q.op = "found", q.transaction # Null
                 PROVE  /\ IsClaimed(q.transaction, q.claim)'
                        /\ ledger'[q.transaction].amount = q.seen.amount
                        /\ Logged(q.transaction, q.seen.status)'
      BY <1>1 DEF RowRemembered, IsClaimed, Logged
    <3>1. q.transaction \in Transaction
      BY DEF IdleVerify, Asked, Found
    <3>2. Logged(q.transaction, q.seen.status) /\ Entered(q.transaction)
      BY <3>1, LoggedEntered DEF RowRemembered
    <3>3. Logged(q.transaction, q.seen.status)'
      BY <1>1, <3>1, <3>2 DEF Logged, LogsGrow
    <3>4. IsClaimed(q.transaction, q.claim) /\ ledger[q.transaction].amount = q.seen.amount
      BY DEF RowRemembered
    <3> QED BY <1>1, <3>1, <3>2, <3>3, <3>4 DEF RowsKept, IsClaimed
  <2> QED BY <2>1, <2>2
<1>2. ASSUME verifyCall'[v] = IdleVerify
      PROVE  RequestRemembered(verifyCall[v])' /\ RowRemembered(verifyCall[v])'
  BY <1>2 DEF RequestRemembered, RowRemembered, IdleVerify
<1>3. ASSUME NEW b \in Business, NEW p \in PaymentRequest, NEW r \in Reference,
             AskAboutRequest(v, b, p, r)
      PROVE  RequestRemembered(verifyCall[v])' /\ RowRemembered(verifyCall[v])'
  BY <1>3 DEF AskAboutRequest, RequestRemembered, RowRemembered
<1>4. ASSUME NEW b \in Business, NEW r \in Reference, NEW a \in ClaimedAmount \cup {Null},
             Ask(v, b, r, a)
      PROVE  RequestRemembered(verifyCall[v])' /\ RowRemembered(verifyCall[v])'
  BY <1>4 DEF Ask, RequestRemembered, RowRemembered
<1>5. ASSUME FindTransaction(v), UNCHANGED ledgerVars
      PROVE  RequestRemembered(verifyCall[v])' /\ RowRemembered(verifyCall[v])'
  <2> DEFINE claim == verifyCall[v].claim
  <2>1. verifyCall[v].op = "asked" /\ claim \in Claim
    BY <1>5 DEF FindTransaction, IdleVerify, Asked, Found
  <2>2. ASSUME NEW t \in Transaction, Fits(t, claim),
               verifyCall'[v] = [op |-> "found", claim |-> claim, transaction |-> t, seen |-> ledger[t]]
        PROVE  RowRemembered(verifyCall[v])'
    <3>1. ledger[t].owner # Null
      BY <2>1, <2>2, LedgerAssumption DEF Fits, Claim
    <3>2. Entered(t)
      BY <3>1 DEF LedgerTypeOK, NoEntry
    <3>3. Logged(t, ledger[t].status)
      BY <3>2, LoggedEntered
    <3> QED BY <1>5, <2>2, <3>3 DEF RowRemembered, ledgerVars, Fits, IsClaimed, Logged
  <2>3. ASSUME verifyCall'[v] = [op |-> "found", claim |-> claim, transaction |-> Null, seen |-> NoEntry]
        PROVE  RowRemembered(verifyCall[v])'
    BY <2>3 DEF RowRemembered
  <2>4. verifyCall'[v].claim = claim /\ verifyCall'[v].op # "idle" /\ RowRemembered(verifyCall[v])'
    BY <1>5, <2>2, <2>3 DEF FindTransaction
  <2>5. paymentRequest' = paymentRequest
    BY <1>5 DEF FindTransaction
  <2> QED BY <2>1, <2>4, <2>5 DEF RequestRemembered
<1>6. \/ verifyCall'[v] = verifyCall[v]
      \/ verifyCall'[v] = IdleVerify
      \/ \E b \in Business, p \in PaymentRequest, r \in Reference : AskAboutRequest(v, b, p, r)
      \/ \E b \in Business, r \in Reference, a \in ClaimedAmount \cup {Null} : Ask(v, b, r, a)
      \/ FindTransaction(v) /\ UNCHANGED ledgerVars
  <2>1. CASE UNCHANGED verifyCall
    BY <2>1
  <2>2. ASSUME NEW w \in VerifyCall, w # v,
               \/ \E b \in Business, p \in PaymentRequest, r \in Reference : AskAboutRequest(w, b, p, r)
               \/ \E b \in Business, r \in Reference, a \in ClaimedAmount \cup {Null} : Ask(w, b, r, a)
               \/ FindTransaction(w)
               \/ SaveResult(w)
               \/ VerifyCallFails(w)
        PROVE  verifyCall'[v] = verifyCall[v]
    BY <2>2 DEF AskAboutRequest, Ask, FindTransaction, SaveResult, VerifyCallFails
  <2>3. ASSUME SaveResult(v) \/ VerifyCallFails(v)
        PROVE  verifyCall'[v] = IdleVerify
    BY <2>3 DEF SaveResult, VerifyCallFails
  <2>4. CASE VerificationNext /\ UNCHANGED <<ledgerVars, batchVars>>
    BY <2>1, <2>2, <2>3, <2>4 DEF VerificationNext, CreatePaymentRequest
  <2> QED BY <2>1, <2>4 DEF Next, vars, verificationVars
<1> QED BY <1>1, <1>2, <1>3, <1>4, <1>5, <1>6

-----------------------------------------------------------------------------
(* Verdicts and the requests they fulfil *)

\* What ConfirmedWasSettled says of one verdict.
Justified(r) ==
  r.isConfirmed =>
    /\ r.transaction # Null
    /\ Logged(r.transaction, "SUCCESS")
    /\ IsClaimed(r.transaction, r.claim)
    /\ ledger[r.transaction].amount = r.amount
    /\ Expects(r.claim) => Near(r.amount, r.claim.expected)

\* A justified verdict stays so.
LEMMA JustifiedKept ==
  ASSUME TypeOK, LogEndsInStatus, RowsKept, LogsGrow,
         NEW r \in VerificationResult, Justified(r)
  PROVE  Justified(r)'
<1> SUFFICES ASSUME r.isConfirmed PROVE Justified(r)'
  BY DEF Justified
<1>1. r.transaction \in Transaction
  BY DEF Justified, VerificationResult
<1>2. Entered(r.transaction) /\ Logged(r.transaction, "SUCCESS")'
  BY <1>1, LoggedEntered DEF Justified, Logged, LogsGrow
<1> QED BY <1>1, <1>2 DEF Justified, RowsKept, IsClaimed

\* Either one verification is saved, or no result is, and at most a request enters.
LEMMA ResultsChange ==
  ASSUME [Next]_vars
  PROVE  \/ /\ UNCHANGED results
            /\ \/ UNCHANGED paymentRequest
               \/ \E p \in PaymentRequest, b \in Business, a \in LedgerAmount :
                    CreatePaymentRequest(p, b, a)
         \/ \E v \in VerifyCall : SaveResult(v) /\ UNCHANGED ledgerVars
BY DEF Next, vars, verificationVars, VerificationNext, CreatePaymentRequest, AskAboutRequest,
       Ask, FindTransaction, VerifyCallFails

\* Saving a verification appends its verdict and leaves the others.
LEMMA SavedVerdict ==
  ASSUME TypeOK, NEW v \in VerifyCall, SaveResult(v)
  PROVE  /\ verifyCall[v] \in Found
         /\ DOMAIN results' = 1..(Len(results) + 1)
         /\ DOMAIN results = 1..Len(results)
         /\ Len(results) \in Nat
         /\ results'[Len(results) + 1] = Verdict(verifyCall[v])
         /\ \A n \in DOMAIN results : n \in DOMAIN results' /\ results'[n] = results[n]
<1> USE DEF TypeOK, VerificationTypeOK
<1>1. verifyCall[v] \in Found
  BY DEF SaveResult, IdleVerify, Asked
<1> DEFINE r == Verdict(verifyCall[v])
<1>2. r \in VerificationResult
  BY <1>1, VerdictTyped
<1>3. results' = Append(results, r)
  BY DEF SaveResult, Verdict
<1> HIDE DEF r
<1>4. results \in Seq(VerificationResult)
  OBVIOUS
<1>5. /\ DOMAIN results' = 1..(Len(results) + 1)
      /\ DOMAIN results = 1..Len(results)
      /\ Len(results) \in Nat
      /\ results'[Len(results) + 1] = r
  BY <1>2, <1>3, <1>4
<1>6. \A n \in DOMAIN results : n \in DOMAIN results' /\ results'[n] = results[n]
  BY <1>2, <1>3, <1>4
<1> QED BY <1>1, <1>5, <1>6 DEF r

\* A saved confirmation is justified by the row the verification saw.
LEMMA ConfirmedStep ==
  ASSUME TypeOK, LogEndsInStatus, ConfirmedWasSettled, CallsRememberHistory,
         RowsKept, LogsGrow, [Next]_vars
  PROVE  ConfirmedWasSettled'
<1> USE DEF TypeOK, VerificationTypeOK
<1>0. ASSUME NEW n \in DOMAIN results
      PROVE  results[n] \in VerificationResult /\ Justified(results[n])
  BY <1>0 DEF ConfirmedWasSettled, Justified
<1>1. \A r \in VerificationResult : Justified(r) => Justified(r)'
  BY JustifiedKept
<1>2. CASE UNCHANGED results
  BY <1>0, <1>1, <1>2 DEF ConfirmedWasSettled, Justified
<1>3. ASSUME NEW v \in VerifyCall, SaveResult(v), UNCHANGED ledgerVars
      PROVE  ConfirmedWasSettled'
  <2> DEFINE q == verifyCall[v]
             k == Len(results) + 1
  <2>1. q.op = "found"
    BY <1>3 DEF SaveResult
  <2>2. ASSUME Confirms(q)
        PROVE  /\ q.transaction # Null
               /\ Logged(q.transaction, "SUCCESS")
               /\ IsClaimed(q.transaction, q.claim)
               /\ ledger[q.transaction].amount = q.seen.amount
               /\ Expects(q.claim) => Near(q.seen.amount, q.claim.expected)
    BY <2>1, <2>2 DEF Confirms, CallsRememberHistory
  <2>3. Justified(Verdict(q))
    BY <2>2 DEF Justified, Verdict
  <2>4. ledger' = ledger /\ log' = log
    BY <1>3 DEF ledgerVars
  <2>5. \A n \in DOMAIN results' : n \in DOMAIN results \/ n = k
    BY <1>3, SavedVerdict
  <2>6. ASSUME NEW n \in DOMAIN results' PROVE Justified(results[n])'
    <3>1. CASE n \in DOMAIN results
      BY <1>0, <1>3, <2>4, <3>1, SavedVerdict DEF Justified, Logged, IsClaimed
    <3>2. CASE n = k
      BY <1>3, <2>3, <2>4, <3>2, SavedVerdict DEF Justified, Logged, IsClaimed
    <3> QED BY <2>5, <3>1, <3>2
  <2> QED BY <2>6 DEF ConfirmedWasSettled, Justified
<1> QED BY <1>2, <1>3, ResultsChange

\* A request is fulfilled by the step that saves a confirmation for it, and no other.
LEMMA FulfilledStep ==
  ASSUME TypeOK, FulfilledWasConfirmed, CallsRememberHistory, RequestsKept, [Next]_vars
  PROVE  FulfilledWasConfirmed'
<1> USE DEF TypeOK, VerificationTypeOK
<1>0. \A n \in DOMAIN results : results[n].claim \in Claim
  <2>1. \A n \in DOMAIN results : results[n] \in VerificationResult
    OBVIOUS
  <2> QED BY <2>1 DEF VerificationResult
<1>1. ASSUME NEW p \in PaymentRequest, NEW n \in DOMAIN results, results[n].claim.request = p
      PROVE  paymentRequest[p].owner = results[n].claim.business /\ paymentRequest[p].owner # Null
  BY <1>0, <1>1, LedgerAssumption DEF FulfilledWasConfirmed, Claim
<1>2. CASE UNCHANGED <<results, paymentRequest>>
  BY <1>2 DEF FulfilledWasConfirmed
<1>3. ASSUME UNCHANGED results, NEW x \in PaymentRequest, NEW b \in Business, NEW a \in LedgerAmount,
             CreatePaymentRequest(x, b, a)
      PROVE  FulfilledWasConfirmed'
  <2>1. \A n \in DOMAIN results : results[n].claim.request # x
    BY <1>1, <1>3 DEF CreatePaymentRequest
  <2>2. ~paymentRequest'[x].isFulfilled
    BY <1>3 DEF CreatePaymentRequest
  <2>3. \A p \in PaymentRequest : p # x => paymentRequest'[p] = paymentRequest[p]
    BY <1>3 DEF CreatePaymentRequest
  <2> QED BY <1>3, <2>1, <2>2, <2>3 DEF FulfilledWasConfirmed
<1>4. ASSUME NEW v \in VerifyCall, SaveResult(v)
      PROVE  FulfilledWasConfirmed'
  <2> DEFINE q == verifyCall[v]
             k == Len(results) + 1
  <2>1. /\ q \in Found
        /\ k \in DOMAIN results'
        /\ results'[k] = Verdict(q)
        /\ \A n \in DOMAIN results : n \in DOMAIN results' /\ results'[n] = results[n]
        /\ \A n \in DOMAIN results' : n \in DOMAIN results \/ n = k
    BY <1>4, SavedVerdict
  <2>2. results'[k].claim = q.claim /\ results'[k].isConfirmed = Confirms(q)
    BY <2>1 DEF Verdict
  <2>3. q.claim \in Claim
    BY <2>1 DEF Found
  <2>4. ASSUME NEW p \in PaymentRequest, q.claim.request = p
        PROVE  /\ paymentRequest[p].owner = q.claim.business
               /\ paymentRequest[p].expected = q.claim.expected
               /\ paymentRequest[p].owner # Null
    <3>1. q.op = "found" /\ p # Null
      BY <1>4, VerificationAssumption DEF SaveResult
    <3>2. q.claim.business # Null
      BY <2>3, LedgerAssumption DEF Claim
    <3> QED BY <2>4, <3>1, <3>2 DEF CallsRememberHistory
  <2>5. ASSUME NEW p \in PaymentRequest
        PROVE  paymentRequest'[p].isFulfilled <=>
                 paymentRequest[p].isFulfilled \/ (Confirms(q) /\ q.claim.request = p)
    <3>1. p # Null
      BY VerificationAssumption
    <3>2. CASE Confirms(q) /\ q.claim.request = p
      <4>1. paymentRequest' = [paymentRequest EXCEPT ![p].isFulfilled = TRUE]
        BY <1>4, <3>1, <3>2 DEF SaveResult
      <4> QED BY <3>2, <4>1 DEF RequestRow
    <3>3. CASE ~(Confirms(q) /\ q.claim.request = p)
      <4>1. \/ paymentRequest' = paymentRequest
            \/ /\ q.claim.request # p
               /\ paymentRequest' = [paymentRequest EXCEPT ![q.claim.request].isFulfilled = TRUE]
        BY <1>4, <3>3 DEF SaveResult
      <4> QED BY <3>3, <4>1
    <3> QED BY <3>2, <3>3
  <2>6. ASSUME NEW p \in PaymentRequest
        PROVE  paymentRequest'[p].isFulfilled
                 <=> \E n \in DOMAIN results' :
                       results'[n].isConfirmed /\ results'[n].claim.request = p
    <3>1. paymentRequest[p].isFulfilled
            <=> \E n \in DOMAIN results : results[n].isConfirmed /\ results[n].claim.request = p
      BY DEF FulfilledWasConfirmed
    <3> HIDE DEF q, k
    <3> QED BY <2>1, <2>2, <2>5, <3>1
  <2>7. ASSUME NEW p \in PaymentRequest, NEW n \in DOMAIN results',
               results'[n].claim.request = p
        PROVE  /\ paymentRequest'[p].owner = results'[n].claim.business
               /\ paymentRequest'[p].expected = results'[n].claim.expected
    <3>1. CASE n = k
      BY <2>2, <2>4, <2>7, <3>1 DEF RequestsKept
    <3>2. CASE n \in DOMAIN results
      BY <1>1, <2>1, <2>7, <3>2 DEF RequestsKept, FulfilledWasConfirmed
    <3> QED BY <2>1, <3>1, <3>2
  <2> QED BY <2>6, <2>7 DEF FulfilledWasConfirmed
<1> QED BY <1>2, <1>3, <1>4, ResultsChange

-----------------------------------------------------------------------------
(* Jobs *)

\* What an answer says of the ledger stays true.
LEMMA AnswerKept ==
  ASSUME RowsKept, NEW b, NEW r \in BatchResult, AnswerHolds(b, r)
  PROVE  AnswerHolds(b, r)'
<1>1. CASE r.status = "UNMATCHED"
  BY <1>1 DEF AnswerHolds
<1>2. CASE r.status # "UNMATCHED"
  <2>1. r.transaction \in Transaction /\ Entered(r.transaction)
    BY <1>2 DEF AnswerHolds, Owned
  <2>2. /\ ledger'[r.transaction].owner = ledger[r.transaction].owner
        /\ ledger'[r.transaction].reference = ledger[r.transaction].reference
        /\ ledger'[r.transaction].amount = ledger[r.transaction].amount
        /\ Entered(r.transaction)'
    BY <2>1 DEF RowsKept
  <2> QED BY <1>2, <2>1, <2>2 DEF AnswerHolds, Owned
<1> QED BY <1>1, <1>2

\* What JobsAgreeWithLedger says of one job.
JobHolds(job) == \A i \in DOMAIN job.results : AnswerHolds(job.business, job.results[i])

\* And so for all the answers of a job.
LEMMA JobKept ==
  ASSUME RowsKept, NEW job \in Job, JobHolds(job)
  PROVE  JobHolds(job)'
<1> SUFFICES ASSUME NEW i \in DOMAIN job.results PROVE AnswerHolds(job.business, job.results[i])'
  BY DEF JobHolds
<1>1. job.results \in Seq(BatchResult)
  BY DEF Job
<1>2. job.results[i] \in BatchResult
  BY <1>1
<1> QED BY <1>2, AnswerKept DEF JobHolds

\* The batch in flight in each slot answers truly.
BatchHolds(q) == q.op = "answered" => JobHolds(q.job)

\* The two parts are the invariant.
LEMMA JobParts ==
  JobsAgreeWithLedger <=>
    /\ \A n \in DOMAIN jobs : JobHolds(jobs[n])
    /\ \A c \in BatchCall : BatchHolds(batchCall[c])
BY DEF JobsAgreeWithLedger, JobHolds, BatchHolds

\* The job a batch has just been matched to answers truly.
LEMMA MatchedHolds ==
  ASSUME NEW c \in BatchCall, NEW b \in Business, NEW claims \in Batches,
         BatchTypeOK, ReconcileBatch(c, b, claims)
  PROVE  /\ batchCall'[c].op = "answered"
         /\ batchCall'[c].job.business = b
         /\ \A i \in DOMAIN batchCall'[c].job.results :
              LET r       == batchCall'[c].job.results[i]
                  sameKey == { t \in Owned(b) : ledger[t].reference.key = r.claim.reference.key }
                  sameSum == { t \in Owned(b) : Near(ledger[t].amount, r.claim.amount) }
              IN  /\ AnswerHolds(b, r)
                  /\ r.status \in {"MATCHED", "MISMATCH", "PARTIAL_MATCH", "UNMATCHED"}
                  /\ r.status = "UNMATCHED" <=> sameKey = {} /\ sameSum = {}
                  /\ r.status = "PARTIAL_MATCH" <=> sameKey = {} /\ sameSum # {}
                  /\ r.status = "MATCHED" => r.transaction \in sameKey \cap sameSum
                  /\ r.status = "MISMATCH" => r.transaction \in sameKey \ sameSum
<1>1. PICK known \in SetToSeqs(Owned(b)) :
        batchCall' = [batchCall EXCEPT ![c] =
          [ op  |-> "answered",
            job |-> [ business |-> b,
                      results  |-> [i \in DOMAIN claims |-> Answer(known, claims[i])] ] ]]
  BY DEF ReconcileBatch
<1>2. batchCall'[c] =
        [ op  |-> "answered",
          job |-> [ business |-> b,
                    results  |-> [i \in DOMAIN claims |-> Answer(known, claims[i])] ] ]
  BY <1>1 DEF BatchTypeOK
<1>3. \A i \in DOMAIN claims : claims[i] \in BatchClaim
  BY DEF Batches
<1>4. /\ batchCall'[c].op = "answered"
      /\ batchCall'[c].job.business = b
      /\ DOMAIN batchCall'[c].job.results = DOMAIN claims
      /\ \A i \in DOMAIN claims : batchCall'[c].job.results[i] = Answer(known, claims[i])
  BY <1>2
<1>5. ASSUME NEW i \in DOMAIN claims
      PROVE  LET r       == batchCall'[c].job.results[i]
                 sameKey == { t \in Owned(b) : ledger[t].reference.key = r.claim.reference.key }
                 sameSum == { t \in Owned(b) : Near(ledger[t].amount, r.claim.amount) }
             IN  /\ AnswerHolds(b, r)
                 /\ r.status \in {"MATCHED", "MISMATCH", "PARTIAL_MATCH", "UNMATCHED"}
                 /\ r.status = "UNMATCHED" <=> sameKey = {} /\ sameSum = {}
                 /\ r.status = "PARTIAL_MATCH" <=> sameKey = {} /\ sameSum # {}
                 /\ r.status = "MATCHED" => r.transaction \in sameKey \cap sameSum
                 /\ r.status = "MISMATCH" => r.transaction \in sameKey \ sameSum
  <2> DEFINE claim   == claims[i]
             r       == Answer(known, claim)
             sameKey == { t \in Owned(b) : ledger[t].reference.key = claim.reference.key }
             sameSum == { t \in Owned(b) : Near(ledger[t].amount, claim.amount) }
  <2>1. batchCall'[c].job.results[i] = r
    BY <1>4
  <2>2. claim \in BatchClaim
    BY <1>3
  <2>3. /\ r \in BatchResult
        /\ r.claim = claim
        /\ AnswerHolds(b, r)
        /\ r.status = "UNMATCHED" <=> sameKey = {} /\ sameSum = {}
        /\ r.status = "PARTIAL_MATCH" <=> sameKey = {} /\ sameSum # {}
        /\ r.status = "MATCHED" => r.transaction \in sameKey \cap sameSum
        /\ r.status = "MISMATCH" => r.transaction \in sameKey \ sameSum
    BY <2>2, AnswerCorrect
  <2>4. r.status \in {"MATCHED", "MISMATCH", "PARTIAL_MATCH", "UNMATCHED"}
    BY <2>3 DEF BatchResult
  <2> HIDE DEF claim, r
  <2> QED BY <2>1, <2>3, <2>4
<1> QED BY <1>4, <1>5

\* In particular its answers hold of the ledger they were found in.
LEMMA MatchedAgrees ==
  ASSUME NEW c \in BatchCall, NEW b \in Business, NEW claims \in Batches,
         BatchTypeOK, ReconcileBatch(c, b, claims)
  PROVE  LET job == batchCall'[c].job
         IN  \A i \in DOMAIN job.results : AnswerHolds(job.business, job.results[i])
<1>1. batchCall'[c].job.business = b
  BY MatchedHolds
<1>2. \A i \in DOMAIN batchCall'[c].job.results : AnswerHolds(b, batchCall'[c].job.results[i])
  BY MatchedHolds
<1> QED BY <1>1, <1>2

\* Reconciliation keeps its answers true: they are when a batch is matched, and no
\* step takes back what they rest on.
LEMMA JobsStep ==
  ASSUME TypeOK, JobsAgreeWithLedger, RowsKept, [Next]_vars
  PROVE  JobsAgreeWithLedger'
<1> USE DEF TypeOK, BatchTypeOK
<1>1. \A n \in DOMAIN jobs : jobs[n] \in Job /\ JobHolds(jobs[n])
  BY JobParts
<1>2. \A c \in BatchCall :
        batchCall[c].op = "answered" => batchCall[c].job \in Job /\ JobHolds(batchCall[c].job)
  BY JobParts DEF BatchHolds, IdleBatch, Answered
<1>3. \A job \in Job : JobHolds(job) => JobHolds(job)'
  BY JobKept
<1>4. ASSUME NEW n \in DOMAIN jobs, n \in DOMAIN jobs', jobs'[n] = jobs[n]
      PROVE  JobHolds(jobs[n])'
  BY <1>1, <1>3, <1>4 DEF JobHolds
<1>5. ASSUME NEW c \in BatchCall, batchCall'[c] = batchCall[c] \/ batchCall'[c] = IdleBatch
      PROVE  BatchHolds(batchCall[c])'
  BY <1>2, <1>3, <1>5 DEF BatchHolds, IdleBatch, JobHolds
<1>6. ASSUME UNCHANGED jobs, \A c \in BatchCall : BatchHolds(batchCall[c])'
      PROVE  JobsAgreeWithLedger'
  BY <1>4, <1>6 DEF JobsAgreeWithLedger, JobHolds, BatchHolds
<1>7. CASE UNCHANGED batchVars
  BY <1>5, <1>6, <1>7 DEF batchVars
<1>8. ASSUME NEW c \in BatchCall, NEW b \in Business, NEW claims \in Batches,
             ReconcileBatch(c, b, claims), UNCHANGED ledgerVars
      PROVE  JobsAgreeWithLedger'
  <2>1. \A x \in BatchCall : x # c => batchCall'[x] = batchCall[x]
    BY <1>8 DEF ReconcileBatch
  <2>2. \A i \in DOMAIN batchCall'[c].job.results :
          AnswerHolds(batchCall'[c].job.business, batchCall'[c].job.results[i])
    BY <1>8, MatchedAgrees
  <2>3. ledger' = ledger
    BY <1>8 DEF ledgerVars
  <2>4. BatchHolds(batchCall[c])'
    BY <2>2, <2>3 DEF BatchHolds, JobHolds, AnswerHolds, Owned, Entered
  <2>5. ASSUME NEW x \in BatchCall PROVE BatchHolds(batchCall[x])'
    <3>1. CASE x = c
      BY <2>4, <3>1
    <3>2. CASE x # c
      BY <1>5, <2>1, <3>2
    <3> QED BY <3>1, <3>2
  <2> QED BY <1>6, <1>8, <2>5 DEF ReconcileBatch
<1>9. ASSUME NEW c \in BatchCall, SaveJob(c)
      PROVE  JobsAgreeWithLedger'
  <2> DEFINE job == batchCall[c].job
             k == Len(jobs) + 1
  <2>1. job \in Job /\ JobHolds(job)
    BY <1>2, <1>9 DEF SaveJob
  <2>2. jobs' = Append(jobs, job)
    BY <1>9 DEF SaveJob
  <2>3. ASSUME NEW x \in BatchCall PROVE BatchHolds(batchCall[x])'
    BY <1>5, <1>9 DEF SaveJob
  <2> HIDE DEF job
  <2>4. /\ jobs'[k] = job
        /\ \A n \in DOMAIN jobs' : n \in DOMAIN jobs \/ n = k
        /\ \A n \in DOMAIN jobs : n \in DOMAIN jobs' /\ jobs'[n] = jobs[n]
    <3>1. jobs \in Seq(Job)
      OBVIOUS
    <3>2. DOMAIN jobs = 1..Len(jobs) /\ DOMAIN jobs' = 1..k /\ Len(jobs) \in Nat
      BY <2>1, <2>2, <3>1
    <3>3. jobs'[k] = job
      BY <2>1, <2>2, <3>1
    <3>4. \A n \in 1..Len(jobs) : jobs'[n] = jobs[n]
      BY <2>1, <2>2, <3>1
    <3> QED BY <3>2, <3>3, <3>4
  <2>5. ASSUME NEW n \in DOMAIN jobs' PROVE JobHolds(jobs[n])'
    <3>1. CASE n \in DOMAIN jobs
      BY <1>4, <2>4, <3>1
    <3>2. CASE n = k
      BY <1>3, <2>1, <2>4, <3>2 DEF JobHolds
    <3> QED BY <2>4, <3>1, <3>2
  <2> QED BY <2>3, <2>5 DEF JobsAgreeWithLedger, JobHolds, BatchHolds
<1>10. ASSUME NEW c \in BatchCall, BatchFails(c)
       PROVE  JobsAgreeWithLedger'
  <2>1. UNCHANGED jobs /\ \A x \in BatchCall : batchCall'[x] = batchCall[x] \/ batchCall'[x] = IdleBatch
    BY <1>10 DEF BatchFails
  <2>2. ASSUME NEW x \in BatchCall PROVE BatchHolds(batchCall[x])'
    BY <1>5, <2>1
  <2> QED BY <1>6, <2>1, <2>2
<1> QED BY <1>7, <1>8, <1>9, <1>10 DEF Next, BatchNext, vars

-----------------------------------------------------------------------------
(* The invariant and the theorems *)

\* Empty tables and idle handlers satisfy every part.
LEMMA InvInit == Init => LedgerInv
<1> SUFFICES ASSUME Init PROVE LedgerInv
  OBVIOUS
<1> USE DEF Init, LedgerInit, VerificationInit, BatchInit
<1>1. TypeOK
  BY InitTyped
<1>2. LogEndsInStatus
  BY DEF LogEndsInStatus, Entered, NoEntry
<1>3. PreviousStatusesWereHeld
  BY DEF PreviousStatusesWereHeld
<1>4. ConfirmedWasSettled
  BY DEF ConfirmedWasSettled
<1>5. FulfilledWasConfirmed
  BY DEF FulfilledWasConfirmed, NoRequest
<1>6. JobsAgreeWithLedger
  BY DEF JobsAgreeWithLedger, IdleBatch
<1>7. CallsRememberHistory
  BY DEF CallsRememberHistory, IdleCall, IdleVerify
<1> QED BY <1>1, <1>2, <1>3, <1>4, <1>5, <1>6, <1>7 DEF LedgerInv

\* Every step keeps every part: the handlers in flight justify what they commit, and
\* nothing they remember is ever taken back.
LEMMA InvStep == LedgerInv /\ [Next]_vars => LedgerInv'
<1> SUFFICES ASSUME LedgerInv, [Next]_vars PROVE LedgerInv'
  OBVIOUS
<1>0. /\ TypeOK /\ LogEndsInStatus /\ PreviousStatusesWereHeld /\ ConfirmedWasSettled
      /\ FulfilledWasConfirmed /\ JobsAgreeWithLedger /\ CallsRememberHistory
  BY DEF LedgerInv
<1>1. TypeOK'
  BY <1>0, StepTyped
<1>2. RowsKept /\ LogsGrow /\ RequestsKept
  BY <1>0, StepKeeps
<1>3. LedgerNext \/ UNCHANGED <<ledger, log>>
  BY DEF Next, vars, ledgerVars
<1>4. LogEndsInStatus'
  <2>1. UNCHANGED <<ledger, log>> => LogEndsInStatus'
    BY <1>0 DEF LogEndsInStatus, Entered
  <2> QED BY <1>0, <1>3, <2>1, LogEndsStep
<1>5. PreviousStatusesWereHeld'
  <2>1. UNCHANGED <<ledger, log>> => PreviousStatusesWereHeld'
    BY <1>0 DEF PreviousStatusesWereHeld
  <2> QED BY <1>0, <1>3, <2>1, PreviousStep
<1>6. ConfirmedWasSettled'
  BY <1>0, <1>2, ConfirmedStep
<1>7. FulfilledWasConfirmed'
  BY <1>0, <1>2, FulfilledStep
<1>8. JobsAgreeWithLedger'
  BY <1>0, <1>2, JobsStep
<1>9. CallsRememberHistory'
  <2>1. UpdatesRemember'
    BY <1>0, <1>2, UpdatesRememberStep, RememberParts
  <2>2. \A v \in VerifyCall :
          RequestRemembered(verifyCall[v])' /\ RowRemembered(verifyCall[v])'
    BY <1>0, <1>2, VerificationsRememberStep, RememberParts
  <2> QED BY <2>1, <2>2 DEF CallsRememberHistory, UpdatesRemember, RequestRemembered, RowRemembered
<1> QED BY <1>1, <1>4, <1>5, <1>6, <1>7, <1>8, <1>9 DEF LedgerInv

\* The invariant holds in every behaviour of the three services.
THEOREM LedgerInvariant == Spec => []LedgerInv
BY InvInit, InvStep, PTL DEF Spec

\* Tables, jobs, verdicts and handlers in flight keep their types.
THEOREM LedgerTypeCorrect == Spec => []TypeOK
BY LedgerInvariant, PTL DEF LedgerInv

\* updateTransactionStatus never leaves the log behind the row, whatever else is in
\* flight: the last event names the status of the row, and verifiedStatus follows.
THEOREM LogCorrect == Spec => []LogEndsInStatus
BY LedgerInvariant, PTL DEF LedgerInv

\* previousStatus is read before the commit and may be out of date, but never names
\* a status the transaction did not have.
THEOREM PredecessorsCorrect == Spec => []PreviousStatusesWereHeld
BY LedgerInvariant, PTL DEF LedgerInv

\* verifyPayment never confirms what the ledger of the business did not have settled
\* under the claimed reference and for the expected amount.
THEOREM ConfirmedCorrect == Spec => []ConfirmedWasSettled
BY LedgerInvariant, PTL DEF LedgerInv

\* A payment request is fulfilled by a confirmation of its own, and by nothing else.
THEOREM FulfilledCorrect == Spec => []FulfilledWasConfirmed
BY LedgerInvariant, PTL DEF LedgerInv

\* What reconciliation reports of a row is true of it for good.
THEOREM JobsCorrect == Spec => []JobsAgreeWithLedger
BY LedgerInvariant, PTL DEF LedgerInv

\* What updateTransactionStatus and verifyPayment remember across an await is part of
\* the history of the row or the request when they commit.
THEOREM CallsCorrect == Spec => []CallsRememberHistory
BY LedgerInvariant, PTL DEF LedgerInv

\* The action of AnswersAreComplete.
MatchesCompletely ==
  \A c \in BatchCall :
    batchCall[c].op = "idle" /\ batchCall'[c].op = "answered" =>
      LET job == batchCall'[c].job IN
      \A i \in DOMAIN job.results :
        LET r        == job.results[i]
            sameKey  == { t \in Owned(job.business) : ledger[t].reference.key = r.claim.reference.key }
            sameSum  == { t \in Owned(job.business) : Near(ledger[t].amount, r.claim.amount) }
        IN  /\ r.status \in {"PARTIAL_MATCH", "UNMATCHED"} <=> sameKey = {}
            /\ r.status = "PARTIAL_MATCH" => sameSum # {}
            /\ r.status = "UNMATCHED" => \A t \in sameSum : ledger[t].status = "SUCCESS"
            /\ Cardinality(sameKey) = 1 => (r.status = "MATCHED" <=> sameKey \subseteq sameSum)

\* Matching a batch misses no row with the claimed reference, and no unsettled row
\* with the claimed amount, in whatever order they come.
LEMMA MatchStep ==
  ASSUME TypeOK, [Next]_vars
  PROVE  MatchesCompletely
<1> SUFFICES ASSUME NEW c \in BatchCall,
                    batchCall[c].op = "idle", batchCall'[c].op = "answered",
                    NEW i \in DOMAIN batchCall'[c].job.results
             PROVE  LET b        == batchCall'[c].job.business
                        r        == batchCall'[c].job.results[i]
                        sameKey  == { t \in Owned(b) : ledger[t].reference.key = r.claim.reference.key }
                        sameSum  == { t \in Owned(b) : Near(ledger[t].amount, r.claim.amount) }
                    IN  /\ r.status \in {"PARTIAL_MATCH", "UNMATCHED"} <=> sameKey = {}
                        /\ r.status = "PARTIAL_MATCH" => sameSum # {}
                        /\ r.status = "UNMATCHED" => \A t \in sameSum : ledger[t].status = "SUCCESS"
                        /\ Cardinality(sameKey) = 1 => (r.status = "MATCHED" <=> sameKey \subseteq sameSum)
  BY DEF MatchesCompletely
<1>1. PICK b \in Business, claims \in Batches : ReconcileBatch(c, b, claims)
  <2>1. CASE UNCHANGED batchCall
    BY <2>1
  <2>2. ASSUME NEW x \in BatchCall, SaveJob(x) \/ BatchFails(x)
        PROVE  FALSE
    BY <2>2 DEF SaveJob, BatchFails, TypeOK, BatchTypeOK, IdleBatch
  <2>3. ASSUME NEW x \in BatchCall, NEW b \in Business, NEW claims \in Batches,
               ReconcileBatch(x, b, claims)
        PROVE  x = c
    BY <2>3 DEF ReconcileBatch
  <2> QED BY <2>1, <2>2, <2>3 DEF Next, BatchNext, vars, batchVars
<1> DEFINE r       == batchCall'[c].job.results[i]
           sameKey == { t \in Owned(b) : ledger[t].reference.key = r.claim.reference.key }
           sameSum == { t \in Owned(b) : Near(ledger[t].amount, r.claim.amount) }
<1>2. /\ batchCall'[c].job.business = b
      /\ r.status \in {"MATCHED", "MISMATCH", "PARTIAL_MATCH", "UNMATCHED"}
      /\ r.status = "UNMATCHED" <=> sameKey = {} /\ sameSum = {}
      /\ r.status = "PARTIAL_MATCH" <=> sameKey = {} /\ sameSum # {}
      /\ r.status = "MATCHED" => r.transaction \in sameKey \cap sameSum
      /\ r.status = "MISMATCH" => r.transaction \in sameKey \ sameSum
  BY <1>1, MatchedHolds DEF TypeOK
<1>3. ASSUME Cardinality(sameKey) = 1
      PROVE  r.status = "MATCHED" <=> sameKey \subseteq sameSum
  <2>1. IsFiniteSet(sameKey)
    BY OwnedFinite, FS_Subset
  <2> HIDE DEF r, sameKey, sameSum
  <2>2. \E x : sameKey = {x}
    BY <1>3, <2>1, FS_Singleton
  <2> QED BY <1>2, <2>2
<1> HIDE DEF r, sameKey, sameSum
<1>4. /\ r.status \in {"PARTIAL_MATCH", "UNMATCHED"} <=> sameKey = {}
      /\ r.status = "PARTIAL_MATCH" => sameSum # {}
      /\ r.status = "UNMATCHED" => \A t \in sameSum : ledger[t].status = "SUCCESS"
      /\ Cardinality(sameKey) = 1 => (r.status = "MATCHED" <=> sameKey \subseteq sameSum)
  BY <1>2, <1>3
<1> QED BY <1>2, <1>4 DEF r, sameKey, sameSum

\* reconcileBatch looks by amount exactly when no row of the business has the claimed
\* reference, misses no unsettled row then, and matches a row that alone has the
\* reference exactly when it has the amount too.
THEOREM AnswersCorrect == Spec => AnswersAreComplete
<1>1. TypeOK /\ [Next]_vars => [MatchesCompletely]_vars
  BY MatchStep
<1> QED BY <1>1, LedgerTypeCorrect, PTL DEF Spec, AnswersAreComplete, MatchesCompletely
=============================================================================
