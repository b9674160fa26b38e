-------------------------- MODULE PaymentVerification --------------------------
(***************************************************************************)
(* VerificationService: createPaymentRequest and verifyPayment.            *)
(* verifyPayment reads the payment request, then the transaction, decides, *)
(* and saves its verdict in a $transaction that may fulfil the request.    *)
(* expiresAt is stored and never looked at, so it is left out.             *)
(***************************************************************************)
EXTENDS TransactionLedger

CONSTANTS
  PaymentRequest,  \* ids of the PaymentRequest rows that may be created
  ClaimedAmount,   \* amounts a claim may state, in 1/1000 NGN
  VerifyCall       \* verifications the service may be handling at the same time

ASSUME VerificationAssumption ==
  /\ ClaimedAmount \subseteq Nat
  /\ Null \notin PaymentRequest

VARIABLES
  paymentRequest,  \* the PaymentRequest table
  results,         \* the VerificationResult rows, in commit order
  verifyCall       \* the verification in each slot

verificationVars == <<paymentRequest, results, verifyCall>>

RequestRow ==
  [ owner : Business \cup {Null}, expected : LedgerAmount \cup {Null}, isFulfilled : BOOLEAN ]

NoRequest == [owner |-> Null, expected |-> Null, isFulfilled |-> FALSE]

\* reference: cleanRef; expected: the amount the claim is compared with, Null
\* when neither a payment request nor the claim gives one.
Claim ==
  [ business : Business, request : PaymentRequest \cup {Null}, reference : Reference,
    expected : LedgerAmount \cup ClaimedAmount \cup {Null} ]

IdleVerify == [op |-> "idle"]

Asked == [op : {"asked"}, claim : Claim]

\* transaction, seen: the row findFirst returned, Null and NoEntry when none.
Found ==
  [op : {"found"}, claim : Claim, transaction : Transaction \cup {Null}, seen : Entry]

VerificationResult ==
  [ claim : Claim, transaction : Transaction \cup {Null},
    amount : LedgerAmount \cup {Null}, isConfirmed : BOOLEAN,
    confidence : {"HIGH", "MEDIUM", "LOW", "UNVERIFIED"} ]

VerificationTypeOK ==
  /\ paymentRequest \in [PaymentRequest -> RequestRow]
  /\ results \in Seq(VerificationResult)
  /\ verifyCall \in [VerifyCall -> {IdleVerify} \cup Asked \cup Found]

VerificationInit ==
  /\ paymentRequest = [p \in PaymentRequest |-> NoRequest]
  /\ results        = << >>
  /\ verifyCall     = [v \in VerifyCall |-> IdleVerify]

-----------------------------------------------------------------------------
CreatePaymentRequest(p, b, expected) ==
  /\ paymentRequest[p].owner = Null
  /\ Call
  /\ paymentRequest' = [paymentRequest EXCEPT ![p] =
       [owner |-> b, expected |-> expected, isFulfilled |-> FALSE]]
  /\ UNCHANGED <<results, verifyCall>>

-----------------------------------------------------------------------------
(* verifyPayment *)

\* The claim names a payment request of the business.
AskAboutRequest(v, b, p, reference) ==
  /\ verifyCall[v].op = "idle"
  /\ paymentRequest[p].owner = b
  /\ Call
  /\ verifyCall' = [verifyCall EXCEPT ![v] =
       [ op |-> "asked",
         claim |-> [ business |-> b, request |-> p, reference |-> reference,
                     expected |-> paymentRequest[p].expected ] ]]
  /\ UNCHANGED <<paymentRequest, results>>

\* The claim names no request; claimedAmount is optional.
Ask(v, b, reference, claimed) ==
  /\ verifyCall[v].op = "idle"
  /\ Call
  /\ verifyCall' = [verifyCall EXCEPT ![v] =
       [ op |-> "asked",
         claim |-> [ business |-> b, request |-> Null, reference |-> reference,
                     expected |-> claimed ] ]]
  /\ UNCHANGED <<paymentRequest, results>>

\* Mutant: the tenant is not part of the query.
FitsAnyOwner(t, claim) == Entered(t) /\ ledger[t].reference = claim.reference

\* The where clause: the reference is compared as it is written.
Fits(t, claim) == ledger[t].owner = claim.business /\ ledger[t].reference = claim.reference

\* findFirst has no orderBy: it returns any row that fits.
FindTransaction(v) ==
  LET claim == verifyCall[v].claim IN
  /\ verifyCall[v].op = "asked"
  /\ \/ \E t \in Transaction :
          /\ Fits(t, claim)
          /\ verifyCall' = [verifyCall EXCEPT ![v] =
               [op |-> "found", claim |-> claim, transaction |-> t, seen |-> ledger[t]]]
     \/ /\ \A t \in Transaction : ~Fits(t, claim)
        /\ verifyCall' = [verifyCall EXCEPT ![v] =
             [op |-> "found", claim |-> claim, transaction |-> Null, seen |-> NoEntry]]
  /\ UNCHANGED <<paymentRequest, results, calls>>

\* expected: neither absent nor a column that was rounded to zero, which is falsy.
Expects(claim) == claim.expected \notin {Null, 0}

\* Mutant: a pending transaction is as good as a settled one.
ConfirmsPending(q) ==
  /\ q.transaction # Null
  /\ q.seen.status \in {"SUCCESS", "PENDING"}
  /\ Expects(q.claim) => Near(q.seen.amount, q.claim.expected)

\* isConfirmed
Confirms(q) ==
  /\ q.transaction # Null
  /\ q.seen.status = "SUCCESS"
  /\ Expects(q.claim) => Near(q.seen.amount, q.claim.expected)

Confidence(q) ==
  CASE q.transaction = Null       -> "UNVERIFIED"
    [] Confirms(q)                -> "HIGH"
    [] q.transaction # Null /\ q.seen.status # "SUCCESS" -> "LOW"
    [] OTHER                      -> "MEDIUM"

\* The VerificationResult row that is saved.
Verdict(q) ==
  [ claim |-> q.claim, transaction |-> q.transaction, amount |-> q.seen.amount,
    isConfirmed |-> Confirms(q), confidence |-> Confidence(q) ]

\* Mutant: the request is fulfilled by any verdict.
SaveResultAlwaysFulfils(v) ==
  LET q == verifyCall[v]
      p == q.claim.request
  IN
  /\ q.op = "found"
  /\ results' = Append(results, Verdict(q))
  /\ paymentRequest' = IF p # Null THEN [paymentRequest EXCEPT ![p].isFulfilled = TRUE]
                       ELSE paymentRequest
  /\ verifyCall' = [verifyCall EXCEPT ![v] = IdleVerify]
  /\ UNCHANGED calls

\* The verdict and the fulfilment it implies, in one transaction.
SaveResult(v) ==
  LET q == verifyCall[v]
      p == q.claim.request
  IN
  /\ q.op = "found"
  /\ results' = Append(results, Verdict(q))
  /\ paymentRequest' = IF Confirms(q) /\ p # Null
                       THEN [paymentRequest EXCEPT ![p].isFulfilled = TRUE]
                       ELSE paymentRequest
  /\ verifyCall' = [verifyCall EXCEPT ![v] = IdleVerify]
  /\ UNCHANGED calls

VerifyCallFails(v) ==
  /\ verifyCall[v].op # "idle"
  /\ verifyCall' = [verifyCall EXCEPT ![v] = IdleVerify]
  /\ UNCHANGED <<paymentRequest, results, calls>>

VerificationNext ==
  \/ \E p \in PaymentRequest, b \in Business, a \in LedgerAmount :
       CreatePaymentRequest(p, b, a)
  \/ \E v \in VerifyCall :
       \/ \E b \in Business, p \in PaymentRequest, r \in Reference :
            AskAboutRequest(v, b, p, r)
       \/ \E b \in Business, r \in Reference, a \in ClaimedAmount \cup {Null} :
            Ask(v, b, r, a)
       \/ FindTransaction(v)
       \/ SaveResult(v)
       \/ VerifyCallFails(v)
=============================================================================
