----------------------------- MODULE PaymentLedger -----------------------------
(***************************************************************************)
(* The transaction ledger and its two readers, payment verification and    *)
(* reconciliation, interleaved at their awaits.                            *)
(***************************************************************************)
EXTENDS PaymentVerification, Reconciliation

vars == <<ledgerVars, verificationVars, batchVars, calls>>

Init == LedgerInit /\ VerificationInit /\ BatchInit

Next ==
  \/ LedgerNext       /\ UNCHANGED <<verificationVars, batchVars>>
  \/ VerificationNext /\ UNCHANGED <<ledgerVars, batchVars>>
  \/ BatchNext        /\ UNCHANGED <<ledgerVars, verificationVars>>

Spec == Init /\ [][Next]_vars

-----------------------------------------------------------------------------
TypeOK == LedgerTypeOK /\ VerificationTypeOK /\ BatchTypeOK

\* The status s was entered in the log of t.
Logged(t, s) == \E n \in DOMAIN log[t] : log[t][n].new = s

\* The ledger tells how it came about: the status of a row is the newStatus of
\* its last event, and verifiedStatus is null until the first update and equal to
\* the status from then on.
LogEndsInStatus ==
  \A t \in Transaction :
    /\ Entered(t) <=> log[t] # << >>
    /\ Entered(t) =>
         /\ log[t][Len(log[t])].new = ledger[t].status
         /\ ledger[t].verified = IF Len(log[t]) = 1 THEN Null ELSE ledger[t].status

\* An event may name a predecessor that another update has replaced in the
\* meantime, but only one the row did have before.
PreviousStatusesWereHeld ==
  \A t \in Transaction : \A n \in DOMAIN log[t] :
    IF n = 1 THEN log[t][n].previous = Null
             ELSE \E m \in DOMAIN log[t] : m < n /\ log[t][m].new = log[t][n].previous

\* The row t is one of the business with the reference as claimed.
IsClaimed(t, claim) == ledger[t].owner = claim.business /\ ledger[t].reference = claim.reference

\* A confirmation names a row of the same business with the reference as claimed,
\* which had settled at some time, and whose amount is the expected one where a
\* payment request or the claim gives one that is not zero.
ConfirmedWasSettled ==
  \A n \in DOMAIN results :
    results[n].isConfirmed =>
      LET t == results[n].transaction
          claim == results[n].claim
      IN  /\ t # Null
          /\ Logged(t, "SUCCESS")
          /\ IsClaimed(t, claim)
          /\ ledger[t].amount = results[n].amount
          /\ Expects(claim) => Near(results[n].amount, claim.expected)

\* A payment request is fulfilled exactly when a confirmation was saved for it,
\* by the business that issued it and against the amount it expects.
FulfilledWasConfirmed ==
  \A p \in PaymentRequest :
    /\ paymentRequest[p].isFulfilled
         <=> \E n \in DOMAIN results : results[n].isConfirmed /\ results[n].claim.request = p
    /\ \A n \in DOMAIN results :
         results[n].claim.request = p =>
           /\ paymentRequest[p].owner = results[n].claim.business
           /\ paymentRequest[p].expected = results[n].claim.expected

\* What an answer says of the ledger: owner, reference and amount of a row never
\* change, so what was true when the batch was matched is true of the row now.
AnswerHolds(b, r) ==
  LET t == r.transaction IN
  IF r.status = "UNMATCHED" THEN t = Null
  ELSE
    /\ t \in Owned(b)
    /\ r.status \in {"MATCHED", "MISMATCH"} <=> ledger[t].reference.key = r.claim.reference.key
    /\ r.status \in {"MATCHED", "PARTIAL_MATCH"} <=> Near(ledger[t].amount, r.claim.amount)

\* Every saved result, and every result still to be saved, holds of the ledger.
JobsAgreeWithLedger ==
  /\ \A n \in DOMAIN jobs : \A i \in DOMAIN jobs[n].results :
       AnswerHolds(jobs[n].business, jobs[n].results[i])
  /\ \A c \in BatchCall :
       batchCall[c].op = "answered" =>
         LET job == batchCall[c].job
         IN  \A i \in DOMAIN job.results : AnswerHolds(job.business, job.results[i])

\* What handlers in flight remember is history: an update the status its
\* transaction had, a verification the request and the row it saw.
CallsRememberHistory ==
  /\ \A u \in StatusCall :
       statusCall[u].op = "update" => Logged(statusCall[u].transaction, statusCall[u].previous)
  /\ \A v \in VerifyCall :
       /\ LET claim == verifyCall[v].claim
              p == claim.request
          IN  verifyCall[v].op # "idle" /\ p # Null =>
                /\ paymentRequest[p].owner = claim.business
                /\ paymentRequest[p].expected = claim.expected
       /\ LET q == verifyCall[v] IN
          q.op = "found" /\ q.transaction # Null =>
            /\ IsClaimed(q.transaction, q.claim)
            /\ ledger[q.transaction].amount = q.seen.amount
            /\ Logged(q.transaction, q.seen.status)

\* The inductive invariant behind the theorems.
LedgerInv ==
  /\ TypeOK
  /\ LogEndsInStatus
  /\ PreviousStatusesWereHeld
  /\ ConfirmedWasSettled
  /\ FulfilledWasConfirmed
  /\ JobsAgreeWithLedger
  /\ CallsRememberHistory

-----------------------------------------------------------------------------
\* When a batch is matched, the reference decides if some row of the business has
\* it, and a row that alone has it is matched exactly when it has the amount too;
\* without one, a claim is matched in part only by a row with its amount, and goes
\* unmatched only if no unsettled row has that. Whether a settled row may match in
\* part is left open: the comment of reconcileBatch says no, the code does it.
AnswersAreComplete ==
  [][\A c \in BatchCall :
       batchCall[c].op = "idle" /\ batchCall'[c].op = "answered" =>
         LET job == batchCall'[c].job IN
         \A i \in DOMAIN job.results :
           LET r        == job.results[i]
               sameKey  == { t \in Owned(job.business) : ledger[t].reference.key = r.claim.reference.key }
               sameSum  == { t \in Owned(job.business) : Near(ledger[t].amount, r.claim.amount) }
           IN  /\ r.status \in {"PARTIAL_MATCH", "UNMATCHED"} <=> sameKey = {}
               /\ r.status = "PARTIAL_MATCH" => sameSum # {}
               /\ r.status = "UNMATCHED" => \A t \in sameSum : ledger[t].status = "SUCCESS"
               /\ Cardinality(sameKey) = 1 => (r.status = "MATCHED" <=> sameKey \subseteq sameSum)]_vars

-----------------------------------------------------------------------------
(* What the repository says, and the code does not do. *)

\* "Transaction reference and credited amount matched successful ledger record.":
\* a confirmation is saved only over a row that is settled at that moment.
ConfirmedIsSettled ==
  [][Len(results') > Len(results) =>
       LET r == results'[Len(results')]
       IN  r.isConfirmed => ledger[r.transaction].status = "SUCCESS"]_vars
=============================================================================
