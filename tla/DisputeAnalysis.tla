------------------------------ MODULE DisputeAnalysis -----------------------------
(***************************************************************************)
(* The two decisions the server makes about a claim: its category, and     *)
(* the action that the risk signals recommend. Both are functions of the   *)
(* claim and of counts in the database.                                    *)
(***************************************************************************)
EXTENDS Naturals, FiniteSets

DuplicateWords == {"duplicate", "double debit", "twice"}
TransferWords  == {"not credited", "beneficiary not received", "reversed", "debited but"}
AmountWords    == {"wrong amount", "overcharge", "excess"}

\* classifyDispute: the first rule that applies. "says" holds the phrases of the
\* narrative, "known" is how many transactions have the reference.
ClassifyDispute(claim, known) ==
  LET says(words) == claim.says \cap words # {}
      isDuplicate == known > 1 \/ says(DuplicateWords)
      isTransfer  == claim.channel = "BANK_TRANSFER" \/ says(TransferWords)
      isAirtime   == claim.channel \in {"AIRTIME", "DATA"} /\ ~claim.delivered
      isToken     == /\ claim.channel = "ELECTRICITY_TOKEN"
                     /\ "token" \in claim.says \/ ~claim.delivered
      isPending   == claim.hours < 24 /\ ~claim.alerted
  IN IF isDuplicate THEN "DUPLICATE"
     ELSE IF isTransfer THEN "DEBITED_NOT_CREDITED"
     ELSE IF isAirtime THEN "FAILED_SERVICE"
     ELSE IF isToken THEN "SERVICE_NOT_RECEIVED"
     ELSE IF says(AmountWords) THEN "WRONG_AMOUNT"
     ELSE IF isPending THEN "PENDING" ELSE "NEEDS_VERIFICATION"

-----------------------------------------------------------------------------

\* The body of the request is JSON and the route has no schema: the timestamp arrives
\* as a string, and a string is never greater than a Date.
TimestampKind == {"string", "Date"}

\* claimedTimestamp > now.
InFuture(timestamp) == timestamp.kind = "Date" /\ timestamp.future

\* The signals about a claim; "strangers" is how many cases of other users have the
\* reference, "diff" how far the amount is from the recorded one, "recent" how many
\* cases the user opened within the day.
Signals(claim, strangers, diff, recent) ==
  {s \in {"CROSS_USER_DUPLICATE_REFERENCE", "AMOUNT_DISCREPANCY_DETECTED",
          "FUTURE_TIMESTAMP_DETECTED", "HIGH_VELOCITY_DISPUTE_FILING"} :
     CASE s = "CROSS_USER_DUPLICATE_REFERENCE" -> strangers > 0
       [] s = "AMOUNT_DISCREPANCY_DETECTED"    -> diff > 50
       [] s = "FUTURE_TIMESTAMP_DETECTED"      -> InFuture(claim.timestamp)
       [] s = "HIGH_VELOCITY_DISPUTE_FILING"   -> recent >= 5}

\* What each signal adds to the risk score.
RiskScore(signals) ==
  LET points(s, n) == IF s \in signals THEN n ELSE 0
  IN points("CROSS_USER_DUPLICATE_REFERENCE", 45) + points("AMOUNT_DISCREPANCY_DETECTED", 25)
     + points("FUTURE_TIMESTAMP_DETECTED", 60) + points("HIGH_VELOCITY_DISPUTE_FILING", 20)

OverallScore(signals) == IF RiskScore(signals) < 100 THEN RiskScore(signals) ELSE 100

RecommendedAction(signals) ==
  LET score == RiskScore(signals)
  IN IF score >= 60 \/ "FUTURE_TIMESTAMP_DETECTED" \in signals THEN "BLOCK"
     ELSE IF score >= 35 \/ "CROSS_USER_DUPLICATE_REFERENCE" \in signals THEN "REVIEW"
     ELSE IF score > 15 THEN "VERIFY" ELSE "ALLOW"
=============================================================================
