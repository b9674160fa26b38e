---------------------------- MODULE MCPaymentLedger ----------------------------
(* Instances of PaymentLedger for TLC. *)
EXTENDS PaymentLedger

\* Ids and references are interchangeable: no action or property orders them.
IdSymmetry ==
  Permutations(Transaction) \cup Permutations(ReferenceKey) \cup Permutations(Spelling)
    \cup Permutations(StatusCall) \cup Permutations(VerifyCall)
=============================================================================
