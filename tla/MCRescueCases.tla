----------------------------- MODULE MCRescueCases -----------------------------
(* Instances of RescueCases for TLC. *)
EXTENDS RescueCases, TLC

\* Ids are interchangeable: no action or property orders or names them.
IdSymmetry ==
  Permutations(Case) \cup Permutations(Transaction) \cup Permutations(Complaint)
    \cup Permutations(CaseRequest) \cup Permutations(Scanner)
=============================================================================
