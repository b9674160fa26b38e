------------------------------- MODULE MCSessions -------------------------------
(* An instance of Sessions for TLC. *)
EXTENDS Sessions

\* Ids, passwords and cookie jars are interchangeable.
IdSymmetry ==
  Permutations(SessionId) \cup Permutations(Slot) \cup Permutations(Client)
    \cup Permutations(Password)
=============================================================================
