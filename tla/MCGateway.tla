-------------------------------- MODULE MCGateway --------------------------------
(* An instance of Gateway for TLC. *)
EXTENDS Gateway

\* Five passes with one key, or three from one address, take three of their windows.
CallsIn == [f \in Focus |-> IF f = {"key", "time"} THEN 5 ELSE 3]
ClockIn == [f \in Focus |-> IF f = {"key", "time"} THEN 4 ELSE 2]

IdSymmetry ==
  Permutations(Slot) \cup Permutations(Address) \cup Permutations(Business)
    \cup Permutations(User) \cup Permutations(MemberId)
=============================================================================
