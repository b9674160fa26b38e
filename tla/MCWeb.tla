---------------------------------- MODULE MCWeb -----------------------------------
(* An instance of WebClient for TLC: each set of Focus is one small story. *)
EXTENDS WebClient
=============================================================================
