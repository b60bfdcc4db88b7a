----------------------------- MODULE MCWaSession -----------------------------
(* Model-checking instance of WaSession.                                   *)
EXTENDS WaSession, TLC

Symmetric == Permutations(Actors) \cup Permutations(Clients)
=============================================================================
