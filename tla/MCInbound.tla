------------------------------ MODULE MCInbound ------------------------------
(* Model-checking instance of Inbound.                                     *)
EXTENDS Inbound, TLC

Symmetric == Permutations(Actors) \cup Permutations(Instances) \cup Permutations(InIds)
=============================================================================
