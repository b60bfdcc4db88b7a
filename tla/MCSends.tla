------------------------------ MODULE MCSends ------------------------------
(* Model-checking instance of Sends.                                       *)
EXTENDS Sends, TLC

Symmetric == Permutations(Requests)
=============================================================================
