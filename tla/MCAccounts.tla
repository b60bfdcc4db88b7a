------------------------------ MODULE MCAccounts ------------------------------
(* Model-checking instance of Accounts.                                    *)
EXTENDS Accounts, TLC

Symmetric == Permutations(Actors) \cup Permutations(Managed)
                 \cup Permutations(Emails \ Managed)
=============================================================================
