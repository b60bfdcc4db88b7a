----------------------------- MODULE MCSubscription -----------------------------
(* Model-checking instance of Subscription.                                *)
EXTENDS Subscription, TLC

Symmetric == Permutations(Actors) \cup Permutations(Plans) \cup Permutations(Subs)
=============================================================================
