-------------------------- MODULE MCSubscriptionSync --------------------------
(* SubscriptionSync with named workers, interchangeable. *)
EXTENDS SubscriptionSync, TLC
CONSTANTS w1, w2
Symmetric == Permutations({w1, w2})
=============================================================================
