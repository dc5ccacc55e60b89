--------------------------- MODULE MCSubscriptions ---------------------------
(* Instances of Subscriptions for TLC. *)
EXTENDS Subscriptions, TLC

(* Sound for the safety runs only. *)
Symmetry == Permutations(Prices) \cup Permutations(Handlers)
=============================================================================
