--------------------------- MODULE MCBillingEvents ---------------------------
(* Instances of BillingEvents for TLC. *)
EXTENDS BillingEvents, TLC

(* Sound for the safety runs only. *)
Symmetry == Permutations(Events) \cup Permutations(Requests) \cup Permutations(Passes)
=============================================================================
