---------------------------- MODULE MCOptionSets -----------------------------
(* Instances of OptionSets for TLC. *)
EXTENDS OptionSets, TLC

(* Sets, targets and clients are interchangeable. *)
Symmetry == Permutations(Sets) \cup Permutations(Products) \cup Permutations(Clients)
=============================================================================
