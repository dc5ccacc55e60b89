---------------------------- MODULE MCConfigSync -----------------------------
(* Instances of ConfigSync for TLC. *)
EXTENDS ConfigSync, TLC

(* Sound for the safety runs only. *)
Symmetry == Permutations(Sets) \cup Permutations(Products) \cup Permutations(Syncs)
=============================================================================
