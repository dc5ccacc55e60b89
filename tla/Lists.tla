-------------------------------- MODULE Lists --------------------------------
(***************************************************************************)
(* Going through a list one element at a time, as the loops of the program   *)
(* do: written as recursive functions, which the proofs can follow.          *)
(***************************************************************************)
EXTENDS Integers, Sequences

(* What a loop over s has made of base when it ends. *)
Folded(Op(_, _), base, s) ==
    LET fold[i \in 0 .. Len(s)] == IF i = 0 THEN base ELSE Op(fold[i - 1], s[i])
    IN fold[Len(s)]

(* The elements of s that are to be kept, in their order. *)
Only(s, keep) ==
    LET only[i \in 0 .. Len(s)] ==
            IF i = 0 THEN <<>>
            ELSE IF s[i] \in keep THEN Append(only[i - 1], s[i]) ELSE only[i - 1]
    IN only[Len(s)]

(* The numbers of a set that go up to n, in their order. *)
Ascending(S, n) == Only([i \in 1 .. n |-> i], S)
=============================================================================
