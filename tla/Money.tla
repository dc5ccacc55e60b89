------------------------------- MODULE Money ---------------------------------
(***************************************************************************)
(* Engine/Pricing.php: integer arithmetic in minor units.  A computation    *)
(* past MAX_MINOR, which the code refuses with an exception its callers     *)
(* catch, is Unpriceable here.  Quantities are fixed-point numbers with two *)
(* decimals (Scale), enough to tell every rounding case apart.              *)
(***************************************************************************)
EXTENDS Integers

CONSTANTS MaxMinor,     \* Pricing::MAX_MINOR
          Unpriceable   \* the exception of an assertion

ASSUME MaxMinorAssumption == MaxMinor \in Nat /\ MaxMinor > 0
ASSUME UnpriceableAssumption == Unpriceable \notin Int

Scale == 100
Points == 10000

Magnitude(n) == IF n < 0 THEN -n ELSE n

InRange(n) == Magnitude(n) <= MaxMinor

MultiplicationInRange(l, r) == InRange(l) /\ InRange(r) /\ InRange(l * r)

(* Mutant: a discount larger than the price is paid out. *)
Unclamped(total) == total

ClampToZero(total) == IF total < 0 THEN 0 ELSE total

(* Half up on the magnitude of n / d, with the sign of n. *)
Rounded(n, d) ==
    LET quotient == Magnitude(n) \div d
        up == IF 2 * (Magnitude(n) % d) >= d THEN quotient + 1 ELSE quotient
    IN IF n < 0 THEN -up ELSE up

PercentageOf(base, points) ==
    IF MultiplicationInRange(base, points)
    THEN Rounded(base * points, Points) ELSE Unpriceable

PerUnitOf(amount, quantity) ==
    IF ~InRange(amount) THEN Unpriceable
    ELSE IF quantity <= 0 THEN 0
    ELSE IF Magnitude(quantity * amount) > MaxMinor * Scale THEN Unpriceable
    ELSE Rounded(quantity * amount, Scale)
=============================================================================
