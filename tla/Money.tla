------------------------------- MODULE Money -------------------------------
(***************************************************************************)
(* Money in the smallest unit of a currency: the bounded integer (int64 in *)
(* the code) that every amount is held in, the arithmetic that refuses to  *)
(* leave it, and the single point at which an exact rational becomes a     *)
(* whole count of minor units (Currency.round).                            *)
(*                                                                         *)
(* The width of the integer is a parameter, so that overflow is reached on *)
(* small instances.  A big.Rat is a pair of a numerator n and a            *)
(* denominator d > 0; nothing below depends on it being in lowest terms.   *)
(***************************************************************************)
EXTENDS Integers

CONSTANT MaxInt   \* the largest value of the integer type (2^63-1 in the code)

ASSUME MaxIntAssumption == MaxInt \in Nat \ {0}

MinInt == -MaxInt - 1

Int64 == MinInt .. MaxInt

\* big.Int.IsInt64: the test of addInt64, subInt64, mulInt64 and round.
IsInt64(z) == MinInt <= z /\ z <= MaxInt

\* What unguarded int64 arithmetic leaves behind when the exact result z of
\* one addition, subtraction or negation is at most one modulus out of range.
Wrap(z) == IF z > MaxInt THEN z - (2 * MaxInt + 2)
           ELSE IF z < MinInt THEN z + (2 * MaxInt + 2)
           ELSE z

(***************************************************************************)
(* Rounding.                                                               *)
(***************************************************************************)
Modes == {"floor", "ceil", "half_up", "half_even"}

\* Faulty: half-up goes up, not away from zero.
BreakTieUp(mode, n, floor) ==
    IF mode = "half_even"
    THEN IF floor % 2 = 0 THEN floor ELSE floor + 1
    ELSE floor + 1

\* The half-way amount between floor and floor + 1, for an amount with the
\* sign of n.
BreakTie(mode, n, floor) ==
    IF mode = "half_even"
    THEN IF floor % 2 = 0 THEN floor ELSE floor + 1
    ELSE IF n >= 0 THEN floor + 1 ELSE floor

\* The exact amount n/d as a whole number; the caller tests IsInt64.
Round(mode, n, d) ==
    LET floor == n \div d
        rem   == n % d
    IN  CASE mode = "floor" -> floor
          [] mode = "ceil"  -> IF rem = 0 THEN floor ELSE floor + 1
          [] mode \in {"half_up", "half_even"} ->
                IF 2 * rem < d THEN floor
                ELSE IF 2 * rem > d THEN floor + 1
                ELSE BreakTie(mode, n, floor)

(***************************************************************************)
(* Display.  Format prints a sign, the digits of m / scale and, for a      *)
(* currency with decimals (scale > 1), those of m % scale, where m is the  *)
(* amount or its negation.  Go's / and % truncate toward zero, so a value  *)
(* of m that is still negative shows in both parts.                        *)
(***************************************************************************)
Quo(a, b) == IF a >= 0 THEN a \div b ELSE -((-a) \div b)
Mod(a, b) == a - b * Quo(a, b)

Format(minor, scale) ==
    LET neg == minor < 0
        m   == IF neg THEN Wrap(-minor) ELSE minor
    IN  [neg |-> neg, whole |-> Quo(m, scale), frac |-> Mod(m, scale)]

=============================================================================
