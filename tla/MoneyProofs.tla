---------------------------- MODULE MoneyProofs ----------------------------
(***************************************************************************)
(* Facts about Money, for every width of the integer, about Apportion, and *)
(* about the steps of Invoice, which bring its constants along.            *)
(*                                                                         *)
(* What a fold over a sequence comes to is proved by induction on the      *)
(* length, from the least element that a set of naturals has; that every   *)
(* such set has one follows from the well-founded order of finite sets.    *)
(***************************************************************************)
EXTENDS Apportion, Invoice, FiniteSetTheorems, TLAPS

\* Floor division by a positive denominator.
LEMMA FloorDivision ==
    ASSUME NEW n \in Int, NEW d \in Nat \ {0}
    PROVE  /\ n \div d \in Int
           /\ n % d \in 0 .. d - 1
           /\ n = d * (n \div d) + (n % d)
  BY SMT

\* Round picks the floor or the whole number above it, and the floor when the
\* amount is whole already (Currency.round).
LEMMA RoundIsNeighbour ==
    ASSUME NEW mode \in Modes, NEW n \in Int, NEW d \in Nat \ {0}
    PROVE  \/ Round(mode, n, d) = n \div d
           \/ Round(mode, n, d) = n \div d + 1 /\ n % d > 0
<1> DEFINE floor == n \div d
           rem == n % d
<1>1. floor \in Int /\ rem \in 0 .. d - 1
  BY FloorDivision
<1>2. CASE mode = "floor"
  BY <1>2 DEF Round
<1>3. CASE mode = "ceil"
  BY <1>1, <1>3 DEF Round
<1>4. CASE mode \in {"half_up", "half_even"}
  <2>1. Round(mode, n, d) = IF 2 * rem < d THEN floor
                            ELSE IF 2 * rem > d THEN floor + 1
                            ELSE BreakTie(mode, n, floor)
    BY <1>4 DEF Round
  <2>2. BreakTie(mode, n, floor) \in {floor, floor + 1}
    BY DEF BreakTie
  <2>3. ~(2 * rem < d) => rem > 0
    BY <1>1
  <2> QED
    BY <1>1, <2>1, <2>2, <2>3
<1> QED
  BY <1>2, <1>3, <1>4 DEF Modes

\* Rounding an amount between two whole numbers stays between them: it never
\* invents a unit beyond the next whole one (Currency.round).
THEOREM RoundBetween ==
    ASSUME NEW mode \in Modes, NEW n \in Int, NEW d \in Nat \ {0},
           NEW lo \in Int, NEW hi \in Int,
           lo * d <= n, n <= hi * d
    PROVE  /\ Round(mode, n, d) \in Int
           /\ lo <= Round(mode, n, d)
           /\ Round(mode, n, d) <= hi
<1> DEFINE floor == n \div d
           rem == n % d
<1>1. floor \in Int /\ rem \in 0 .. d - 1 /\ n = d * floor + rem
  BY FloorDivision
<1> HIDE DEF floor, rem
<1>2. lo <= floor
  <2>1. SUFFICES ASSUME floor + 1 <= lo PROVE FALSE
    BY <1>1
  <2>2. (floor + 1) * d <= lo * d
    BY <1>1, <2>1
  <2>3. (floor + 1) * d = d * floor + d
    BY <1>1
  <2> QED
    BY <1>1, <2>2, <2>3
<1>3. floor <= hi /\ (rem > 0 => floor + 1 <= hi)
  <2>1. floor <= hi
    <3>1. SUFFICES ASSUME hi + 1 <= floor PROVE FALSE
      BY <1>1
    <3>2. (hi + 1) * d <= floor * d
      BY <1>1, <3>1
    <3>3. (hi + 1) * d = hi * d + d /\ floor * d = d * floor
      BY <1>1
    <3> QED
      BY <1>1, <3>2, <3>3
  <2>2. ASSUME rem > 0, floor = hi PROVE FALSE
    <3>1. d * floor = hi * d
      BY <1>1, <2>2
    <3> QED
      BY <1>1, <2>2, <3>1
  <2> QED
    BY <1>1, <2>1, <2>2
<1>4. Round(mode, n, d) = floor \/ (Round(mode, n, d) = floor + 1 /\ rem > 0)
  BY RoundIsNeighbour DEF floor, rem
<1> QED
  BY <1>1, <1>2, <1>3, <1>4

\* A fraction in [0, 1] of an amount is between nothing and the amount, so
\* that PercentOff can neither add to an invoice nor drive it below zero.
THEOREM RoundFraction ==
    ASSUME NEW mode \in Modes, NEW t \in Nat,
           NEW n \in Nat, NEW d \in Nat \ {0}, n <= d
    PROVE  /\ Round(mode, t * n, d) \in Int
           /\ 0 <= Round(mode, t * n, d)
           /\ Round(mode, t * n, d) <= t
<1>1. t * n \in Int /\ 0 * d <= t * n /\ t * n <= t * d
  BY SMT
<1> QED
  BY <1>1, RoundBetween

\* Floor division has one outcome.
LEMMA FloorUnique ==
    ASSUME NEW n \in Int, NEW d \in Nat \ {0},
           NEW q \in Int, NEW r \in 0 .. d - 1, n = d * q + r
    PROVE  n \div d = q /\ n % d = r
<1> DEFINE floor == n \div d
           rem == n % d
<1>1. floor \in Int /\ rem \in 0 .. d - 1 /\ n = d * floor + rem
  BY FloorDivision
<1> HIDE DEF floor, rem
<1>2. ~(floor < q)
  <2>1. SUFFICES ASSUME floor + 1 <= q PROVE FALSE
    BY <1>1
  <2>2. d * (floor + 1) <= d * q
    BY <1>1, <2>1
  <2>3. d * (floor + 1) = d * floor + d
    BY <1>1
  <2> QED
    BY <1>1, <2>2, <2>3
<1>3. ~(q < floor)
  <2>1. SUFFICES ASSUME q + 1 <= floor PROVE FALSE
    BY <1>1
  <2>2. d * (q + 1) <= d * floor
    BY <1>1, <2>1
  <2>3. d * (q + 1) = d * q + d
    OBVIOUS
  <2> QED
    BY <1>1, <2>2, <2>3
<1>4. floor = q
  BY <1>1, <1>2, <1>3
<1>5. rem = r
  BY <1>1, <1>4
<1> QED
  BY <1>4, <1>5 DEF floor, rem

\* Half-up and half-even rounding yield a nearest whole number: no other is
\* closer to the exact amount (Currency.round, RoundHalfUp, RoundHalfEven).
THEOREM RoundNearest ==
    ASSUME NEW mode \in {"half_up", "half_even"}, NEW n \in Int, NEW d \in Nat \ {0}
    PROVE  /\ 2 * (d * Round(mode, n, d)) - 2 * n <= d
           /\ 2 * n - 2 * (d * Round(mode, n, d)) <= d
<1> DEFINE floor == n \div d
           rem == n % d
<1>1. floor \in Int /\ rem \in 0 .. d - 1 /\ n = d * floor + rem
  BY FloorDivision
<1>2. Round(mode, n, d) = IF 2 * rem < d THEN floor
                          ELSE IF 2 * rem > d THEN floor + 1
                          ELSE BreakTie(mode, n, floor)
  BY DEF Round
<1>3. BreakTie(mode, n, floor) \in {floor, floor + 1}
  BY DEF BreakTie
<1> HIDE DEF floor, rem
<1>4. d * (floor + 1) = d * floor + d /\ d * floor \in Int
  BY <1>1
<1>5. \/ Round(mode, n, d) = floor /\ 2 * rem <= d
      \/ Round(mode, n, d) = floor + 1 /\ 2 * rem >= d
  BY <1>1, <1>2, <1>3
<1>6. CASE Round(mode, n, d) = floor /\ 2 * rem <= d
  BY <1>1, <1>4, <1>6
<1>7. CASE Round(mode, n, d) = floor + 1 /\ 2 * rem >= d
  BY <1>1, <1>4, <1>7
<1> QED
  BY <1>5, <1>6, <1>7

\* More rounds to more, in every mode (Currency.round).
THEOREM RoundMonotone ==
    ASSUME NEW mode \in Modes, NEW a \in Int, NEW b \in Int,
           NEW d \in Nat \ {0}, a <= b
    PROVE  Round(mode, a, d) <= Round(mode, b, d)
<1> DEFINE fa == a \div d
           ra == a % d
           fb == b \div d
           rb == b % d
<1>1. fa \in Int /\ ra \in 0 .. d - 1 /\ a = d * fa + ra
  BY FloorDivision
<1>2. fb \in Int /\ rb \in 0 .. d - 1 /\ b = d * fb + rb
  BY FloorDivision
<1>3. Round(mode, a, d) = fa \/ Round(mode, a, d) = fa + 1
  BY RoundIsNeighbour
<1>4. Round(mode, b, d) = fb \/ Round(mode, b, d) = fb + 1
  BY RoundIsNeighbour
<1>5. fa = fb /\ ra = rb => a = b
  BY <1>1, <1>2
<1>6. fa = fb => ra <= rb
  <2> HIDE DEF fa, fb, ra, rb
  <2> QED
    BY <1>1, <1>2
<1>7. fa <= fb
  <2> HIDE DEF fa, fb, ra, rb
  <2>1. SUFFICES ASSUME fb + 1 <= fa PROVE FALSE
    BY <1>1, <1>2
  <2>2. d * (fb + 1) <= d * fa
    BY <1>1, <1>2, <2>1
  <2>3. d * (fb + 1) = d * fb + d
    BY <1>2
  <2> QED
    BY <1>1, <1>2, <2>2, <2>3
<1>8. CASE fa < fb
  <2> HIDE DEF fa, fb, ra, rb
  <2> QED
    BY <1>1, <1>2, <1>3, <1>4, <1>8
<1>9. CASE fa = fb
  <2>1. CASE mode = "floor"
    BY <1>1, <1>2, <1>9, <2>1 DEF Round
  <2>2. CASE mode = "ceil"
    <3>1. /\ Round(mode, a, d) = IF ra = 0 THEN fa ELSE fa + 1
          /\ Round(mode, b, d) = IF rb = 0 THEN fb ELSE fb + 1
      BY <2>2 DEF Round
    <3> HIDE DEF fa, fb, ra, rb
    <3> QED
      BY <1>1, <1>2, <1>6, <1>9, <3>1
  <2>3. CASE mode \in {"half_up", "half_even"}
    <3>1. /\ Round(mode, a, d) = IF 2 * ra < d THEN fa
                                 ELSE IF 2 * ra > d THEN fa + 1
                                 ELSE BreakTie(mode, a, fa)
          /\ Round(mode, b, d) = IF 2 * rb < d THEN fb
                                 ELSE IF 2 * rb > d THEN fb + 1
                                 ELSE BreakTie(mode, b, fb)
      BY <2>3 DEF Round
    <3>2. BreakTie(mode, a, fa) \in {fa, fa + 1} /\ BreakTie(mode, b, fb) \in {fb, fb + 1}
      BY DEF BreakTie
    <3>3. CASE ra = rb
      BY <1>1, <1>2, <1>3, <1>5, <1>9, <3>3
    <3>4. CASE ra < rb
      <4> HIDE DEF fa, fb, ra, rb
      <4> QED
        BY <1>1, <1>2, <1>9, <3>1, <3>2, <3>4
    <3> QED
      BY <1>1, <1>2, <1>6, <1>9, <3>3, <3>4
  <2> QED
    BY <2>1, <2>2, <2>3 DEF Modes
<1> QED
  BY <1>1, <1>2, <1>7, <1>8, <1>9

\* Half-up and half-even treat an amount and its negation alike, so that a
\* credit mirrors the charge of the same amount (breakTie).
THEOREM RoundMirror ==
    ASSUME NEW mode \in {"half_up", "half_even"}, NEW n \in Int, NEW d \in Nat \ {0}
    PROVE  Round(mode, -n, d) = -Round(mode, n, d)
<1> DEFINE floor == n \div d
           rem == n % d
<1>1. floor \in Int /\ rem \in 0 .. d - 1 /\ n = d * floor + rem
  BY FloorDivision
<1>2. Round(mode, n, d) = IF 2 * rem < d THEN floor
                          ELSE IF 2 * rem > d THEN floor + 1
                          ELSE BreakTie(mode, n, floor)
  BY DEF Round
<1> HIDE DEF floor, rem
<1>3. CASE rem = 0
  <2>1. (-n) = d * (-floor) + 0
    BY <1>1, <1>3
  <2>2. (-n) \div d = -floor /\ (-n) % d = 0
    BY <1>1, <2>1, FloorUnique
  <2>3. Round(mode, -n, d) = -floor
    BY <2>2 DEF Round
  <2> QED
    BY <1>2, <1>3, <2>3
<1>4. CASE rem > 0
  <2> DEFINE low == -floor - 1
  <2>1. (-n) = d * low + (d - rem)
    <3>1. d * low = -(d * floor) - d
      BY <1>1
    <3> QED
      BY <1>1, <3>1
  <2>2. d - rem \in 0 .. d - 1 /\ low \in Int /\ -n \in Int
    BY <1>1, <1>4
  <2> HIDE DEF low
  <2>3. (-n) \div d = low /\ (-n) % d = d - rem
    BY <2>1, <2>2, FloorUnique
  <2>4. Round(mode, -n, d) = IF 2 * (d - rem) < d THEN low
                             ELSE IF 2 * (d - rem) > d THEN low + 1
                             ELSE BreakTie(mode, -n, low)
    BY <2>3 DEF Round
  <2>5. 2 * rem = d => BreakTie(mode, -n, low) = -BreakTie(mode, n, floor)
    <3>1. CASE mode = "half_even"
      <4>1. low % 2 = 0 <=> floor % 2 # 0
        BY <1>1 DEF low
      <4> QED
        BY <1>1, <3>1, <4>1 DEF BreakTie, low
    <3>2. CASE mode = "half_up"
      <4>1. HAVE 2 * rem = d
      <4>2. n # 0
        <5>1. SUFFICES ASSUME n = 0 PROVE FALSE
          OBVIOUS
        <5>2. 0 = d * 0 + 0 /\ 0 \in 0 .. d - 1
          OBVIOUS
        <5>3. 0 % d = 0
          BY <5>2, FloorUnique
        <5> QED
          BY <1>4, <5>1, <5>3 DEF rem
      <4>3. n >= 0 <=> ~(-n >= 0)
        BY <4>2
      <4> QED
        BY <1>1, <3>2, <4>3 DEF BreakTie, low
    <3> QED
      BY <3>1, <3>2
  <2> QED
    BY <1>1, <1>2, <1>4, <2>2, <2>4, <2>5 DEF low
<1> QED
  BY <1>1, <1>3, <1>4

\* Rounding depends on the amount and not on how the fraction is written, in
\* lowest terms (big.Rat) or not.
THEOREM RoundReduced ==
    ASSUME NEW mode \in Modes, NEW n \in Int, NEW d \in Nat \ {0}, NEW k \in Nat \ {0}
    PROVE  Round(mode, n * k, d * k) = Round(mode, n, d)
<1> DEFINE floor == n \div d
           rem == n % d
<1>1. floor \in Int /\ rem \in 0 .. d - 1 /\ n = d * floor + rem
  BY FloorDivision
<1> HIDE DEF floor, rem
<1>2. n * k \in Int /\ d * k \in Nat \ {0}
  BY SMT
<1>3. rem * k \in 0 .. d * k - 1
  <2>1. (rem + 1) * k <= d * k
    BY <1>1
  <2>2. (rem + 1) * k = rem * k + k /\ rem * k \in Nat
    BY <1>1
  <2> QED
    BY <1>2, <2>1, <2>2
<1>4. n * k = (d * k) * floor + rem * k
  <2>1. (d * floor + rem) * k = (d * k) * floor + rem * k
    BY <1>1
  <2> QED
    BY <1>1, <2>1
<1>5. (n * k) \div (d * k) = floor /\ (n * k) % (d * k) = rem * k
  <2> DEFINE nk == n * k
             dk == d * k
             rk == rem * k
  <2>1. nk \in Int /\ dk \in Nat \ {0} /\ rk \in 0 .. dk - 1 /\ nk = dk * floor + rk
    BY <1>2, <1>3, <1>4
  <2> HIDE DEF nk, dk, rk
  <2>2. nk \div dk = floor /\ nk % dk = rk
    BY <1>1, <2>1, FloorUnique
  <2> QED
    BY <2>2 DEF nk, dk, rk
<1>6. (n * k >= 0 <=> n >= 0) /\ (rem * k = 0 <=> rem = 0)
  <2>1. n >= 0 => n * k >= 0
    BY SMT
  <2>2. n < 0 => n * k < 0
    BY SMT
  <2>3. rem > 0 => rem * k > 0
    BY <1>1
  <2>4. rem = 0 => rem * k = 0
    BY <1>1
  <2> QED
    BY <1>1, <1>2, <2>1, <2>2, <2>3, <2>4
<1>7. /\ 2 * (rem * k) < d * k <=> 2 * rem < d
      /\ 2 * (rem * k) > d * k <=> 2 * rem > d
  <2>1. 2 * (rem * k) = (2 * rem) * k /\ 2 * rem \in Nat
    BY <1>1
  <2>2. \A a, b \in Nat : a < b => a * k < b * k
    OBVIOUS
  <2>3. \A a, b \in Nat : a * k < b * k => a < b
    <3> SUFFICES ASSUME NEW a \in Nat, NEW b \in Nat, b <= a PROVE b * k <= a * k
      BY SMT
    <3> QED
      BY SMT
  <2>4. d * k \in Nat /\ (2 * rem) * k \in Nat
    BY <1>2, <2>1
  <2> QED
    BY <2>1, <2>2, <2>3, <2>4
<1>8. CASE mode = "floor"
  BY <1>5, <1>8 DEF Round, floor
<1>9. CASE mode = "ceil"
  BY <1>5, <1>6, <1>9 DEF Round, floor, rem
<1>10. CASE mode \in {"half_up", "half_even"}
  <2>1. Round(mode, n * k, d * k)
          = IF 2 * (rem * k) < d * k THEN floor
            ELSE IF 2 * (rem * k) > d * k THEN floor + 1
            ELSE BreakTie(mode, n * k, floor)
    BY <1>5, <1>10 DEF Round
  <2>2. Round(mode, n, d)
          = IF 2 * rem < d THEN floor
            ELSE IF 2 * rem > d THEN floor + 1
            ELSE BreakTie(mode, n, floor)
    BY <1>10 DEF Round, floor, rem
  <2>3. BreakTie(mode, n * k, floor) = BreakTie(mode, n, floor)
    BY <1>6 DEF BreakTie
  <2> QED
    BY <1>7, <2>1, <2>2, <2>3
<1> QED
  BY <1>8, <1>9, <1>10 DEF Modes

-----------------------------------------------------------------------------
(***************************************************************************)
(* Induction, and folds over sequences.                                    *)
(***************************************************************************)
\* A set of naturals that is not empty has a least element.
LEMMA LeastNatural ==
    ASSUME NEW X \in SUBSET Nat, X # {}
    PROVE  \E m \in X : \A k \in X : m <= k
<1> DEFINE T == {0 .. k : k \in X}
           R == StrictSubsetOrdering(Nat)
<1>1. T \subseteq FiniteSubsetsOf(Nat)
  <2> SUFFICES ASSUME NEW k \in X PROVE 0 .. k \in FiniteSubsetsOf(Nat)
    OBVIOUS
  <2>1. IsFiniteSet(0 .. k)
    BY FS_Interval
  <2> QED
    BY <2>1 DEF FiniteSubsetsOf
<1>2. T # {}
  OBVIOUS
<1>3. IsWellFoundedOn(R, FiniteSubsetsOf(Nat))
  BY FS_StrictSubsetOrderingWellFounded
<1> HIDE DEF T, R
<1>4. PICK x \in T : \A y \in T : ~(<<y, x>> \in R)
  BY <1>1, <1>2, <1>3, WFMin
<1>5. PICK m \in X : x = 0 .. m
  BY <1>4 DEF T
<1>6. ASSUME NEW k \in X, k < m PROVE FALSE
  <2>1. 0 .. k \in T
    BY DEF T
  <2>2. 0 .. k \subseteq 0 .. m /\ 0 .. k # 0 .. m
    BY <1>6
  <2>3. 0 .. k \in SUBSET Nat /\ 0 .. m \in SUBSET Nat
    OBVIOUS
  <2>4. <<0 .. k, 0 .. m>> \in R
    BY <2>2, <2>3 DEF R, StrictSubsetOrdering
  <2> QED
    BY <1>4, <1>5, <2>1, <2>4
<1> QED
  BY <1>6

\* Induction over the naturals up to n, as a fact about a set.
LEMMA UpTo ==
    ASSUME NEW n \in Nat, NEW X, 0 \in X, \A k \in 0 .. n : k < n /\ k \in X => k + 1 \in X
    PROVE  0 .. n \subseteq X
<1> SUFFICES ASSUME 0 .. n \ X # {} PROVE FALSE
  OBVIOUS
<1>1. PICK m \in 0 .. n \ X : \A k \in 0 .. n \ X : m <= k
  <2>1. 0 .. n \ X \in SUBSET Nat
    OBVIOUS
  <2> QED
    BY <2>1, LeastNatural
<1>2. m # 0 /\ m - 1 \in 0 .. n
  BY <1>1
<1>3. m - 1 \in X
  BY <1>1, <1>2
<1> QED
  BY <1>1, <1>2, <1>3

\* The position that a fold takes out first.
LEMMA MaxOfUpTo ==
    ASSUME NEW m \in Nat, NEW S \in SUBSET (1 .. m + 1), m + 1 \in S
    PROVE  Max(S) = m + 1
<1>1. \A y \in S : m + 1 >= y
  OBVIOUS
<1>2. \A x \in S : (\A y \in S : x >= y) => x = m + 1
  OBVIOUS
<1> QED
  BY <1>1, <1>2 DEF Max

LEMMA MaxOfPrefix ==
    ASSUME NEW k \in Nat \ {0}
    PROVE  Max(1 .. k) = k
<1>1. \A x \in 1 .. k : (\A y \in 1 .. k : x >= y) => x = k
  OBVIOUS
<1>2. k \in 1 .. k /\ \A y \in 1 .. k : k >= y
  OBVIOUS
<1> QED
  BY <1>1, <1>2 DEF Max

LEMMA MaxIn ==
    ASSUME NEW n \in Nat, NEW S \in SUBSET (1 .. n), S # {}
    PROVE  Max(S) \in S
<1> DEFINE T == {n - k : k \in S}
<1>1. \A k \in S : k \in 1 .. n
  OBVIOUS
<1>2. T \in SUBSET Nat
  BY <1>1
<1>3. T # {}
  BY <1>1
<1>4. PICK m \in T : \A k \in T : m <= k
  <2> HIDE DEF T
  <2> QED
    BY <1>2, <1>3, LeastNatural
<1>5. PICK x \in S : m = n - x
  BY <1>4
<1>6. ASSUME NEW y \in S PROVE x >= y
  <2>1. n - y \in T
    OBVIOUS
  <2>2. n - x <= n - y
    BY <1>4, <1>5, <2>1
  <2>3. x \in 1 .. n /\ y \in 1 .. n
    BY <1>1
  <2> QED
    BY <2>2, <2>3
<1> QED
  BY <1>6 DEF Max

LEMMA PrefixIn ==
    ASSUME NEW n \in Nat, NEW k \in 0 .. n
    PROVE  1 .. k \in SUBSET (1 .. n)
<1>1. \A i \in 1 .. k : i \in 1 .. n
  OBVIOUS
<1> QED
  BY <1>1

\* A function that folds by "step" has, for each set of positions, the value
\* the fold reaches over them in turn.
FoldsBy(f, n, base, step) ==
    \A s \in SUBSET (1 .. n) :
      f[s] = IF s = {} THEN base ELSE step[<<Max(s), f[s \ {Max(s)}]>>]

\* What a fold over a sequence unfolds to: a value for each set of positions.
\* There is such a function, for every length.
LEMMA FoldDefined ==
    ASSUME NEW n \in Nat, NEW V, NEW base \in V, NEW step \in [(1 .. n) \X V -> V]
    PROVE  \E f \in [SUBSET (1 .. n) -> V] : FoldsBy(f, n, base, step)
<1> DEFINE Folds(f, m) == /\ f \in [SUBSET (1 .. m) -> V]
                          /\ FoldsBy(f, m, base, step)
           X == {m \in 0 .. n : \E f : Folds(f, m)}
<1>1. 0 \in X
  <2> DEFINE h == [s \in SUBSET (1 .. 0) |-> base]
  <2>1. SUBSET (1 .. 0) = {{}}
    OBVIOUS
  <2>2. Folds(h, 0)
    BY <2>1 DEF FoldsBy
  <2> HIDE DEF Folds, h
  <2> QED
    BY <2>2
<1>2. ASSUME NEW m \in 0 .. n, m < n, m \in X PROVE m + 1 \in X
  <2>1. PICK f : Folds(f, m)
    BY <1>2
  <2> DEFINE g == [s \in SUBSET (1 .. m + 1) |->
                     IF m + 1 \in s THEN step[<<m + 1, f[s \ {m + 1}]>>] ELSE f[s]]
  <2>2. \A s \in SUBSET (1 .. m + 1) : m + 1 \notin s => s \in SUBSET (1 .. m)
    OBVIOUS
  <2>3. \A s \in SUBSET (1 .. m + 1) : s \ {m + 1} \in SUBSET (1 .. m)
    OBVIOUS
  <2>4. g \in [SUBSET (1 .. m + 1) -> V]
    <3> SUFFICES ASSUME NEW s \in SUBSET (1 .. m + 1) PROVE
            (IF m + 1 \in s THEN step[<<m + 1, f[s \ {m + 1}]>>] ELSE f[s]) \in V
      OBVIOUS
    <3>1. CASE m + 1 \in s
      <4>1. f[s \ {m + 1}] \in V
        BY <2>1, <2>3
      <4>2. m + 1 \in 1 .. n
        BY <1>2
      <4>3. <<m + 1, f[s \ {m + 1}]>> \in (1 .. n) \X V
        BY <4>1, <4>2
      <4> QED
        BY <4>3, <3>1
    <3>2. CASE m + 1 \notin s
      BY <2>1, <2>2, <3>2
    <3> QED
      BY <3>1, <3>2
  <2>5. ASSUME NEW s \in SUBSET (1 .. m + 1)
        PROVE  g[s] = IF s = {} THEN base ELSE step[<<Max(s), g[s \ {Max(s)}]>>]
    <3>1. CASE m + 1 \in s
      <4>1. Max(s) = m + 1
        BY <3>1, MaxOfUpTo
      <4>2. g[s \ {m + 1}] = f[s \ {m + 1}]
        BY <2>3
      <4> QED
        BY <3>1, <4>1, <4>2
    <3>2. CASE m + 1 \notin s
      <4>1. s \in SUBSET (1 .. m) /\ g[s] = f[s]
        BY <2>2, <3>2
      <4>2. CASE s = {}
        BY <2>1, <4>1, <4>2 DEF FoldsBy
      <4>3. CASE s # {}
        <5>1. g[s \ {Max(s)}] = f[s \ {Max(s)}]
          BY <4>1
        <5>2. f[s] = step[<<Max(s), f[s \ {Max(s)}]>>]
          BY <2>1, <4>1, <4>3 DEF FoldsBy
        <5> QED
          BY <4>1, <4>3, <5>1, <5>2
      <4> QED
        BY <4>2, <4>3
    <3> QED
      BY <3>1, <3>2
  <2>6. Folds(g, m + 1)
    BY <2>4, <2>5 DEF FoldsBy
  <2>7. m + 1 \in 0 .. n
    BY <1>2
  <2> QED
    BY <2>6, <2>7
<1> HIDE DEF X
<1>3. 0 .. n \subseteq X
  BY <1>1, <1>2, UpTo
<1>4. n \in X
  BY <1>3
<1> QED
  BY <1>4 DEF X

\* SumOf adds the elements up, one after another.
LEMMA SumOfFold ==
    ASSUME NEW n \in Nat, NEW seq \in [1 .. n -> Int]
    PROVE  \E p \in [0 .. n -> Int] :
              /\ p[0] = 0
              /\ \A k \in 1 .. n : p[k] = p[k - 1] + seq[k]
              /\ SumOf(seq) = p[n]
<1> DEFINE Body(f) == [s \in SUBSET (1 .. n) |->
                        IF s = {} THEN 0 ELSE f[s \ {Max(s)}] + seq[Max(s)]]
           iter == CHOOSE f : f = Body(f)
           step == [x \in (1 .. n) \X Int |-> x[2] + seq[x[1]]]
           p == [k \in 0 .. n |-> iter[1 .. k]]
<1>1. DOMAIN seq = 1 .. n
  OBVIOUS
<1>2. SumOf(seq) = iter[1 .. n]
  BY <1>1 DEF SumOf, FoldLeft, MapThenFoldSet
<1>3. step \in [(1 .. n) \X Int -> Int]
  OBVIOUS
<1>4. 0 \in Int
  OBVIOUS
<1>5. PICK f \in [SUBSET (1 .. n) -> Int] : FoldsBy(f, n, 0, step)
  <2> HIDE DEF step
  <2> QED
    BY <1>3, <1>4, FoldDefined
<1>6. f = Body(f)
  <2> SUFFICES ASSUME NEW s \in SUBSET (1 .. n), s # {}
               PROVE f[s] = f[s \ {Max(s)}] + seq[Max(s)]
    BY <1>5 DEF FoldsBy
  <2>1. Max(s) \in 1 .. n
    BY MaxIn
  <2>2. <<Max(s), f[s \ {Max(s)}]>> \in (1 .. n) \X Int
    BY <2>1
  <2> QED
    BY <1>5, <2>2 DEF FoldsBy
<1>7. iter = Body(iter)
  <2> HIDE DEF Body
  <2> QED
    BY <1>6
<1> HIDE DEF iter
<1>8. \A k \in 1 .. n : iter[1 .. k] = iter[1 .. k - 1] + seq[k]
  <2> SUFFICES ASSUME NEW k \in 1 .. n PROVE iter[1 .. k] = iter[1 .. k - 1] + seq[k]
    OBVIOUS
  <2>1. Max(1 .. k) = k
    BY MaxOfPrefix
  <2>2. (1 .. k) \ {k} = 1 .. k - 1
    OBVIOUS
  <2>3. 1 .. k \in SUBSET (1 .. n)
    BY PrefixIn
  <2>4. k \in 1 .. k
    OBVIOUS
  <2> QED
    BY <1>7, <2>1, <2>2, <2>3, <2>4
<1>9. iter[1 .. 0] = 0
  <2>1. 1 .. 0 = {}
    OBVIOUS
  <2>2. {} \in SUBSET (1 .. n)
    OBVIOUS
  <2> QED
    BY <1>7, <2>1, <2>2
<1>10. p[0] = 0 /\ \A k \in 1 .. n : p[k] = p[k - 1] + seq[k]
  BY <1>8, <1>9
<1>11. p[n] = SumOf(seq)
  BY <1>2
<1> HIDE DEF p
<1>12. \A k \in 0 .. n : p[k] \in Int
  <2> DEFINE X == {k \in 0 .. n : p[k] \in Int}
  <2>1. 0 \in X
    BY <1>10
  <2>2. \A k \in 0 .. n : k < n /\ k \in X => k + 1 \in X
    BY <1>10
  <2> HIDE DEF X
  <2>3. 0 .. n \subseteq X
    BY <2>1, <2>2, UpTo
  <2> QED
    BY <2>3 DEF X
<1>13. p \in [0 .. n -> Int]
  BY <1>12 DEF p
<1> QED
  BY <1>10, <1>11, <1>13

\* The sums of the first 0, 1, ... elements tell the sum of all.
LEMMA SumOfIs ==
    ASSUME NEW n \in Nat, NEW seq \in [1 .. n -> Int], NEW p \in [0 .. n -> Int],
           p[0] = 0, \A k \in 1 .. n : p[k] = p[k - 1] + seq[k]
    PROVE  SumOf(seq) = p[n]
<1>1. PICK r \in [0 .. n -> Int] : /\ r[0] = 0
                                   /\ \A k \in 1 .. n : r[k] = r[k - 1] + seq[k]
                                   /\ SumOf(seq) = r[n]
  BY SumOfFold
<1> DEFINE X == {k \in 0 .. n : r[k] = p[k]}
<1>2. 0 \in X
  BY <1>1
<1>3. ASSUME NEW k \in 0 .. n, k < n, k \in X PROVE k + 1 \in X
  <2>1. k + 1 \in 1 .. n /\ (k + 1) - 1 = k
    BY <1>3
  <2> QED
    BY <1>1, <1>3, <2>1
<1> HIDE DEF X
<1>4. 0 .. n \subseteq X
  BY <1>2, <1>3, UpTo
<1> QED
  BY <1>1, <1>4 DEF X

LEMMA SumOfInt ==
    ASSUME NEW n \in Nat, NEW seq \in [1 .. n -> Int]
    PROVE  SumOf(seq) \in Int
  BY SumOfFold

\* One element more.
LEMMA SumOfNext ==
    ASSUME NEW n \in Nat, NEW seq \in [1 .. n -> Int], NEW k \in 1 .. n
    PROVE  SumOf([j \in 1 .. k |-> seq[j]]) = SumOf([j \in 1 .. k - 1 |-> seq[j]]) + seq[k]
<1>1. PICK p \in [0 .. n -> Int] : /\ p[0] = 0
                                   /\ \A j \in 1 .. n : p[j] = p[j - 1] + seq[j]
  BY SumOfFold
<1>2. ASSUME NEW m \in 0 .. n PROVE SumOf([j \in 1 .. m |-> seq[j]]) = p[m]
  <2> DEFINE s == [j \in 1 .. m |-> seq[j]]
             q == [j \in 0 .. m |-> p[j]]
  <2>1. s \in [1 .. m -> Int] /\ q \in [0 .. m -> Int]
    OBVIOUS
  <2>2. q[0] = 0 /\ \A j \in 1 .. m : q[j] = q[j - 1] + s[j]
    BY <1>1
  <2>3. q[m] = p[m] /\ m \in Nat
    OBVIOUS
  <2> HIDE DEF s, q
  <2>4. SumOf(s) = q[m]
    BY <2>1, <2>2, <2>3, SumOfIs
  <2> QED
    BY <2>3, <2>4 DEF s
<1>3. k - 1 \in 0 .. n /\ k \in 0 .. n
  OBVIOUS
<1> QED
  BY <1>1, <1>2, <1>3

LEMMA SumOfNone ==
    ASSUME NEW seq \in [1 .. 0 -> Int]
    PROVE  SumOf(seq) = 0
<1>1. 0 \in Nat
  OBVIOUS
<1> QED
  BY <1>1, SumOfFold

\* Sums of sums and of multiples.
LEMMA SumOfPlus ==
    ASSUME NEW n \in Nat,
           NEW s \in [1 .. n -> Int], NEW t \in [1 .. n -> Int], NEW u \in [1 .. n -> Int],
           \A k \in 1 .. n : u[k] = s[k] + t[k]
    PROVE  SumOf(u) = SumOf(s) + SumOf(t)
<1>1. PICK p \in [0 .. n -> Int] : /\ p[0] = 0
                                   /\ \A k \in 1 .. n : p[k] = p[k - 1] + s[k]
                                   /\ SumOf(s) = p[n]
  BY SumOfFold
<1>2. PICK q \in [0 .. n -> Int] : /\ q[0] = 0
                                   /\ \A k \in 1 .. n : q[k] = q[k - 1] + t[k]
                                   /\ SumOf(t) = q[n]
  BY SumOfFold
<1> DEFINE r == [k \in 0 .. n |-> p[k] + q[k]]
<1>3. r \in [0 .. n -> Int]
  OBVIOUS
<1>4. r[0] = 0
  BY <1>1, <1>2
<1>5. ASSUME NEW k \in 1 .. n PROVE r[k] = r[k - 1] + u[k]
  <2>1. k \in 0 .. n /\ k - 1 \in 0 .. n
    OBVIOUS
  <2> QED
    BY <1>1, <1>2, <2>1
<1>6. r[n] = SumOf(s) + SumOf(t)
  BY <1>1, <1>2
<1> HIDE DEF r
<1> QED
  BY <1>3, <1>4, <1>5, <1>6, SumOfIs

\* A product under a name: the provers see arithmetic in it only where a step
\* asks for it.
Times(a, b) == a * b

Scaled(a, s) == [k \in DOMAIN s |-> Times(a, s[k])]

LEMMA TimesPlus ==
    ASSUME NEW a \in Int, NEW x \in Int, NEW y \in Int
    PROVE  /\ Times(a, x) \in Int /\ Times(a, y) \in Int /\ Times(a, 0) = 0
           /\ Times(a, x + y) = Times(a, x) + Times(a, y)
  BY DEF Times

LEMMA SumOfScaled ==
    ASSUME NEW n \in Nat, NEW a \in Int, NEW s \in [1 .. n -> Int]
    PROVE  SumOf(Scaled(a, s)) = Times(a, SumOf(s))
<1>1. PICK p \in [0 .. n -> Int] : /\ p[0] = 0
                                   /\ \A k \in 1 .. n : p[k] = p[k - 1] + s[k]
                                   /\ SumOf(s) = p[n]
  BY SumOfFold
<1> DEFINE r == [k \in 0 .. n |-> Times(a, p[k])]
<1>2. r \in [0 .. n -> Int] /\ Scaled(a, s) \in [1 .. n -> Int]
  BY TimesPlus DEF Scaled
<1>3. r[0] = 0
  BY <1>1, TimesPlus
<1>4. ASSUME NEW k \in 1 .. n PROVE r[k] = r[k - 1] + Scaled(a, s)[k]
  <2>1. k \in 0 .. n /\ k - 1 \in 0 .. n
    OBVIOUS
  <2>2. p[k - 1] \in Int /\ s[k] \in Int
    BY <2>1
  <2>3. r[k] = Times(a, p[k - 1] + s[k])
    BY <1>1, <2>1
  <2>4. r[k - 1] = Times(a, p[k - 1]) /\ Scaled(a, s)[k] = Times(a, s[k])
    BY <2>1 DEF Scaled
  <2>5. Times(a, p[k - 1] + s[k]) = Times(a, p[k - 1]) + Times(a, s[k])
    BY <2>2, TimesPlus
  <2> QED
    BY <2>3, <2>4, <2>5, Zenon
<1>5. r[n] = Times(a, SumOf(s))
  BY <1>1
<1> HIDE DEF r
<1> QED
  BY <1>2, <1>3, <1>4, <1>5, SumOfIs

\* One element changed.
LEMMA SumOfUpdate ==
    ASSUME NEW n \in Nat, NEW s \in [1 .. n -> Int], NEW k \in 1 .. n, NEW v \in Int
    PROVE  SumOf([s EXCEPT ![k] = v]) = SumOf(s) + (v - s[k])
<1> DEFINE u == [s EXCEPT ![k] = v]
<1>1. PICK p \in [0 .. n -> Int] : /\ p[0] = 0
                                   /\ \A j \in 1 .. n : p[j] = p[j - 1] + s[j]
                                   /\ SumOf(s) = p[n]
  BY SumOfFold
<1> DEFINE r == [j \in 0 .. n |-> IF j >= k THEN p[j] + (v - s[k]) ELSE p[j]]
<1>2. r \in [0 .. n -> Int] /\ u \in [1 .. n -> Int]
  OBVIOUS
<1>3. r[0] = 0
  BY <1>1
<1>4. ASSUME NEW j \in 1 .. n PROVE r[j] = r[j - 1] + u[j]
  <2>1. j \in 0 .. n /\ j - 1 \in 0 .. n
    OBVIOUS
  <2>2. u[j] = IF j = k THEN v ELSE s[j]
    OBVIOUS
  <2>3. p[j] = p[j - 1] + s[j] /\ p[j - 1] \in Int /\ s[j] \in Int
    BY <1>1, <2>1
  <2> QED
    BY <2>1, <2>2, <2>3
<1>5. r[n] = SumOf(s) + (v - s[k])
  BY <1>1
<1> HIDE DEF r, u
<1>6. SumOf(u) = r[n]
  BY <1>2, <1>3, <1>4, SumOfIs
<1> QED
  BY <1>5, <1>6 DEF u

\* The same element throughout.
LEMMA SumOfZeros ==
    ASSUME NEW n \in Nat
    PROVE  SumOf([j \in 1 .. n |-> 0]) = 0
<1> DEFINE s == [j \in 1 .. n |-> 0]
           p == [j \in 0 .. n |-> 0]
<1>1. s \in [1 .. n -> Int] /\ p \in [0 .. n -> Int]
  OBVIOUS
<1>2. p[0] = 0 /\ \A j \in 1 .. n : p[j] = p[j - 1] + s[j]
  OBVIOUS
<1>3. p[n] = 0
  OBVIOUS
<1> HIDE DEF s, p
<1>4. SumOf(s) = p[n]
  BY <1>1, <1>2, SumOfIs
<1> QED
  BY <1>3, <1>4 DEF s

\* A one for each element comes to the length: the sum of an even split's weights.
LEMMA SumOfOnes ==
    ASSUME NEW n \in Nat
    PROVE  SumOf([j \in 1 .. n |-> 1]) = n
<1> DEFINE s == [j \in 1 .. n |-> 1]
           p == [j \in 0 .. n |-> j]
<1>1. s \in [1 .. n -> Int] /\ p \in [0 .. n -> Int]
  OBVIOUS
<1>2. p[0] = 0 /\ \A j \in 1 .. n : p[j] = p[j - 1] + s[j]
  OBVIOUS
<1>3. p[n] = n
  OBVIOUS
<1> HIDE DEF s, p
<1>4. SumOf(s) = p[n]
  BY <1>1, <1>2, SumOfIs
<1> QED
  BY <1>3, <1>4 DEF s

\* Of naturals, none exceeds the sum.
LEMMA SumOfNat ==
    ASSUME NEW n \in Nat, NEW seq \in [1 .. n -> Nat]
    PROVE  /\ SumOf(seq) \in Nat
           /\ \A k \in 1 .. n : seq[k] <= SumOf(seq)
<1>1. seq \in [1 .. n -> Int]
  OBVIOUS
<1>2. PICK p \in [0 .. n -> Int] : /\ p[0] = 0
                                   /\ \A k \in 1 .. n : p[k] = p[k - 1] + seq[k]
                                   /\ SumOf(seq) = p[n]
  BY <1>1, SumOfFold
<1> DEFINE X == {k \in 0 .. n : 0 <= p[k] /\ \A j \in 1 .. n : j <= k => seq[j] <= p[k]}
<1>3. 0 \in X
  BY <1>2
<1>4. ASSUME NEW k \in 0 .. n, k < n, k \in X PROVE k + 1 \in X
  <2>1. k + 1 \in 1 .. n /\ (k + 1) - 1 = k /\ k + 1 \in 0 .. n
    BY <1>4
  <2>2. p[k + 1] = p[k] + seq[k + 1] /\ p[k] \in Int /\ seq[k + 1] \in Nat /\ 0 <= p[k]
    BY <1>2, <1>4, <2>1
  <2>3. \A j \in 1 .. n : j <= k => seq[j] <= p[k]
    BY <1>4
  <2>4. \A j \in 1 .. n : j <= k + 1 => seq[j] <= p[k + 1]
    BY <2>2, <2>3
  <2> QED
    BY <2>1, <2>2, <2>4
<1> HIDE DEF X
<1>5. 0 .. n \subseteq X
  BY <1>3, <1>4, UpTo
<1>6. n \in X
  BY <1>5
<1> QED
  BY <1>2, <1>6 DEF X

\* Of naturals up to m, the sum is at most m for each that is not zero.
LEMMA SumOfCounted ==
    ASSUME NEW n \in Nat, NEW m \in Nat, NEW seq \in [1 .. n -> 0 .. m]
    PROVE  SumOf(seq) <= Times(m, Cardinality({j \in 1 .. n : seq[j] > 0}))
<1>1. seq \in [1 .. n -> Int]
  OBVIOUS
<1>2. PICK p \in [0 .. n -> Int] : /\ p[0] = 0
                                   /\ \A k \in 1 .. n : p[k] = p[k - 1] + seq[k]
                                   /\ SumOf(seq) = p[n]
  BY <1>1, SumOfFold
<1> DEFINE Live(k) == {j \in 1 .. k : seq[j] > 0}
           X == {k \in 0 .. n : /\ IsFiniteSet(Live(k))
                                /\ p[k] <= Times(m, Cardinality(Live(k)))}
<1>3. 0 \in X
  <2>1. Live(0) = {}
    OBVIOUS
  <2>2. IsFiniteSet({}) /\ Cardinality({}) = 0
    BY FS_EmptySet
  <2>3. Times(m, 0) = 0 /\ 0 \in 0 .. n
    BY TimesPlus
  <2> HIDE DEF Live
  <2>4. IsFiniteSet(Live(0)) /\ Cardinality(Live(0)) = 0
    BY <2>1, <2>2
  <2>5. p[0] <= Times(m, Cardinality(Live(0)))
    BY <1>2, <2>3, <2>4
  <2> QED
    BY <2>3, <2>4, <2>5
<1>4. ASSUME NEW k \in 0 .. n, k < n, k \in X PROVE k + 1 \in X
  <2>1. k + 1 \in 1 .. n /\ (k + 1) - 1 = k /\ k + 1 \in 0 .. n
    BY <1>4
  <2>2. p[k + 1] = p[k] + seq[k + 1] /\ p[k] \in Int /\ seq[k + 1] \in 0 .. m
    BY <1>2, <1>4, <2>1
  <2>3. IsFiniteSet(Live(k)) /\ p[k] <= Times(m, Cardinality(Live(k)))
    BY <1>4
  <2>4. Cardinality(Live(k)) \in Nat
    BY <2>3, FS_CardinalityType
  <2>5. CASE seq[k + 1] > 0
    <3>1. Live(k + 1) = Live(k) \cup {k + 1} /\ k + 1 \notin Live(k)
      BY <2>1, <2>5
    <3> HIDE DEF Live
    <3>2. /\ IsFiniteSet(Live(k) \cup {k + 1})
          /\ Cardinality(Live(k) \cup {k + 1}) = Cardinality(Live(k)) + 1
      BY <2>3, <3>1, FS_AddElement
    <3>3. Times(m, Cardinality(Live(k)) + 1) = Times(m, Cardinality(Live(k))) + m
      BY <2>4 DEF Times
    <3>4. p[k + 1] <= Times(m, Cardinality(Live(k))) + m
      <4>1. Times(m, Cardinality(Live(k))) \in Int
        BY <2>4, TimesPlus
      <4> QED
        BY <2>2, <2>3, <4>1
    <3> QED
      BY <2>1, <3>1, <3>2, <3>3, <3>4
  <2>6. CASE seq[k + 1] = 0
    <3>1. Live(k + 1) = Live(k)
      BY <2>1, <2>6
    <3> HIDE DEF Live
    <3> QED
      BY <2>1, <2>2, <2>3, <2>6, <3>1
  <2> QED
    BY <2>2, <2>5, <2>6
<1>5. 0 .. n \subseteq X
  <2> HIDE DEF X
  <2> QED
    BY <1>3, <1>4, UpTo
<1>6. n \in X
  BY <1>5
<1> QED
  BY <1>2, <1>6

-----------------------------------------------------------------------------
(***************************************************************************)
(* The sum of a function over a finite set, which is a fold in an order    *)
(* that nobody knows.                                                      *)
(***************************************************************************)
\* The element that a fold over a set takes next.
Pick(s) == CHOOSE x \in s : TRUE

\* Induction over the subsets of a finite set, in the order of such a fold.
LEMMA SubsetsInTurn ==
    ASSUME NEW S, IsFiniteSet(S), NEW X, {} \in X,
           \A s \in SUBSET S : s # {} /\ s \ {Pick(s)} \in X => s \in X
    PROVE  SUBSET S \subseteq X
<1> SUFFICES ASSUME (SUBSET S) \ X # {} PROVE FALSE
  OBVIOUS
<1> DEFINE C == {Cardinality(s) : s \in (SUBSET S) \ X}
<1>1. \A s \in SUBSET S : IsFiniteSet(s) /\ Cardinality(s) \in Nat
  BY FS_Subset, FS_CardinalityType
<1>2. C \in SUBSET Nat /\ C # {}
  BY <1>1
<1>3. PICK m \in C : \A k \in C : m <= k
  <2> HIDE DEF C
  <2> QED
    BY <1>2, LeastNatural
<1>4. PICK s \in (SUBSET S) \ X : m = Cardinality(s)
  BY <1>3
<1>5. s # {} /\ Pick(s) \in s
  BY <1>4 DEF Pick
<1>6. Cardinality(s \ {Pick(s)}) = Cardinality(s) - 1
  BY <1>1, <1>4, <1>5, FS_RemoveElement
<1>7. s \ {Pick(s)} \in SUBSET S
  BY <1>4
<1>8. s \ {Pick(s)} \notin X
  BY <1>4, <1>5, <1>7
<1>9. Cardinality(s) - 1 \in C
  BY <1>6, <1>7, <1>8
<1>10. Cardinality(s) \in Nat /\ Cardinality(s) <= Cardinality(s) - 1
  <2> HIDE DEF C
  <2> QED
    BY <1>1, <1>3, <1>4, <1>9
<1> QED
  BY <1>10

\* The sums of a function over the subsets of a set, one built on another.
SumsBy(p, f, S) ==
    \A s \in SUBSET S :
      p[s] = IF s = {} THEN 0 ELSE f[Pick(s)] + p[s \ {Pick(s)}]

LEMMA SumsDefined ==
    ASSUME NEW S, IsFiniteSet(S), NEW f \in [S -> Int]
    PROVE  \E p \in [SUBSET S -> Int] : SumsBy(p, f, S)
<1> DEFINE Grown(p) == [s \in SUBSET S |->
                          IF s = {} THEN 0 ELSE f[Pick(s)] + p[s \ {Pick(s)}]]
           Upto(p, k) == \A s \in SUBSET S : Cardinality(s) <= k => p[s] = Grown(p)[s]
           X == {k \in 0 .. Cardinality(S) : \E p \in [SUBSET S -> Int] : Upto(p, k)}
<1>1. \A s \in SUBSET S : /\ IsFiniteSet(s) /\ Cardinality(s) \in 0 .. Cardinality(S)
                          /\ Cardinality(s) = 0 => s = {}
  BY FS_Subset, FS_CardinalityType, FS_EmptySet
<1>2. Cardinality(S) \in Nat
  BY FS_CardinalityType
<1>3. \A s \in SUBSET S : s # {} => Pick(s) \in s /\ s \ {Pick(s)} \in SUBSET S
  BY DEF Pick
<1>4. ASSUME NEW p \in [SUBSET S -> Int] PROVE Grown(p) \in [SUBSET S -> Int]
  BY <1>3
<1>5. 0 \in X
  <2> DEFINE p == [s \in SUBSET S |-> 0]
  <2>1. p \in [SUBSET S -> Int]
    OBVIOUS
  <2>2. Upto(p, 0)
    BY <1>1
  <2> HIDE DEF p, Upto
  <2> QED
    BY <1>2, <2>1, <2>2
<1>6. ASSUME NEW k \in 0 .. Cardinality(S), k < Cardinality(S), k \in X
      PROVE  k + 1 \in X
  <2>1. PICK p \in [SUBSET S -> Int] : Upto(p, k)
    BY <1>6
  <2> DEFINE g == Grown(p)
  <2>2. g \in [SUBSET S -> Int]
    BY <1>4
  <2>3. ASSUME NEW s \in SUBSET S, Cardinality(s) <= k + 1 PROVE g[s] = Grown(g)[s]
    <3>1. CASE s = {}
      BY <3>1
    <3>2. CASE s # {}
      <4> DEFINE t == s \ {Pick(s)}
      <4>1. t \in SUBSET S
        BY <1>3, <3>2
      <4>2. Cardinality(t) = Cardinality(s) - 1
        BY <1>1, <1>3, <3>2, FS_RemoveElement
      <4>3. Cardinality(t) <= k
        BY <1>1, <1>6, <2>3, <4>2
      <4> HIDE DEF t
      <4>4. p[t] = g[t]
        BY <2>1, <4>1, <4>3
      <4> HIDE DEF g
      <4>5. Grown(g)[s] = f[Pick(s)] + g[t]
        BY <3>2 DEF t
      <4>6. g[s] = f[Pick(s)] + p[t]
        BY <3>2 DEF g, t
      <4> QED
        BY <4>4, <4>5, <4>6
    <3> QED
      BY <3>1, <3>2
  <2> HIDE DEF g, Grown
  <2>4. Upto(g, k + 1)
    BY <2>3
  <2> HIDE DEF Upto
  <2>5. k + 1 \in 0 .. Cardinality(S)
    BY <1>2, <1>6
  <2> QED
    BY <2>2, <2>4, <2>5
<1>7. 0 .. Cardinality(S) \subseteq X
  <2> HIDE DEF X
  <2> QED
    BY <1>2, <1>5, <1>6, UpTo
<1>8. PICK p \in [SUBSET S -> Int] : Upto(p, Cardinality(S))
  <2>1. Cardinality(S) \in X
    <3> HIDE DEF X
    <3> QED
      BY <1>2, <1>7
  <2> HIDE DEF Upto
  <2> QED
    BY <2>1
<1>9. SumsBy(p, f, S)
  <2> SUFFICES ASSUME NEW s \in SUBSET S
               PROVE  p[s] = IF s = {} THEN 0 ELSE f[Pick(s)] + p[s \ {Pick(s)}]
    BY DEF SumsBy
  <2>1. Cardinality(s) <= Cardinality(S)
    BY <1>1, <1>2
  <2>2. p[s] = Grown(p)[s]
    <3> HIDE DEF Grown
    <3> QED
      BY <1>8, <2>1
  <2> QED
    BY <2>2
<1> QED
  BY <1>9

LEMMA SumOverSet ==
    ASSUME NEW S, IsFiniteSet(S), NEW f \in [S -> Int]
    PROVE  \E p \in [SUBSET S -> Int] : SumsBy(p, f, S) /\ SumFunction(f) = p[S]
<1> DEFINE Body(p) == [s \in SUBSET S |->
                         IF s = {} THEN 0 ELSE f[Pick(s)] + p[s \ {Pick(s)}]]
           iter == CHOOSE p : p = Body(p)
<1>1. DOMAIN f = S
  OBVIOUS
<1>2. SumFunction(f) = iter[S]
  BY <1>1 DEF SumFunction, SumFunctionOnSet, FoldFunctionOnSet, MapThenFoldSet, Pick
<1>3. PICK p \in [SUBSET S -> Int] : SumsBy(p, f, S)
  BY SumsDefined
<1>4. p = Body(p)
  BY <1>3 DEF SumsBy
<1>5. iter = Body(iter)
  <2> HIDE DEF Body
  <2> QED
    BY <1>4
<1> HIDE DEF iter
<1>6. SumsBy(iter, f, S)
  BY <1>5 DEF SumsBy
<1>7. \A s \in SUBSET S : iter[s] \in Int
  <2> DEFINE X == {s \in SUBSET S : iter[s] \in Int}
  <2>1. {} \in X
    <3>1. {} \in SUBSET S
      OBVIOUS
    <3>2. iter[{}] = 0
      BY <1>6, <3>1 DEF SumsBy
    <3> QED
      BY <3>1, <3>2
  <2>2. ASSUME NEW s \in SUBSET S, s # {}, s \ {Pick(s)} \in X PROVE s \in X
    <3>1. Pick(s) \in S
      BY <2>2 DEF Pick
    <3>2. iter[s] = f[Pick(s)] + iter[s \ {Pick(s)}]
      BY <1>6, <2>2 DEF SumsBy
    <3> QED
      BY <2>2, <3>1, <3>2
  <2> HIDE DEF X
  <2>3. SUBSET S \subseteq X
    BY <2>1, <2>2, SubsetsInTurn
  <2> QED
    BY <2>3 DEF X
<1>8. iter \in [SUBSET S -> Int]
  BY <1>5, <1>7
<1> QED
  BY <1>2, <1>6, <1>8

LEMMA SumFunctionZeros ==
    ASSUME NEW S, IsFiniteSet(S)
    PROVE  SumFunction([x \in S |-> 0]) = 0
<1> DEFINE f == [x \in S |-> 0]
<1>1. f \in [S -> Int] /\ \A x \in S : f[x] = 0
  OBVIOUS
<1> HIDE DEF f
<1>2. PICK p \in [SUBSET S -> Int] : SumsBy(p, f, S) /\ SumFunction(f) = p[S]
  BY <1>1, SumOverSet
<1> DEFINE X == {s \in SUBSET S : p[s] = 0}
<1>3. {} \in X
  BY <1>2 DEF SumsBy
<1>4. ASSUME NEW s \in SUBSET S, s # {}, s \ {Pick(s)} \in X PROVE s \in X
  <2>1. Pick(s) \in S
    BY <1>4 DEF Pick
  <2> QED
    BY <1>1, <1>2, <1>4, <2>1 DEF SumsBy
<1> HIDE DEF X
<1>5. SUBSET S \subseteq X
  BY <1>3, <1>4, SubsetsInTurn
<1> QED
  BY <1>2, <1>5 DEF X, f

\* One value changed.
LEMMA SumFunctionUpdate ==
    ASSUME NEW S, IsFiniteSet(S), NEW f \in [S -> Int], NEW g \in [S -> Int],
           NEW b \in S, \A x \in S \ {b} : g[x] = f[x]
    PROVE  SumFunction(g) = SumFunction(f) + (g[b] - f[b])
<1>1. PICK p \in [SUBSET S -> Int] : SumsBy(p, f, S) /\ SumFunction(f) = p[S]
  BY SumOverSet
<1>2. PICK q \in [SUBSET S -> Int] : SumsBy(q, g, S) /\ SumFunction(g) = q[S]
  BY SumOverSet
<1> DEFINE X == {s \in SUBSET S : q[s] = p[s] + (IF b \in s THEN g[b] - f[b] ELSE 0)}
<1>3. {} \in X
  <2>1. {} \in SUBSET S
    OBVIOUS
  <2>2. p[{}] = 0 /\ q[{}] = 0
    BY <1>1, <1>2, <2>1 DEF SumsBy
  <2> QED
    BY <2>1, <2>2
<1>4. ASSUME NEW s \in SUBSET S, s # {}, s \ {Pick(s)} \in X PROVE s \in X
  <2> DEFINE t == s \ {Pick(s)}
  <2>1. Pick(s) \in S /\ t \in SUBSET S /\ Pick(s) \in s
    BY <1>4 DEF Pick
  <2>2. p[s] = f[Pick(s)] + p[t] /\ q[s] = g[Pick(s)] + q[t]
    BY <1>1, <1>2, <1>4 DEF SumsBy
  <2>3. q[t] = p[t] + (IF b \in t THEN g[b] - f[b] ELSE 0)
    BY <1>4
  <2>4. f[Pick(s)] \in Int /\ g[Pick(s)] \in Int /\ f[b] \in Int /\ g[b] \in Int
        /\ p[t] \in Int
    BY <2>1
  <2>5. b \in s <=> b \in t \/ b = Pick(s)
    BY <2>1
  <2>6. b \in t => b # Pick(s)
    OBVIOUS
  <2> HIDE DEF t
  <2>7. q[s] = p[s] + (IF b \in s THEN g[b] - f[b] ELSE 0)
    <3>1. CASE b = Pick(s)
      BY <2>2, <2>3, <2>4, <2>5, <2>6, <3>1
    <3>2. CASE b # Pick(s)
      <4>1. g[Pick(s)] = f[Pick(s)]
        BY <2>1, <3>2
      <4> QED
        BY <2>2, <2>3, <2>4, <2>5, <3>2, <4>1
    <3> QED
      BY <3>1, <3>2
  <2> QED
    BY <2>7
<1> HIDE DEF X
<1>5. SUBSET S \subseteq X
  BY <1>3, <1>4, SubsetsInTurn
<1>6. S \in X
  BY <1>5
<1> QED
  BY <1>1, <1>2, <1>6 DEF X

-----------------------------------------------------------------------------
(***************************************************************************)
(* The order in which the leftover is handed out.                          *)
(***************************************************************************)
\* The place of a part when the leftover is handed out: no two have the same.
LEMMA RankBound ==
    ASSUME NEW n \in Nat, NEW rem \in [1 .. n -> Int], NEW j \in 1 .. n
    PROVE  /\ IsFiniteSet(Precede(rem, j))
           /\ Cardinality(Precede(rem, j)) \in 0 .. n - 1
<1>1. IsFiniteSet(1 .. n) /\ Cardinality(1 .. n) = n
  BY FS_Interval
<1>2. /\ IsFiniteSet((1 .. n) \ {j})
      /\ Cardinality((1 .. n) \ {j}) = n - 1
  BY <1>1, FS_RemoveElement
<1>3. Precede(rem, j) \subseteq (1 .. n) \ {j}
  BY DEF Precede
<1>4. /\ IsFiniteSet(Precede(rem, j))
      /\ Cardinality(Precede(rem, j)) <= n - 1
  BY <1>2, <1>3, FS_Subset
<1> QED
  BY <1>4, FS_CardinalityType

LEMMA RankLess ==
    ASSUME NEW n \in Nat, NEW rem \in [1 .. n -> Int], NEW j \in 1 .. n,
           NEW k \in Precede(rem, j)
    PROVE  Cardinality(Precede(rem, k)) < Cardinality(Precede(rem, j))
<1>1. k \in 1 .. n
  BY DEF Precede
<1>2. Precede(rem, k) \subseteq Precede(rem, j)
  BY <1>1 DEF Precede
<1>3. k \notin Precede(rem, k)
  BY <1>1 DEF Precede
<1>4. IsFiniteSet(Precede(rem, j)) /\ Cardinality(Precede(rem, j)) \in Nat
  BY RankBound
<1>5. /\ Cardinality(Precede(rem, k)) <= Cardinality(Precede(rem, j))
      /\ Cardinality(Precede(rem, k)) # Cardinality(Precede(rem, j))
  BY <1>2, <1>3, <1>4, FS_Subset
<1>6. Cardinality(Precede(rem, k)) \in Nat
  BY <1>1, RankBound
<1> QED
  BY <1>4, <1>5, <1>6

LEMMA RankApart ==
    ASSUME NEW n \in Nat, NEW rem \in [1 .. n -> Int], NEW j \in 1 .. n, NEW k \in 1 .. n,
           Cardinality(Precede(rem, j)) = Cardinality(Precede(rem, k))
    PROVE  j = k
<1> SUFFICES ASSUME j # k PROVE FALSE
  OBVIOUS
<1>1. j \in Precede(rem, k) \/ k \in Precede(rem, j)
  BY DEF Precede
<1>2. Cardinality(Precede(rem, j)) \in Int
  BY RankBound
<1> QED
  BY <1>1, <1>2, RankLess

LEMMA RankTaken ==
    ASSUME NEW n \in Nat, NEW rem \in [1 .. n -> Int], NEW r \in 0 .. n - 1
    PROVE  \E j \in 1 .. n : Cardinality(Precede(rem, j)) = r
<1> DEFINE f == [j \in 1 .. n |-> Cardinality(Precede(rem, j))]
<1>1. f \in [1 .. n -> 0 .. n - 1]
  BY RankBound
<1>2. \A j, k \in 1 .. n : f[j] = f[k] => j = k
  BY RankApart
<1> HIDE DEF f
<1>3. f \in Injection(1 .. n, 0 .. n - 1)
  BY <1>1, <1>2 DEF Injection, IsInjective
<1>4. IsFiniteSet(0 .. n - 1) /\ Cardinality(0 .. n - 1) = n
  BY FS_Interval
<1>5. Cardinality(1 .. n) = n
  BY FS_Interval
<1>6. f \in Surjection(1 .. n, 0 .. n - 1)
  BY <1>3, <1>4, <1>5, FS_Injection
<1>7. \E j \in 1 .. n : f[j] = r
  BY <1>6 DEF Surjection
<1> QED
  BY <1>7 DEF f

-----------------------------------------------------------------------------
(***************************************************************************)
(* How much is left over.                                                  *)
(***************************************************************************)
LEMMA Squeezed ==
    ASSUME NEW left \in Int, NEW d \in Nat, d > 0, NEW c \in Nat,
           0 <= Times(d, left), Times(d, left) <= Times(d - 1, c)
    PROVE  0 <= left /\ left <= c /\ (c > 0 => left < c)
<1>1. 0 <= left
  <2> SUFFICES ASSUME left <= -1 PROVE FALSE
    OBVIOUS
  <2>1. d * left <= d * (-1)
    OBVIOUS
  <2> QED
    BY <2>1 DEF Times
<1>2. Times(d - 1, c) = d * c - c
  BY DEF Times
<1>3. ASSUME left >= c PROVE c = 0 /\ left = 0
  <2>1. d * left >= d * c
    BY <1>3
  <2>2. d * c \in Int /\ d * left \in Int
    OBVIOUS
  <2>3. c = 0
    BY <1>2, <2>1, <2>2 DEF Times
  <2>4. d * left <= 0
    BY <2>3 DEF Times
  <2>5. left > 0 => d * left >= d * 1
    OBVIOUS
  <2> QED
    BY <1>1, <2>3, <2>4, <2>5
<1> QED
  BY <1>1, <1>3

LEMMA Subtract ==
    ASSUME NEW m \in Nat, NEW a \in Nat, NEW d \in Nat, NEW r \in Nat,
           Times(m, d) = Times(d, a) + r
    PROVE  m - a \in Int /\ Times(d, m - a) = r
  BY DEF Times

\* The parts with a remainder.
Live(n, r) == {j \in 1 .. n : r[j] > 0}

LEMMA LiveCount ==
    ASSUME NEW n \in Nat, NEW r \in [1 .. n -> Nat]
    PROVE  Cardinality(Live(n, r)) \in 0 .. n
<1> DEFINE live == Live(n, r)
<1>1. IsFiniteSet(1 .. n) /\ Cardinality(1 .. n) = n
  BY FS_Interval
<1>2. live \in SUBSET (1 .. n)
  BY DEF Live
<1>3. IsFiniteSet(live) /\ Cardinality(live) <= n
  BY <1>1, <1>2, FS_Subset
<1>4. Cardinality(live) \in Nat
  BY <1>3, FS_CardinalityType
<1> QED
  BY <1>3, <1>4

\* By weight, m falls to each part as a floor and a remainder of the sum.
Divides(n, m, w, f, r) ==
    /\ n \in Nat /\ n > 0 /\ m \in Nat
    /\ w \in [1 .. n -> Nat] /\ SumOf(w) \in Nat /\ SumOf(w) > 0
    /\ f \in [1 .. n -> Nat] /\ r \in [1 .. n -> 0 .. SumOf(w) - 1]
    /\ \A j \in 1 .. n : Scaled(m, w)[j] = Scaled(SumOf(w), f)[j] + r[j]

LEMMA DivisionSummed ==
    ASSUME NEW n, NEW m, NEW w, NEW f, NEW r, Divides(n, m, w, f, r)
    PROVE  Times(m, SumOf(w)) = Times(SumOf(w), SumOf(f)) + SumOf(r)
<1> DEFINE d == SumOf(w)
           s == Scaled(m, w)
           t == Scaled(d, f)
<1>1. n \in Nat /\ m \in Int /\ d \in Int
  BY DEF Divides
<1>2. w \in [1 .. n -> Int] /\ f \in [1 .. n -> Int] /\ r \in [1 .. n -> Int]
  BY DEF Divides
<1> HIDE DEF d
<1>3. s \in [1 .. n -> Int] /\ t \in [1 .. n -> Int]
  BY <1>1, <1>2 DEF Scaled, Times
<1>4. \A j \in 1 .. n : s[j] = t[j] + r[j]
  BY DEF Divides, d
<1>5. SumOf(s) = Times(m, SumOf(w)) /\ SumOf(t) = Times(d, SumOf(f))
  BY <1>1, <1>2, SumOfScaled
<1> HIDE DEF s, t
<1>6. SumOf(s) = SumOf(t) + SumOf(r)
  BY <1>1, <1>2, <1>3, <1>4, SumOfPlus
<1> QED
  BY <1>5, <1>6 DEF d

LEMMA RemaindersBound ==
    ASSUME NEW n, NEW m, NEW w, NEW f, NEW r, Divides(n, m, w, f, r)
    PROVE  /\ m - SumOf(f) \in 0 .. n - 1
           /\ m - SumOf(f) <= Cardinality(Live(n, r))
<1> DEFINE c == Cardinality(Live(n, r))
           d == SumOf(w)
<1>1. n \in Nat /\ n > 0 /\ m \in Nat /\ d \in Nat /\ d > 0 /\ d - 1 \in Nat
  BY DEF Divides
<1>2. r \in [1 .. n -> 0 .. d - 1] /\ f \in [1 .. n -> Nat]
  BY DEF Divides
<1>3. Times(m, d) = Times(d, SumOf(f)) + SumOf(r)
  BY DivisionSummed
<1> HIDE DEF d
<1>4. r \in [1 .. n -> Nat]
  BY <1>1, <1>2
<1>5. c \in 0 .. n
  BY <1>1, <1>4, LiveCount
<1>6. SumOf(f) \in Nat /\ SumOf(r) \in Nat
  BY <1>1, <1>2, <1>4, SumOfNat
<1>7. SumOf(r) <= Times(d - 1, c)
  BY <1>1, <1>2, SumOfCounted DEF Live
<1>8. m - SumOf(f) \in Int /\ Times(d, m - SumOf(f)) = SumOf(r)
  BY <1>1, <1>3, <1>6, Subtract
<1> HIDE DEF c
<1>9. /\ 0 <= m - SumOf(f) /\ m - SumOf(f) <= c
      /\ c > 0 => m - SumOf(f) < c
  BY <1>1, <1>5, <1>6, <1>7, <1>8, Squeezed
<1>10. m - SumOf(f) < n
  BY <1>1, <1>5, <1>8, <1>9
<1>11. m - SumOf(f) \in 0 .. n - 1
  BY <1>1, <1>8, <1>9, <1>10
<1> QED
  BY <1>9, <1>11 DEF c

\* allocate.go: the leftover is "an integer in [0, n)", and "the count of parts
\* with a non-zero remainder is always at least the leftover".
LEMMA LeftoverBound ==
    ASSUME NEW n \in Nat, n > 0, NEW m \in Nat, NEW w \in [1 .. n -> Nat], SumOf(w) > 0
    PROVE  /\ FloorShares(m, w) \in [1 .. n -> Nat] /\ Remainders(m, w) \in [1 .. n -> Nat]
           /\ SumOf(FloorShares(m, w)) \in Nat
           /\ m - SumOf(FloorShares(m, w)) \in 0 .. n - 1
           /\ m - SumOf(FloorShares(m, w)) <= Cardinality(Live(n, Remainders(m, w)))
<1> DEFINE d == SumOf(w)
           f == FloorShares(m, w)
           r == Remainders(m, w)
<1>1. d \in Nat /\ d > 0
  BY SumOfNat
<1>2. f = [j \in 1 .. n |-> (m * w[j]) \div d] /\ r = [j \in 1 .. n |-> (m * w[j]) % d]
  BY DEF FloorShares, Remainders
<1>3. \A j \in 1 .. n : m * w[j] \in Nat
  OBVIOUS
<1>4. w \in [1 .. n -> Int] /\ SumOf(w) = d /\ n \in Nat
  OBVIOUS
<1> HIDE DEF d, f, r
<1>5. \A z \in Nat : z \div d \in Nat /\ z % d \in 0 .. d - 1 /\ z = d * (z \div d) + (z % d)
  BY <1>1
<1>6. f \in [1 .. n -> Nat] /\ r \in [1 .. n -> 0 .. d - 1]
  BY <1>2, <1>3, <1>5
<1>7. \A j \in 1 .. n : Scaled(m, w)[j] = Scaled(d, f)[j] + r[j]
  BY <1>2, <1>3, <1>5, <1>6 DEF Scaled, Times
<1>8. Divides(n, m, w, f, r)
  BY <1>1, <1>4, <1>6, <1>7 DEF Divides
<1>9. /\ m - SumOf(f) \in 0 .. n - 1
      /\ m - SumOf(f) <= Cardinality(Live(n, r))
  BY <1>8, RemaindersBound
<1>10. r \in [1 .. n -> Nat]
  BY <1>1, <1>6
<1>11. SumOf(f) \in Nat
  BY <1>4, <1>6, SumOfNat
<1> QED
  BY <1>6, <1>9, <1>10, <1>11 DEF f, r

\* The first k parts in order have a unit more.
Handed(n, f, place, k) == [j \in 1 .. n |-> IF place[j] < k THEN f[j] + 1 ELSE f[j]]

LEMMA HandedSum ==
    ASSUME NEW n \in Nat, NEW f \in [1 .. n -> Int], NEW place \in [1 .. n -> Int],
           \A j, i \in 1 .. n : place[j] = place[i] => j = i,
           \A r \in 0 .. n - 1 : \E j \in 1 .. n : place[j] = r,
           \A j \in 1 .. n : place[j] >= 0,
           NEW k \in 0 .. n
    PROVE  SumOf(Handed(n, f, place, k)) = SumOf(f) + k
<1>1. \A s \in [1 .. n -> Int] : \A x \in 1 .. n : \A v \in Int :
          SumOf([s EXCEPT ![x] = v]) = SumOf(s) + (v - s[x])
  BY SumOfUpdate
<1> DEFINE h(i) == Handed(n, f, place, i)
           X == {i \in 0 .. n : SumOf(h(i)) = SumOf(f) + i}
<1>2. SumOf(f) \in Int
  BY SumOfInt
<1>3. 0 \in X
  <2>1. h(0) = f
    BY DEF Handed
  <2> HIDE DEF h
  <2> QED
    BY <1>2, <2>1
<1>4. ASSUME NEW i \in 0 .. n, i < n, i \in X PROVE i + 1 \in X
  <2>1. PICK x \in 1 .. n : place[x] = i
    <3>1. i \in 0 .. n - 1
      BY <1>4
    <3> QED
      BY <3>1
  <2>2. h(i) \in [1 .. n -> Int] /\ h(i)[x] = f[x] /\ f[x] + 1 \in Int /\ f[x] \in Int
    BY <2>1 DEF Handed
  <2>3. h(i + 1) = [h(i) EXCEPT ![x] = f[x] + 1]
    <3>1. ASSUME NEW j \in 1 .. n
          PROVE  h(i + 1)[j] = IF j = x THEN f[x] + 1 ELSE h(i)[j]
      <4>1. place[j] \in Int /\ (place[j] = i <=> j = x)
        BY <2>1
      <4>2. place[j] < i + 1 <=> place[j] < i \/ j = x
        BY <4>1
      <4> QED
        BY <4>2 DEF Handed
    <3>2. h(i + 1) = [j \in 1 .. n |-> h(i + 1)[j]] /\ h(i) = [j \in 1 .. n |-> h(i)[j]]
      BY DEF Handed
    <3> HIDE DEF h
    <3> QED
      BY <3>1, <3>2
  <2> HIDE DEF h
  <2>4. SumOf(h(i + 1)) = SumOf(h(i)) + ((f[x] + 1) - h(i)[x])
    <3> DEFINE s == h(i)
               v == f[x] + 1
    <3>1. s \in [1 .. n -> Int] /\ v \in Int /\ h(i + 1) = [s EXCEPT ![x] = v]
      BY <2>2, <2>3
    <3> HIDE DEF s, v, X
    <3>2. SumOf([s EXCEPT ![x] = v]) = SumOf(s) + (v - s[x])
      BY <1>1, <2>1, <3>1
    <3> QED
      BY <3>1, <3>2 DEF s, v
  <2>5. SumOf(h(i)) = SumOf(f) + i
    BY <1>4
  <2>6. SumOf(h(i + 1)) = SumOf(f) + (i + 1)
    BY <1>2, <2>2, <2>4, <2>5
  <2>7. i + 1 \in 0 .. n
    BY <1>4
  <2> QED
    BY <2>6, <2>7
<1> HIDE DEF X
<1>5. 0 .. n \subseteq X
  BY <1>3, <1>4, UpTo
<1>6. k \in X
  BY <1>5
<1> QED
  BY <1>6 DEF X

\* The method shares out an amount without losing a unit, and no part is
\* negative.
LEMMA ApportionOf ==
    ASSUME NEW n \in Nat, n > 0, NEW total \in Nat, NEW weights \in [1 .. n -> Nat]
    PROVE  /\ Apportion(total, weights) \in [1 .. n -> Nat]
           /\ SumOf(Apportion(total, weights)) = total
<1> DEFINE w == Effective(weights)
           f == FloorShares(total, w)
           r == Remainders(total, w)
           left == total - SumOf(f)
           place == [j \in 1 .. n |-> Cardinality(Precede(r, j))]
<1>1. w \in [1 .. n -> Nat] /\ SumOf(w) > 0
  <2>1. CASE SumOf(weights) = 0
    <3>1. w = [j \in 1 .. n |-> 1]
      BY <2>1 DEF Effective
    <3> HIDE DEF w
    <3> QED
      BY <3>1, SumOfOnes
  <2>2. CASE SumOf(weights) # 0
    <3>1. w = weights
      BY <2>2 DEF Effective
    <3> HIDE DEF w
    <3>2. SumOf(weights) \in Nat
      BY SumOfNat
    <3> QED
      BY <2>2, <3>1, <3>2
  <2> QED
    BY <2>1, <2>2
<1> HIDE DEF w
<1>2. /\ f \in [1 .. n -> Nat] /\ r \in [1 .. n -> Nat] /\ SumOf(f) \in Nat
      /\ left \in 0 .. n - 1
  BY <1>1, LeftoverBound
<1>3. Abs(total) = total /\ ~(total < 0)
  BY DEF Abs
<1>4. Apportion(total, weights)
        = [j \in 1 .. n |-> IF Cardinality(Precede(r, j)) < left THEN f[j] + 1 ELSE f[j]]
  BY <1>1, <1>3 DEF Apportion, w
<1> HIDE DEF f, r
<1>5. Apportion(total, weights) = Handed(n, f, place, left)
  BY <1>4 DEF Handed
<1>6. r \in [1 .. n -> Int] /\ f \in [1 .. n -> Int]
  BY <1>2
<1>7. /\ place \in [1 .. n -> Int]
      /\ \A j \in 1 .. n : place[j] >= 0
      /\ \A j, i \in 1 .. n : place[j] = place[i] => j = i
      /\ \A k \in 0 .. n - 1 : \E j \in 1 .. n : place[j] = k
  <2>1. \A j \in 1 .. n : Cardinality(Precede(r, j)) \in 0 .. n - 1
    BY <1>6, RankBound
  <2>2. ASSUME NEW j \in 1 .. n, NEW i \in 1 .. n, place[j] = place[i] PROVE j = i
    BY <1>6, <2>2, RankApart
  <2>3. ASSUME NEW k \in 0 .. n - 1 PROVE \E j \in 1 .. n : place[j] = k
    BY <1>6, RankTaken
  <2> QED
    BY <2>1, <2>2, <2>3
<1>8. left \in 0 .. n
  BY <1>2
<1> HIDE DEF place
<1>9. SumOf(Handed(n, f, place, left)) = SumOf(f) + left
  BY <1>6, <1>7, <1>8, HandedSum
<1>10. Handed(n, f, place, left) \in [1 .. n -> Nat]
  BY <1>2 DEF Handed
<1>11. SumOf(f) + left = total
  BY <1>2
<1> QED
  BY <1>5, <1>9, <1>10, <1>11

-----------------------------------------------------------------------------
(***************************************************************************)
(* Invoices: every step of compose.go that passes leaves an invoice as     *)
(* sound as the one it was given.                                          *)
(***************************************************************************)
Sound(inv) == /\ inv \in InvoiceType
              /\ Reconciled(inv)
              /\ NoOtherDeficit(inv)
              /\ inv.posted["amount"] <= 0

LEMMA EmptyIsSound ==
    ASSUME NEW r \in Modes \cup {"unset"}
    PROVE  Sound(EmptyInvoice(r))
<1>1. EmptyInvoice(r) \in InvoiceType
  BY MaxIntAssumption DEF EmptyInvoice, InvoiceType, Int64, MinInt
<1>2. Reconciled(EmptyInvoice(r)) /\ NoOtherDeficit(EmptyInvoice(r))
  BY DEF EmptyInvoice, Reconciled, NoOtherDeficit, Kinds
<1>3. EmptyInvoice(r).posted["amount"] <= 0
  BY DEF EmptyInvoice, Kinds
<1> QED
  BY <1>1, <1>2, <1>3 DEF Sound

\* addLine, field by field.
LEMMA AddLineFields ==
    ASSUME NEW inv \in InvoiceType, NEW kind \in Kinds, NEW amount \in Int,
           LineFits(inv, amount)
    PROVE  /\ AddLine(inv, kind, amount) \in InvoiceType
           /\ AddLine(inv, kind, amount).rounding = inv.rounding
           /\ AddLine(inv, kind, amount).total = inv.total + amount
           /\ AddLine(inv, kind, amount).subtotal = inv.subtotal
           /\ AddLine(inv, kind, amount).draws = inv.draws
           /\ AddLine(inv, kind, amount).posted[kind] = inv.posted[kind] + amount
           /\ \A k \in Kinds \ {kind} :
                AddLine(inv, kind, amount).posted[k] = inv.posted[k]
<1>1. inv.total + amount \in Int64
  BY DEF LineFits, IsInt64, Int64, MinInt, InvoiceType
<1>2. inv.posted \in [Kinds -> Int]
  BY DEF InvoiceType
<1> DEFINE posted == [inv.posted EXCEPT ![kind] = inv.posted[kind] + amount]
           new == [inv EXCEPT !.total = inv.total + amount, !.posted = posted]
<1>3. /\ posted \in [Kinds -> Int]
      /\ posted[kind] = inv.posted[kind] + amount
      /\ \A k \in Kinds \ {kind} : posted[k] = inv.posted[k]
  BY <1>2
<1>4. AddLine(inv, kind, amount) = new
  BY DEF AddLine, InvoiceType
<1> HIDE DEF posted
<1>5. /\ new \in InvoiceType
      /\ new.rounding = inv.rounding
      /\ new.total = inv.total + amount
      /\ new.subtotal = inv.subtotal
      /\ new.draws = inv.draws
      /\ new.rounding = inv.rounding
      /\ new.posted = posted
  BY <1>1, <1>3 DEF InvoiceType
<1> HIDE DEF new
<1> QED
  BY <1>3, <1>4, <1>5

\* A line of one kind keeps the sums, whatever its amount.
\* A line of another kind shows no credit.
LEMMA AddLineDrawsNothing ==
    ASSUME NEW inv \in InvoiceType, NEW kind \in Kinds \ {"draw"}, NEW amount
    PROVE  AddLine(inv, kind, amount).posted["draw"] = inv.posted["draw"]
<1>1. "draw" \in Kinds /\ inv.posted \in [Kinds -> Int]
  BY DEF InvoiceType, Kinds
<1>2. AddLine(inv, kind, amount).posted = [inv.posted EXCEPT ![kind] = @ + amount]
  BY DEF AddLine, InvoiceType
<1> QED
  BY <1>1, <1>2

\* Steps that draw on no balance show no credit.
LEMMA NoCreditShown ==
    ASSUME NEW inv \in InvoiceType
    PROVE  /\ \A r : ChargedApplied(inv, r).posted["draw"] = inv.posted["draw"]
           /\ \A p : PercentOffApplied(inv, p).posted["draw"] = inv.posted["draw"]
           /\ \A a : AmountOffApplied(inv, a).posted["draw"] = inv.posted["draw"]
           /\ \A f : MinimumApplied(inv, f).posted["draw"] = inv.posted["draw"]
<1>1. \A k \in {"charge", "percent", "amount", "minimum"} : \A amount :
        AddLine(inv, k, amount).posted["draw"] = inv.posted["draw"]
  BY AddLineDrawsNothing DEF Kinds
<1>2. ASSUME NEW r PROVE ChargedApplied(inv, r).posted["draw"] = inv.posted["draw"]
  <2>1. ChargedApplied(inv, r).posted = AddLine(inv, "charge", r.total).posted
    BY DEF ChargedApplied, AddLine, InvoiceType
  <2> QED
    BY <1>1, <2>1
<1>3. ASSUME NEW p PROVE PercentOffApplied(inv, p).posted["draw"] = inv.posted["draw"]
  BY <1>1 DEF PercentOffApplied
<1>4. ASSUME NEW a PROVE AmountOffApplied(inv, a).posted["draw"] = inv.posted["draw"]
  BY <1>1 DEF AmountOffApplied
<1>5. ASSUME NEW f PROVE MinimumApplied(inv, f).posted["draw"] = inv.posted["draw"]
  BY <1>1 DEF MinimumApplied
<1> QED
  BY <1>2, <1>3, <1>4, <1>5

LEMMA AddLineReconciles ==
    ASSUME NEW inv \in InvoiceType, NEW kind \in Kinds \ {"charge"},
           NEW amount \in Int, LineFits(inv, amount), Reconciled(inv)
    PROVE  Reconciled(AddLine(inv, kind, amount))
<1> DEFINE new == AddLine(inv, kind, amount)
<1>1. \A k \in Kinds : inv.posted[k] \in Int
  BY DEF InvoiceType
<1>2. inv.total \in Int
  BY DEF InvoiceType, Int64, MinInt
<1>3. /\ new.total = inv.total + amount
      /\ new.subtotal = inv.subtotal
      /\ new.posted[kind] = inv.posted[kind] + amount
      /\ \A k \in Kinds \ {kind} : new.posted[k] = inv.posted[k]
  BY AddLineFields
<1> HIDE DEF new
<1>4. new.subtotal = new.posted["charge"]
  BY <1>3 DEF Reconciled, Kinds
<1>5. new.total = new.posted["charge"] + new.posted["percent"]
                   + new.posted["amount"] + new.posted["minimum"]
                   + new.posted["draw"]
  <2>1. CASE kind = "percent"
    BY <1>1, <1>2, <1>3, <2>1 DEF Reconciled, Kinds
  <2>2. CASE kind = "amount"
    BY <1>1, <1>2, <1>3, <2>2 DEF Reconciled, Kinds
  <2>3. CASE kind = "minimum"
    BY <1>1, <1>2, <1>3, <2>3 DEF Reconciled, Kinds
  <2>4. CASE kind = "draw"
    BY <1>1, <1>2, <1>3, <2>4 DEF Reconciled, Kinds
  <2> QED
    BY <2>1, <2>2, <2>3, <2>4 DEF Kinds
<1>6. Reconciled(new)
  BY <1>4, <1>5 DEF Reconciled
<1> QED
  BY <1>6 DEF new

\* Unguarded arithmetic that stays in range is exact.
LEMMA WrapIsExact ==
    ASSUME NEW z \in Int64 PROVE Wrap(z) = z
  BY MaxIntAssumption DEF Wrap, Int64, MinInt

LEMMA ChargedSound ==
    ASSUME NEW inv, Sound(inv), NEW rating, rating.total \in 0 .. MaxInt,
           ChargedPasses(inv, rating)
    PROVE  /\ Sound(ChargedApplied(inv, rating))
           /\ ChargedApplied(inv, rating).draws = inv.draws
           /\ ChargedApplied(inv, rating).rounding = inv.rounding
<1> DEFINE added == AddLine(inv, "charge", rating.total)
<1>1. inv \in InvoiceType /\ rating.total \in 0 .. MaxInt /\ LineFits(inv, rating.total)
  BY DEF Sound, ChargedPasses
<1>2. "charge" \in Kinds
  BY DEF Kinds
<1>3. /\ added \in InvoiceType
      /\ added.total = inv.total + rating.total
      /\ added.subtotal = inv.subtotal
      /\ added.draws = inv.draws
      /\ added.rounding = inv.rounding
      /\ added.posted["charge"] = inv.posted["charge"] + rating.total
      /\ \A k \in Kinds \ {"charge"} : added.posted[k] = inv.posted[k]
  BY <1>1, <1>2, AddLineFields, MaxIntAssumption
<1>4. inv.subtotal + rating.total \in 0 .. MaxInt
  BY <1>1, MaxIntAssumption DEF ChargedPasses, IsInt64, InvoiceType
<1> DEFINE new == [added EXCEPT !.subtotal = @ + rating.total]
<1> HIDE DEF added
<1>5. /\ new \in InvoiceType
      /\ new.total = added.total
      /\ new.posted = added.posted
      /\ new.draws = added.draws
      /\ new.rounding = added.rounding
      /\ new.subtotal = added.subtotal + rating.total
  BY <1>3, <1>4 DEF InvoiceType
<1>6. \A k \in Kinds : inv.posted[k] \in Int
  BY <1>1 DEF InvoiceType
<1>7. inv.total \in Int /\ inv.subtotal \in Int
  BY <1>1, MaxIntAssumption DEF InvoiceType, Int64, MinInt
<1> HIDE DEF new
<1>8. Reconciled(new)
  BY <1>1, <1>3, <1>5, <1>6, <1>7 DEF Reconciled, Kinds, Sound
<1>9. NoOtherDeficit(new) /\ new.posted["amount"] <= 0
  BY <1>1, <1>3, <1>5, <1>6, <1>7 DEF NoOtherDeficit, Kinds, Sound
<1>10. new = ChargedApplied(inv, rating)
  BY DEF new, added, ChargedApplied
<1> QED
  BY <1>3, <1>5, <1>8, <1>9, <1>10 DEF Sound

LEMMA PercentOffSound ==
    ASSUME NEW inv, Sound(inv), inv.rounding \in Modes,
           NEW pct, pct.n \in Int, pct.d \in Nat \ {0},
           PercentOffPasses(inv, pct)
    PROVE  /\ Sound(PercentOffApplied(inv, pct))
           /\ PercentOffApplied(inv, pct).draws = inv.draws
           /\ PercentOffApplied(inv, pct).rounding = inv.rounding
<1>1. CASE inv.total <= 0
  BY <1>1 DEF PercentOffApplied
<1>2. CASE ~(inv.total <= 0)
  <2> DEFINE discount == Discount(inv, pct)
             line == Wrap(-discount)
             new == AddLine(inv, "percent", line)
  <2>1. inv \in InvoiceType /\ inv.total \in Int64
    BY DEF Sound, InvoiceType
  <2>2. inv.total \in Nat /\ inv.total > 0 /\ inv.total <= MaxInt
    BY <1>2, <2>1, MaxIntAssumption DEF Int64, MinInt
  <2>3. pct.n \in Nat /\ pct.n <= pct.d
    BY DEF PercentOffPasses
  <2>4. discount \in Int /\ 0 <= discount /\ discount <= inv.total
    BY <2>2, <2>3, RoundFraction DEF Discount
  <2> HIDE DEF discount
  <2>5. line = -discount
    BY <2>2, <2>4, WrapIsExact, MaxIntAssumption DEF Int64, MinInt
  <2> HIDE DEF line
  <2>6. line \in Int /\ LineFits(inv, line)
    BY <2>2, <2>4, <2>5, MaxIntAssumption DEF LineFits, IsInt64, MinInt
  <2>7. "percent" \in Kinds \ {"charge"}
    BY DEF Kinds
  <2>8. /\ new \in InvoiceType
        /\ Reconciled(new)
        /\ new.total = inv.total + line
        /\ new.draws = inv.draws
        /\ new.rounding = inv.rounding
        /\ new.posted["amount"] = inv.posted["amount"]
    BY <2>1, <2>6, <2>7, AddLineFields, AddLineReconciles DEF Sound, Kinds
  <2>9. inv.posted["amount"] \in Int
    BY <2>1 DEF InvoiceType, Kinds
  <2>10. new = PercentOffApplied(inv, pct)
    BY <1>2 DEF new, line, discount, PercentOffApplied
  <2> HIDE DEF new
  <2>11. NoOtherDeficit(new)
    BY <2>2, <2>4, <2>5, <2>8, <2>9 DEF NoOtherDeficit, Sound
  <2> QED
    BY <2>8, <2>10, <2>11 DEF Sound
<1> QED
  BY <1>1, <1>2

LEMMA AmountOffSound ==
    ASSUME NEW inv, Sound(inv), NEW minor \in Int64,
           AmountOffPasses(inv, minor)
    PROVE  /\ Sound(AmountOffApplied(inv, minor))
           /\ AmountOffApplied(inv, minor).draws = inv.draws
           /\ AmountOffApplied(inv, minor).rounding = inv.rounding
<1> DEFINE line == Wrap(-minor)
           new == AddLine(inv, "amount", line)
<1>1. inv \in InvoiceType /\ inv.total \in Int
  BY MaxIntAssumption DEF Sound, InvoiceType, Int64, MinInt
<1>2. line = -minor /\ minor >= 0
  BY WrapIsExact, MaxIntAssumption DEF AmountOffPasses, Int64, MinInt
<1>3. line \in Int /\ LineFits(inv, line) /\ line <= 0
  BY <1>2, MaxIntAssumption DEF AmountOffPasses, Int64, MinInt
<1> HIDE DEF line
<1>4. "amount" \in Kinds \ {"charge"}
  BY DEF Kinds
<1>5. /\ new \in InvoiceType
      /\ Reconciled(new)
      /\ new.total = inv.total + line
      /\ new.draws = inv.draws
      /\ new.rounding = inv.rounding
      /\ new.posted["amount"] = inv.posted["amount"] + line
  BY <1>1, <1>3, <1>4, AddLineFields, AddLineReconciles DEF Sound
<1>6. inv.posted["amount"] \in Int
  BY <1>1 DEF InvoiceType, Kinds
<1>7. new = AmountOffApplied(inv, minor)
  BY DEF new, line, AmountOffApplied
<1> HIDE DEF new
<1>8. NoOtherDeficit(new) /\ new.posted["amount"] <= 0
  BY <1>1, <1>3, <1>5, <1>6 DEF NoOtherDeficit, Sound
<1> QED
  BY <1>5, <1>7, <1>8 DEF Sound

LEMMA MinimumSound ==
    ASSUME NEW inv, Sound(inv), NEW floor \in Int64,
           MinimumPasses(inv, floor)
    PROVE  /\ Sound(MinimumApplied(inv, floor))
           /\ MinimumApplied(inv, floor).draws = inv.draws
           /\ MinimumApplied(inv, floor).rounding = inv.rounding
<1>1. inv \in InvoiceType /\ inv.total \in Int /\ floor \in Int
  BY MaxIntAssumption DEF Sound, InvoiceType, Int64, MinInt
<1>2. CASE inv.total >= floor
  BY <1>2 DEF MinimumApplied
<1>3. CASE inv.total < floor
  <2> DEFINE line == floor - inv.total
             new == AddLine(inv, "minimum", line)
  <2>1. line \in Int /\ LineFits(inv, line) /\ line > 0
    BY <1>1, <1>3 DEF MinimumPasses
  <2>2. "minimum" \in Kinds \ {"charge"} /\ "amount" \in Kinds \ {"minimum"}
    BY DEF Kinds
  <2> HIDE DEF line
  <2>3. /\ new \in InvoiceType
        /\ Reconciled(new)
        /\ new.total = inv.total + line
        /\ new.draws = inv.draws
        /\ new.rounding = inv.rounding
        /\ new.posted["amount"] = inv.posted["amount"]
    BY <1>1, <2>1, <2>2, AddLineFields, AddLineReconciles DEF Sound
  <2>4. inv.posted["amount"] \in Int
    BY <1>1 DEF InvoiceType, Kinds
  <2>5. new = MinimumApplied(inv, floor)
    BY <1>1, <1>3 DEF new, line, MinimumApplied
  <2> HIDE DEF new
  <2>6. NoOtherDeficit(new)
    BY <1>1, <2>1, <2>3, <2>4 DEF NoOtherDeficit, Sound
  <2> QED
    BY <2>3, <2>5, <2>6 DEF Sound
<1> QED
  BY <1>1, <1>2, <1>3

\* A draw nets what is already recorded, so the record never exceeds the
\* balance the pointer reads.
LEMMA DrawSound ==
    ASSUME NEW inv, Sound(inv), NEW b \in Balances, NEW balance \in Int64,
           inv.draws[b] > 0 => inv.draws[b] <= balance,
           DrawPasses(inv, b, balance)
    PROVE  /\ Sound(DrawApplied(inv, b, balance))
           /\ DrawApplied(inv, b, balance).draws[b] > 0 =>
                DrawApplied(inv, b, balance).draws[b] <= balance
           /\ \A x \in Balances \ {b} :
                DrawApplied(inv, b, balance).draws[x] = inv.draws[x]
           /\ DrawApplied(inv, b, balance).rounding = inv.rounding
           /\ DrawApplied(inv, b, balance).posted["draw"]
                + DrawApplied(inv, b, balance).draws[b]
                = inv.posted["draw"] + inv.draws[b]
<1> DEFINE avail == Available(inv, b, balance)
           draw == DrawAmount(inv, b, balance)
<1>1. /\ inv \in InvoiceType /\ inv.total \in Int64
      /\ inv.draws \in [Balances -> 0 .. MaxInt]
      /\ inv.draws[b] \in 0 .. MaxInt
      /\ balance >= 0
  BY DEF Sound, InvoiceType, DrawPasses
<1>2. avail = balance - inv.draws[b]
  BY <1>1, WrapIsExact, MaxIntAssumption DEF Available, Int64, MinInt
<1> HIDE DEF avail
<1>3. draw \in Int64 /\ draw <= avail /\ draw <= inv.total
  BY <1>1, <1>2, MaxIntAssumption DEF avail, DrawAmount, Int64, MinInt
<1> HIDE DEF draw
<1>4. CASE draw <= 0
  BY <1>1, <1>4 DEF draw, DrawApplied
<1>5. CASE draw > 0
  <2> DEFINE line == Wrap(-draw)
             added == AddLine(inv, "draw", line)
             new == [added EXCEPT !.draws[b] = @ + draw]
  <2>1. line = -draw
    BY <1>3, <1>5, WrapIsExact, MaxIntAssumption DEF Int64, MinInt
  <2>2. line \in Int /\ LineFits(inv, line)
    BY <1>1, <1>3, <1>5, <2>1, MaxIntAssumption
    DEF LineFits, IsInt64, Int64, MinInt
  <2> HIDE DEF line
  <2>3. "draw" \in Kinds \ {"charge"} /\ "amount" \in Kinds \ {"draw"}
    BY DEF Kinds
  <2>4. /\ added \in InvoiceType
        /\ Reconciled(added)
        /\ added.total = inv.total + line
        /\ added.draws = inv.draws
        /\ added.rounding = inv.rounding
        /\ added.posted["amount"] = inv.posted["amount"]
        /\ added.posted["draw"] = inv.posted["draw"] + line
    BY <1>1, <2>2, <2>3, AddLineFields, AddLineReconciles DEF Sound
  <2> HIDE DEF added
  <2>5. inv.draws[b] + draw \in 0 .. MaxInt /\ inv.draws[b] + draw <= balance
    BY <1>1, <1>2, <1>3, <1>5, MaxIntAssumption DEF Int64, MinInt
  <2>6. /\ new \in InvoiceType
        /\ new.total = added.total
        /\ new.subtotal = added.subtotal
        /\ new.rounding = added.rounding
        /\ new.posted = added.posted
        /\ new.draws = [inv.draws EXCEPT ![b] = @ + draw]
    BY <1>1, <2>4, <2>5 DEF InvoiceType
  <2>7. new = DrawApplied(inv, b, balance)
    BY <1>3, <1>5, MaxIntAssumption
    DEF new, added, line, draw, DrawApplied, Int64, MinInt
  <2> HIDE DEF new
  <2>8. inv.posted["amount"] \in Int
    BY <1>1 DEF InvoiceType, Kinds
  <2>9. NoOtherDeficit(new) /\ new.posted["amount"] <= 0
    BY <1>1, <1>3, <1>5, <2>1, <2>4, <2>6, <2>8, MaxIntAssumption
    DEF NoOtherDeficit, Sound, Int64, MinInt
  <2>10. Reconciled(new)
    BY <2>4, <2>6 DEF Reconciled
  <2>11. new.posted["draw"] + new.draws[b] = inv.posted["draw"] + inv.draws[b]
    <3>1. inv.posted["draw"] \in Int /\ inv.draws[b] \in Int
      BY <1>1, MaxIntAssumption DEF InvoiceType, Kinds
    <3>2. new.draws[b] = inv.draws[b] + draw
      BY <1>1, <2>6
    <3> QED
      BY <1>3, <2>1, <2>4, <2>6, <3>1, <3>2, MaxIntAssumption DEF Int64, MinInt
  <2> QED
    BY <1>1, <2>4, <2>5, <2>6, <2>7, <2>9, <2>10, <2>11 DEF Sound
<1> QED
  BY <1>3, <1>4, <1>5, MaxIntAssumption DEF Int64, MinInt

=============================================================================
