-------------------------- MODULE ProrationProofs --------------------------
(***************************************************************************)
(* A change of plan never credits more than the old price, never charges   *)
(* more than the new one and never overflows, whatever the period, the     *)
(* zone and the instant, as long as dates advance.                         *)
(***************************************************************************)
EXTENDS Proration, MoneyProofs

\* What is needed of a plan, whatever the set of plans.
Instants(p) ==
    /\ p.start \in Int /\ p.end \in Int
    /\ p.zone.at \in Int /\ p.zone.before \in Int /\ p.zone.after \in Int

LEMMA PlanFields ==
    ASSUME NEW p \in Plans
    PROVE  Instants(p) /\ p.old \in Int64 /\ p.new \in Int64
  BY PlansAssumption DEF Instants

\* A larger instant is not earlier in days.
LEMMA DivisionMonotone ==
    ASSUME NEW a \in Int, NEW b \in Int, NEW d \in Nat \ {0}, a <= b
    PROVE  a \div d <= b \div d
<1>1. /\ Round("floor", a, d) <= Round("floor", b, d)
  BY RoundMonotone DEF Modes
<1> QED
  BY <1>1 DEF Round

LEMMA CivilDayIsInt ==
    ASSUME NEW p, Instants(p), NEW t \in Int
    PROVE  CivilDay(p.zone, t) \in Int
<1>1. /\ t + p.zone.before \in Int
      /\ t + p.zone.after \in Int
  BY DEF Instants
<1>2. /\ (t + p.zone.before) \div TicksPerDay \in Int
      /\ (t + p.zone.after) \div TicksPerDay \in Int
  BY <1>1, TicksAssumption, FloorDivision
<1> QED
  BY <1>2 DEF CivilDay

\* Where no clock change sets the date back, dates never go back.
LEMMA DatesMonotone ==
    ASSUME NEW p, Instants(p), DatesAdvance(p.zone),
           NEW t \in Int, NEW u \in Int, t <= u
    PROVE  CivilDay(p.zone, t) <= CivilDay(p.zone, u)
<1> DEFINE z == p.zone
           D == TicksPerDay
<1>0. z.at \in Int /\ z.before \in Int /\ z.after \in Int /\ D \in Nat \ {0}
  BY TicksAssumption DEF Instants
<1> HIDE DEF z, D
<1>1. /\ t < z.at => CivilDay(z, t) = (t + z.before) \div D
      /\ ~(t < z.at) => CivilDay(z, t) = (t + z.after) \div D
      /\ u < z.at => CivilDay(z, u) = (u + z.before) \div D
      /\ ~(u < z.at) => CivilDay(z, u) = (u + z.after) \div D
  BY DEF CivilDay, D
<1>2. (z.at - 1 + z.before) \div D <= (z.at + z.after) \div D
  BY DEF DatesAdvance, z, D
<1>3. ASSUME u < z.at PROVE CivilDay(z, t) <= CivilDay(z, u)
  <2>1. /\ t + z.before \in Int /\ u + z.before \in Int
        /\ t + z.before <= u + z.before
    BY <1>0
  <2>2. (t + z.before) \div D <= (u + z.before) \div D
    BY <1>0, <2>1, DivisionMonotone
  <2> QED
    BY <1>0, <1>1, <1>3, <2>2
<1>4. ASSUME ~(t < z.at) PROVE CivilDay(z, t) <= CivilDay(z, u)
  <2>1. /\ t + z.after \in Int /\ u + z.after \in Int
        /\ t + z.after <= u + z.after
    BY <1>0
  <2>2. (t + z.after) \div D <= (u + z.after) \div D
    BY <1>0, <2>1, DivisionMonotone
  <2> QED
    BY <1>0, <1>1, <1>4, <2>2
<1>5. ASSUME t < z.at, ~(u < z.at) PROVE CivilDay(z, t) <= CivilDay(z, u)
  <2>0. /\ t + z.before \in Int /\ z.at - 1 + z.before \in Int
        /\ t + z.before <= z.at - 1 + z.before
        /\ z.at + z.after \in Int /\ u + z.after \in Int
        /\ z.at + z.after <= u + z.after
    BY <1>0, <1>5
  <2>1. (t + z.before) \div D <= (z.at - 1 + z.before) \div D
    BY <1>0, <2>0, DivisionMonotone
  <2>2. (z.at + z.after) \div D <= (u + z.after) \div D
    BY <1>0, <2>0, DivisionMonotone
  <2>3. /\ (t + z.before) \div D \in Int /\ (z.at - 1 + z.before) \div D \in Int
        /\ (z.at + z.after) \div D \in Int /\ (u + z.after) \div D \in Int
    BY <1>0, <2>0, FloorDivision
  <2> QED
    BY <1>1, <1>2, <1>5, <2>1, <2>2, <2>3
<1>6. CivilDay(z, t) <= CivilDay(z, u)
  BY <1>3, <1>4, <1>5
<1> QED
  BY <1>6 DEF z

\* Seconds and the parts below them add up to elapsed time (nanosBetween).
LEMMA NanosAreElapsed ==
    ASSUME NEW a \in Int, NEW b \in Int
    PROVE  NanosBetween(a, b) = b - a
<1> DEFINE S == TicksPerSecond
           qa == a \div S
           ra == a % S
           qb == b \div S
           rb == b % S
<1>0. S \in Nat \ {0}
  BY TicksAssumption
<1>1. qa \in Int /\ ra \in Int /\ a = S * qa + ra
  BY <1>0, FloorDivision
<1>2. qb \in Int /\ rb \in Int /\ b = S * qb + rb
  BY <1>0, FloorDivision
<1>3. NanosBetween(a, b) = (qb - qa) * S + (rb - ra)
  BY DEF NanosBetween
<1> HIDE DEF S, qa, ra, qb, rb
<1>4. (qb - qa) * S = S * qb - S * qa
  BY <1>0, <1>1, <1>2
<1> QED
  BY <1>0, <1>1, <1>2, <1>3, <1>4

(***************************************************************************)
(* Both bases measure a window by what they read at its ends.              *)
(***************************************************************************)
Measure(p, t) == IF p.basis = "second" THEN t ELSE CivilDay(p.zone, t)

Whole(p) == Measure(p, p.end) - Measure(p, p.start)

LEMMA MeasureIsInt ==
    ASSUME NEW p, Instants(p), NEW t \in Int
    PROVE  Measure(p, t) \in Int
  BY CivilDayIsInt DEF Measure

LEMMA MeasureMonotone ==
    ASSUME NEW p, Instants(p), p.basis = "day" => DatesAdvance(p.zone),
           p.basis \in {"second", "day"},
           NEW t \in Int, NEW u \in Int, t <= u
    PROVE  Measure(p, t) <= Measure(p, u)
<1>1. CASE p.basis = "second"
  BY <1>1 DEF Measure
<1>2. CASE p.basis = "day"
  BY <1>2, DatesMonotone DEF Measure
<1> QED
  BY <1>1, <1>2

\* The fraction of a clamped window (Period.Fraction).
LEMMA FractionMeasures ==
    ASSUME NEW p, Instants(p), NEW from \in Int, NEW to \in Int,
           Fraction(p, from, to).ok
    PROVE  LET lo == MaxTime(from, p.start)
               hi == MinTime(to, p.end)
           IN  /\ p.start < p.end /\ from <= to
               /\ p.basis \in {"second", "day"}
               /\ Whole(p) \in Nat \ {0}
               /\ Fraction(p, from, to) =
                    IF hi > lo THEN Ratio(Measure(p, hi) - Measure(p, lo), Whole(p))
                    ELSE Ratio(0, 1)
<1> DEFINE lo == MaxTime(from, p.start)
           hi == MinTime(to, p.end)
           f == Fraction(p, from, to)
<1>1. p.start \in Int /\ p.end \in Int
  BY DEF Instants
<1>2. lo \in Int /\ hi \in Int
  BY <1>1 DEF MaxTime, MinTime
<1>3. p.end > p.start /\ ~(from > to)
  BY DEF Fraction, Fails
<1>4. p.basis = "second" \/ p.basis = "day"
  BY <1>3 DEF Fraction, Fails
<1>5. CASE p.basis = "second"
  <2>1. f = IF ~(hi > lo) THEN Ratio(0, 1)
            ELSE Ratio(NanosBetween(lo, hi), NanosBetween(p.start, p.end))
    BY <1>3, <1>5 DEF Fraction
  <2>2. NanosBetween(lo, hi) = hi - lo /\ NanosBetween(p.start, p.end) = p.end - p.start
    BY <1>1, <1>2, NanosAreElapsed
  <2> HIDE DEF lo, hi, f
  <2>3. f = IF hi > lo THEN Ratio(Measure(p, hi) - Measure(p, lo), Whole(p))
            ELSE Ratio(0, 1)
    BY <1>5, <2>1, <2>2 DEF Measure, Whole
  <2>4. Whole(p) \in Nat \ {0}
    BY <1>1, <1>3, <1>5 DEF Measure, Whole
  <2> QED
    BY <1>1, <1>3, <1>5, <2>3, <2>4 DEF lo, hi, f
<1>6. CASE p.basis = "day"
  <2> DEFINE days == DaysBetween(p.zone, p.start, p.end)
  <2>1. ~(days <= 0)
    BY <1>3, <1>6 DEF Fraction, Fails
  <2>2. days = Whole(p)
    BY <1>6 DEF DaysBetween, Measure, Whole
  <2>3. Whole(p) \in Nat \ {0}
    <3>1. Measure(p, p.start) \in Int /\ Measure(p, p.end) \in Int
      BY <1>1, MeasureIsInt
    <3> QED
      BY <2>1, <2>2, <3>1 DEF Whole
  <2>4. f = IF ~(hi > lo) THEN Ratio(0, 1)
            ELSE Ratio(DaysBetween(p.zone, lo, hi), days)
    BY <1>3, <1>6, <2>1 DEF Fraction
  <2>5. DaysBetween(p.zone, lo, hi) = Measure(p, hi) - Measure(p, lo)
    BY <1>6 DEF DaysBetween, Measure
  <2> QED
    BY <1>1, <1>3, <1>6, <2>2, <2>3, <2>4, <2>5
<1> QED
  BY <1>4, <1>5, <1>6

-----------------------------------------------------------------------------
(***************************************************************************)
(* The dates that are seen from one instant to another.                    *)
(***************************************************************************)
LEMMA DivisionOfNext ==
    ASSUME NEW a \in Int, NEW d \in Nat \ {0}
    PROVE  (a + 1) \div d \in {a \div d, a \div d + 1}
<1> DEFINE q == a \div d
           r == a % d
<1>1. q \in Int /\ r \in 0 .. d - 1 /\ a = d * q + r
  BY FloorDivision
<1> HIDE DEF q, r
<1>2. CASE r + 1 < d
  <2>1. a + 1 = d * q + (r + 1) /\ r + 1 \in 0 .. d - 1 /\ a + 1 \in Int
    BY <1>1, <1>2
  <2>2. (a + 1) \div d = q
    BY <1>1, <2>1, FloorUnique
  <2> QED
    BY <2>2 DEF q
<1>3. CASE r + 1 = d
  <2>1. d * (q + 1) = d * q + d
    BY <1>1
  <2>2. a + 1 = d * (q + 1) + 0 /\ q + 1 \in Int /\ 0 \in 0 .. d - 1 /\ a + 1 \in Int
    BY <1>1, <1>3, <2>1
  <2>3. (a + 1) \div d = q + 1
    BY <2>2, FloorUnique
  <2> QED
    BY <2>3 DEF q
<1> QED
  BY <1>1, <1>2, <1>3

\* Where the clocks leave no date out, an instant's date is the one of the
\* instant before or the next.
LEMMA NextDate ==
    ASSUME NEW p, Instants(p), DatesFollow(p.zone), NEW t \in Int
    PROVE  CivilDay(p.zone, t + 1) \in {CivilDay(p.zone, t), CivilDay(p.zone, t) + 1}
<1> DEFINE z == p.zone
           D == TicksPerDay
<1>1. z.at \in Int /\ z.before \in Int /\ z.after \in Int /\ D \in Nat \ {0}
  BY TicksAssumption DEF Instants
<1>2. (z.at + z.after) \div D
        \in {(z.at - 1 + z.before) \div D, (z.at - 1 + z.before) \div D + 1}
  BY DEF DatesFollow
<1> HIDE DEF z, D
<1>3. CASE t + 1 < z.at
  <2>1. /\ CivilDay(z, t) = (t + z.before) \div D
        /\ CivilDay(z, t + 1) = ((t + z.before) + 1) \div D
        /\ t + z.before \in Int
    BY <1>1, <1>3 DEF CivilDay, D
  <2> QED
    BY <1>1, <2>1, DivisionOfNext DEF z
<1>4. CASE ~(t < z.at)
  <2>1. /\ CivilDay(z, t) = (t + z.after) \div D
        /\ CivilDay(z, t + 1) = ((t + z.after) + 1) \div D
        /\ t + z.after \in Int
    BY <1>1, <1>4 DEF CivilDay, D
  <2> QED
    BY <1>1, <2>1, DivisionOfNext DEF z
<1>5. CASE t + 1 = z.at
  <2>1. /\ CivilDay(z, t) = (z.at - 1 + z.before) \div D
        /\ CivilDay(z, t + 1) = (z.at + z.after) \div D
    <3>1. t = z.at - 1 /\ t < z.at /\ ~(t + 1 < z.at)
      BY <1>1, <1>5
    <3> QED
      BY <1>5, <3>1 DEF CivilDay, D
  <2> QED
    BY <1>2, <2>1 DEF z
<1> QED
  BY <1>1, <1>3, <1>4, <1>5

\* A window sees every date between its first and its last.
LEMMA DatesSeen ==
    ASSUME NEW p, Instants(p), DatesFollow(p.zone), NEW a \in Int, NEW b \in Int, a <= b
    PROVE  {CivilDay(p.zone, t) : t \in a .. b} = CivilDay(p.zone, a) .. CivilDay(p.zone, b)
<1> DEFINE Day(t) == CivilDay(p.zone, t)
           Seen(k) == {Day(t) : t \in a .. a + k}
           n == b - a
           X == {k \in 0 .. n : Day(a) <= Day(a + k) /\ Seen(k) = Day(a) .. Day(a + k)}
<1>1. \A t \in Int : Day(t) \in Int /\ Day(t + 1) \in {Day(t), Day(t) + 1}
  BY CivilDayIsInt, NextDate
<1>2. n \in Nat /\ a + n = b
  OBVIOUS
<1> HIDE DEF Day, n
<1>3. 0 \in X
  <2>1. a + 0 = a /\ a .. a = {a}
    OBVIOUS
  <2>2. Seen(0) = {Day(a)}
    BY <2>1
  <2>3. Day(a) .. Day(a) = {Day(a)} /\ Day(a) <= Day(a)
    BY <1>1
  <2> HIDE DEF Seen
  <2>4. Day(a) <= Day(a + 0) /\ Seen(0) = Day(a) .. Day(a + 0)
    BY <2>1, <2>2, <2>3
  <2> QED
    BY <1>2, <2>4
<1>4. ASSUME NEW k \in 0 .. n, k < n, k \in X PROVE k + 1 \in X
  <2>1. a + k \in Int /\ a + (k + 1) = (a + k) + 1 /\ k + 1 \in 0 .. n
    BY <1>2, <1>4
  <2>2. Day(a) <= Day(a + k) /\ Seen(k) = Day(a) .. Day(a + k)
    BY <1>4
  <2>3. a .. a + (k + 1) = (a .. a + k) \cup {a + (k + 1)}
    BY <2>1
  <2>4. Seen(k + 1) = Seen(k) \cup {Day(a + (k + 1))}
    BY <2>3
  <2> HIDE DEF Seen
  <2>5. /\ Day(a) \in Int /\ Day(a + k) \in Int
        /\ Day(a + (k + 1)) \in {Day(a + k), Day(a + k) + 1}
    BY <1>1, <2>1
  <2>6. Day(a) <= Day(a + (k + 1))
    BY <2>2, <2>5
  <2>7. Day(a) .. Day(a + (k + 1)) = (Day(a) .. Day(a + k)) \cup {Day(a + (k + 1))}
    BY <2>2, <2>5
  <2>8. Seen(k + 1) = Day(a) .. Day(a + (k + 1))
    BY <2>2, <2>4, <2>7
  <2> QED
    BY <2>1, <2>6, <2>8
<1> HIDE DEF X
<1>5. 0 .. n \subseteq X
  BY <1>2, <1>3, <1>4, UpTo
<1>6. n \in X
  BY <1>2, <1>5
<1>7. Seen(n) = Day(a) .. Day(a + n)
  BY <1>6 DEF X
<1> QED
  BY <1>2, <1>7 DEF Day

LEMMA DatesCounted ==
    ASSUME NEW p, Instants(p), DatesFollow(p.zone), NEW a \in Int, NEW b \in Int, a <= b
    PROVE  Cardinality({CivilDay(p.zone, t) : t \in a .. b}) - 1
             = CivilDay(p.zone, b) - CivilDay(p.zone, a)
<1>1. CivilDay(p.zone, a) \in Int /\ CivilDay(p.zone, b) \in Int
  BY CivilDayIsInt
<1>2. DatesAdvance(p.zone)
  <2>1. (p.zone.at - 1 + p.zone.before) \div TicksPerDay \in Int
    <3>1. p.zone.at - 1 + p.zone.before \in Int
      BY DEF Instants
    <3> QED
      BY <3>1, TicksAssumption, FloorDivision
  <2> QED
    BY <2>1 DEF DatesAdvance, DatesFollow
<1>3. CivilDay(p.zone, a) <= CivilDay(p.zone, b)
  BY <1>2, DatesMonotone
<1>4. Cardinality(CivilDay(p.zone, a) .. CivilDay(p.zone, b))
        = CivilDay(p.zone, b) - CivilDay(p.zone, a) + 1
  BY <1>1, <1>3, FS_Interval
<1>5. Cardinality({CivilDay(p.zone, t) : t \in a .. b})
        = CivilDay(p.zone, b) - CivilDay(p.zone, a) + 1
  BY <1>4, DatesSeen
<1> QED
  BY <1>1, <1>5

-----------------------------------------------------------------------------
\* What a fraction in [0, 1] is.
UnitFraction(f) == f.n \in Nat /\ f.d \in Nat \ {0} /\ f.n <= f.d

\* The remaining fraction is in [0, 1] where dates advance (Period.Fraction).
LEMMA RemainingInUnit ==
    ASSUME NEW p, Instants(p), NEW at \in Int,
           p.basis = "day" => DatesAdvance(p.zone),
           Fraction(p, at, p.end).ok
    PROVE  UnitFraction(Fraction(p, at, p.end))
<1> DEFINE lo == MaxTime(at, p.start)
           hi == MinTime(p.end, p.end)
           f == Fraction(p, at, p.end)
<1>1. p.start \in Int /\ p.end \in Int
  BY DEF Instants
<1>2. lo \in Int /\ hi = p.end /\ p.start <= lo
  BY <1>1 DEF MaxTime, MinTime
<1>3. /\ p.basis \in {"second", "day"}
      /\ Whole(p) \in Nat \ {0}
      /\ f = IF hi > lo THEN Ratio(Measure(p, hi) - Measure(p, lo), Whole(p))
             ELSE Ratio(0, 1)
  BY <1>1, FractionMeasures
<1> HIDE DEF lo, hi, f
<1>4. CASE ~(hi > lo)
  <2>1. f.n = 0 /\ f.d = 1
    BY <1>3, <1>4 DEF Ratio
  <2> QED
    BY <2>1 DEF UnitFraction, f
<1>5. CASE hi > lo
  <2>1. f.n = Measure(p, hi) - Measure(p, lo) /\ f.d = Whole(p)
    BY <1>3, <1>5 DEF Ratio
  <2>2. Measure(p, p.start) <= Measure(p, lo) /\ Measure(p, lo) <= Measure(p, hi)
    BY <1>1, <1>2, <1>3, <1>5, MeasureMonotone
  <2>3. /\ Measure(p, p.start) \in Int /\ Measure(p, lo) \in Int
        /\ Measure(p, hi) \in Int
    BY <1>1, <1>2, MeasureIsInt
  <2>4. f.n \in Nat /\ f.d \in Nat \ {0} /\ f.n <= f.d
    BY <1>2, <1>3, <2>1, <2>2, <2>3 DEF Whole
  <2> QED
    BY <2>4 DEF UnitFraction, f
<1> QED
  BY <1>4, <1>5

-----------------------------------------------------------------------------
(***************************************************************************)
(* Change.                                                                 *)
(***************************************************************************)

\* A prorated price is between zero and the price, with the sign of the
\* fraction, and never out of range (Prorate).
LEMMA ProrateInRange ==
    ASSUME NEW amount \in Int64, amount >= 0, NEW mode \in Modes,
           NEW n \in Nat, NEW d \in Nat \ {0}, n <= d
    PROVE  /\ Prorate(amount, mode, n, d).ok
           /\ Prorate(amount, mode, n, d).minor \in 0 .. amount
           /\ Prorate(amount, mode, -n, d).ok
           /\ Prorate(amount, mode, -n, d).minor \in -amount .. 0
<1>0. amount \in Nat /\ amount <= MaxInt /\ MaxInt \in Nat
  BY MaxIntAssumption DEF Int64, MinInt
<1>1. Round(mode, amount * n, d) \in 0 .. amount
  <2>1. /\ Round(mode, amount * n, d) \in Int
        /\ 0 <= Round(mode, amount * n, d)
        /\ Round(mode, amount * n, d) <= amount
    BY <1>0, RoundFraction
  <2> QED
    BY <1>0, <2>1
<1>2. Round(mode, amount * (-n), d) \in -amount .. 0
  <2>1. /\ amount * (-n) \in Int
        /\ (-amount) * d <= amount * (-n)
        /\ amount * (-n) <= 0 * d
    <3>1. amount * n <= amount * d /\ amount * n >= 0 /\ amount * n \in Int
      BY <1>0
    <3>2. amount * (-n) = -(amount * n) /\ (-amount) * d = -(amount * d)
      BY <1>0
    <3> QED
      BY <1>0, <3>1, <3>2
  <2>2. -amount \in Int
    BY <1>0
  <2> QED
    BY <2>1, <2>2, RoundBetween
<1>3. IsInt64(Round(mode, amount * n, d)) /\ IsInt64(Round(mode, amount * (-n), d))
  BY <1>0, <1>1, <1>2 DEF IsInt64, MinInt
<1> QED
  BY <1>1, <1>2, <1>3 DEF Prorate

\* What Change answers when it is asked a question it can answer.
LEMMA ChangeAnswers ==
    ASSUME NEW p, Instants(p), p.old \in Int64, p.new \in Int64, NEW at \in Int,
           p.basis = "day" => DatesAdvance(p.zone),
           p.old >= 0, p.new >= 0, p.mode \in Modes,
           Fraction(p, at, p.end).ok
    PROVE  LET f == Fraction(p, at, p.end)
               credit == Prorate(p.old, p.mode, -f.n, f.d)
               charge == Prorate(p.new, p.mode, f.n, f.d)
           IN  /\ UnitFraction(f)
               /\ credit.minor \in -p.old .. 0
               /\ charge.minor \in 0 .. p.new
               /\ Change(p, at) = [ok |-> TRUE, credit |-> credit.minor,
                                   charge |-> charge.minor,
                                   net |-> charge.minor + credit.minor]
<1> DEFINE f == Fraction(p, at, p.end)
           credit == Prorate(p.old, p.mode, -f.n, f.d)
           charge == Prorate(p.new, p.mode, f.n, f.d)
<1>1. UnitFraction(f)
  BY RemainingInUnit
<1>2. f.n \in Nat /\ f.d \in Nat \ {0} /\ f.n <= f.d
  BY <1>1 DEF UnitFraction
<1> HIDE DEF f
<1>3. charge.ok /\ charge.minor \in 0 .. p.new
  BY <1>2, ProrateInRange
<1>4. credit.ok /\ credit.minor \in -p.old .. 0
  BY <1>2, ProrateInRange
<1> HIDE DEF charge, credit
<1>5. IsInt64(charge.minor + credit.minor)
  BY <1>3, <1>4, MaxIntAssumption DEF IsInt64, MinInt, Int64
<1>6. Change(p, at) = [ok |-> TRUE, credit |-> credit.minor, charge |-> charge.minor,
                       net |-> charge.minor + credit.minor]
  <2>1. f.ok
    BY DEF f
  <2>2. ~(p.old < 0 \/ p.new < 0)
    BY MaxIntAssumption DEF Int64, MinInt
  <2> QED
    BY <1>3, <1>4, <1>5, <2>1, <2>2 DEF Change, f, charge, credit
<1> QED
  BY <1>1, <1>3, <1>4, <1>6 DEF f, charge, credit

\* An answer that is no error means that the arguments were in order.
LEMMA AnswersAreDeserved ==
    ASSUME NEW p, Instants(p), p.old \in Int64, p.new \in Int64, NEW at \in Int,
           Change(p, at).ok
    PROVE  p.old >= 0 /\ p.new >= 0 /\ p.mode \in Modes /\ Fraction(p, at, p.end).ok
<1>1. ~(p.old < 0 \/ p.new < 0)
  BY DEF Change, Fails
<1>2. Fraction(p, at, p.end).ok
  BY <1>1 DEF Change
<1>3. p.mode \in Modes
  BY <1>1, <1>2 DEF Change, Prorate, Fails
<1> QED
  BY <1>1, <1>2, <1>3, MaxIntAssumption DEF Int64, MinInt

\* A period, window and basis that are in order have a fraction.
LEMMA FractionAnswers ==
    ASSUME NEW p, Instants(p), NEW at \in Int, p.start < p.end, at <= p.end,
           \/ p.basis = "second"
           \/ p.basis = "day" /\ CivilDay(p.zone, p.start) < CivilDay(p.zone, p.end)
    PROVE  Fraction(p, at, p.end).ok
<1>1. p.end > p.start /\ ~(at > p.end)
  BY DEF Instants
<1>2. CASE p.basis = "second"
  BY <1>1, <1>2 DEF Fraction, Ratio
<1>3. CASE p.basis = "day" /\ CivilDay(p.zone, p.start) < CivilDay(p.zone, p.end)
  <2>1. CivilDay(p.zone, p.start) \in Int /\ CivilDay(p.zone, p.end) \in Int
    BY CivilDayIsInt DEF Instants
  <2>2. ~(DaysBetween(p.zone, p.start, p.end) <= 0)
    BY <1>3, <2>1 DEF DaysBetween
  <2> QED
    BY <1>1, <1>3, <2>2 DEF Fraction, Ratio
<1> QED
  BY <1>2, <1>3

-----------------------------------------------------------------------------
\* A quote is always what Change answers for the plan at that instant.
Quoted == plan \in Plans /\ now \in Int /\ quote = Change(plan, now)

LEMMA QuotedAlways == Spec => []Quoted
<1>1. Init => Quoted
  BY InstantsAssumption DEF Init, Quoted
<1>2. Quoted /\ [Tick]_vars => Quoted'
  BY DEF Quoted, Tick, vars
<1> QED
  BY <1>1, <1>2, PTL DEF Spec

\* A credit gives back at most the old price and a charge takes at most the
\* new one (CreditAndCharge), at every instant of every period.
THEOREM CreditsAndChargesAreBounded == Spec => []CreditAndCharge
<1>1. Quoted => CreditAndCharge
  <2>1. SUFFICES ASSUME Quoted, Orderly, quote.ok PROVE WithinPrices
    BY DEF CreditAndCharge, WithinPrices
  <2>2. /\ Instants(plan) /\ plan.old \in Int64 /\ plan.new \in Int64
        /\ now \in Int /\ quote = Change(plan, now)
    BY <2>1, PlanFields DEF Quoted
  <2>3. /\ plan.old >= 0 /\ plan.new >= 0 /\ plan.mode \in Modes
        /\ Fraction(plan, now, plan.end).ok
    BY <2>1, <2>2, AnswersAreDeserved
  <2>4. quote.credit \in -plan.old .. 0 /\ quote.charge \in 0 .. plan.new
    BY <2>1, <2>2, <2>3, ChangeAnswers DEF Orderly
  <2> QED
    BY <2>4 DEF WithinPrices
<1> QED
  BY <1>1, QuotedAlways, PTL

\* The overflow guards of Change never refuse a well-formed change
\* (GuardsAreDefensive).
THEOREM ChangeNeverOverflows == Spec => []GuardsAreDefensive
<1>1. Quoted => GuardsAreDefensive
  <2>1. SUFFICES ASSUME Quoted, Orderly, WellFormed PROVE quote.ok
    BY DEF GuardsAreDefensive
  <2>2. /\ Instants(plan) /\ plan.old \in Int64 /\ plan.new \in Int64
        /\ now \in Int /\ quote = Change(plan, now)
    BY <2>1, PlanFields DEF Quoted
  <2>3. Fraction(plan, now, plan.end).ok
    BY <2>1, <2>2, FractionAnswers DEF WellFormed
  <2> QED
    BY <2>1, <2>2, <2>3, ChangeAnswers DEF Orderly, WellFormed
<1> QED
  BY <1>1, QuotedAlways, PTL

\* Used and remaining time make the whole period (UsedAndRemaining), whatever
\* the clocks do: no assumption on the zone is needed.
THEOREM UsedAndRemainingPartition == Spec => []UsedAndRemaining
<1> DEFINE used == Fraction(plan, plan.start, now)
           remaining == Fraction(plan, now, plan.end)
           s == Measure(plan, plan.start)
           t == Measure(plan, now)
           e == Measure(plan, plan.end)
<1>1. ASSUME Quoted, used.ok, remaining.ok
      PROVE  used.n * remaining.d + remaining.n * used.d = used.d * remaining.d
  <2>1. Instants(plan) /\ plan.start \in Int /\ plan.end \in Int /\ now \in Int
    BY <1>1, PlanFields DEF Quoted, Instants
  <2>2. s \in Int /\ t \in Int /\ e \in Int
    BY <2>1, MeasureIsInt
  <2>3. /\ plan.start <= now /\ Whole(plan) \in Nat \ {0}
        /\ used = IF MinTime(now, plan.end) > MaxTime(plan.start, plan.start)
                  THEN Ratio(Measure(plan, MinTime(now, plan.end))
                               - Measure(plan, MaxTime(plan.start, plan.start)), Whole(plan))
                  ELSE Ratio(0, 1)
    BY <1>1, <2>1, FractionMeasures
  <2>4. /\ now <= plan.end
        /\ remaining = IF MinTime(plan.end, plan.end) > MaxTime(now, plan.start)
                       THEN Ratio(Measure(plan, MinTime(plan.end, plan.end))
                                    - Measure(plan, MaxTime(now, plan.start)), Whole(plan))
                       ELSE Ratio(0, 1)
    BY <1>1, <2>1, FractionMeasures
  <2>5. /\ MinTime(now, plan.end) = now /\ MaxTime(plan.start, plan.start) = plan.start
        /\ MinTime(plan.end, plan.end) = plan.end /\ MaxTime(now, plan.start) = now
    BY <2>1, <2>3, <2>4 DEF MinTime, MaxTime
  <2>6. used = IF now > plan.start THEN Ratio(t - s, e - s) ELSE Ratio(0, 1)
    BY <2>3, <2>5 DEF Whole
  <2>7. remaining = IF plan.end > now THEN Ratio(e - t, e - s) ELSE Ratio(0, 1)
    BY <2>4, <2>5 DEF Whole
  <2>8. e - s \in Nat \ {0}
    BY <2>3 DEF Whole
  <2>9. now = plan.start => t = s
    OBVIOUS
  <2>10. now = plan.end => t = e
    OBVIOUS
  <2> HIDE DEF used, remaining, s, t, e
  <2>11. CASE now > plan.start /\ plan.end > now
    <3>1. /\ used.n = t - s /\ used.d = e - s
          /\ remaining.n = e - t /\ remaining.d = e - s
      BY <2>6, <2>7, <2>11 DEF Ratio
    <3>2. (t - s) * (e - s) + (e - t) * (e - s) = ((t - s) + (e - t)) * (e - s)
      BY <2>2
    <3>3. (t - s) + (e - t) = e - s
      BY <2>2
    <3> QED
      BY <3>1, <3>2, <3>3
  <2>12. CASE ~(now > plan.start)
    <3>1. now = plan.start
      BY <2>1, <2>3, <2>12
    <3>2. used.n = 0 /\ used.d = 1
      BY <2>6, <2>12 DEF Ratio
    <3>3. plan.end > now
      BY <2>8, <2>9, <2>10, <3>1, <2>1, <2>2, <2>4
    <3>4. remaining.n = e - s /\ remaining.d = e - s
      BY <2>7, <2>9, <3>1, <3>3 DEF Ratio
    <3> QED
      BY <2>8, <3>2, <3>4
  <2>13. CASE now > plan.start /\ ~(plan.end > now)
    <3>1. now = plan.end
      BY <2>1, <2>4, <2>13
    <3>2. used.n = e - s /\ used.d = e - s
      BY <2>6, <2>10, <2>13, <3>1 DEF Ratio
    <3>3. remaining.n = 0 /\ remaining.d = 1
      BY <2>7, <2>13 DEF Ratio
    <3> QED
      BY <2>8, <3>2, <3>3
  <2> QED
    BY <2>11, <2>12, <2>13
<1>2. Quoted => UsedAndRemaining
  BY <1>1 DEF UsedAndRemaining
<1> QED
  BY <1>2, QuotedAlways, PTL

\* On the day basis every date that a window sees counts once, however long its
\* day, where the clocks leave no date out (ProrateByDay).
THEOREM DaysAreCountedOnce == Spec => []EachDayCountsOnce
<1> DEFINE window == {t \in plan.start .. plan.end : t >= now}
           dates == {CivilDay(plan.zone, t) : t \in window}
           whole == {CivilDay(plan.zone, t) : t \in plan.start .. plan.end}
           f == Fraction(plan, now, plan.end)
           Day(t) == CivilDay(plan.zone, t)
           lo == MaxTime(now, plan.start)
<1>1. ASSUME Quoted, f.ok, plan.basis = "day", window # {}, DatesFollow(plan.zone)
      PROVE  f.n * (Cardinality(whole) - 1) = f.d * (Cardinality(dates) - 1)
  <2>1. Instants(plan) /\ plan.start \in Int /\ plan.end \in Int /\ now \in Int
    BY <1>1, PlanFields DEF Quoted, Instants
  <2>2. /\ plan.start < plan.end /\ now <= plan.end
        /\ Whole(plan) \in Nat \ {0}
        /\ f = IF MinTime(plan.end, plan.end) > lo
               THEN Ratio(Measure(plan, MinTime(plan.end, plan.end)) - Measure(plan, lo),
                          Whole(plan))
               ELSE Ratio(0, 1)
    BY <1>1, <2>1, FractionMeasures
  <2>3. MinTime(plan.end, plan.end) = plan.end /\ lo \in Int /\ lo <= plan.end
    BY <2>1, <2>2 DEF MinTime, MaxTime
  <2>4. window = lo .. plan.end
    BY <2>1 DEF MaxTime
  <2>5. Measure(plan, lo) = Day(lo) /\ Measure(plan, plan.end) = Day(plan.end)
        /\ Whole(plan) = Day(plan.end) - Day(plan.start)
    BY <1>1 DEF Measure, Whole
  <2> HIDE DEF lo, window
  <2>6. Cardinality(dates) - 1 = Day(plan.end) - Day(lo)
    BY <1>1, <2>1, <2>3, <2>4, DatesCounted
  <2>7. Cardinality(whole) - 1 = Day(plan.end) - Day(plan.start)
    BY <1>1, <2>1, <2>2, DatesCounted
  <2>8. Day(lo) \in Int /\ Day(plan.start) \in Int /\ Day(plan.end) \in Int
    BY <2>1, <2>3, CivilDayIsInt
  <2>9. CASE plan.end > lo
    <3>1. f.n = Day(plan.end) - Day(lo) /\ f.d = Day(plan.end) - Day(plan.start)
      BY <2>2, <2>3, <2>5, <2>9 DEF Ratio
    <3> HIDE DEF dates, whole, f, Day
    <3> QED
      BY <2>6, <2>7, <2>8, <3>1
  <2>10. CASE lo = plan.end
    <3>1. f.n = 0 /\ f.d = 1
      BY <2>2, <2>3, <2>10 DEF Ratio
    <3> HIDE DEF dates, whole, f, Day
    <3>2. Day(lo) = Day(plan.end)
      BY <2>10
    <3>3. Day(plan.end) - Day(lo) = 0
      BY <2>8, <3>2
    <3>4. Cardinality(dates) - 1 = 0
      BY <2>6, <3>3, Zenon
    <3> QED
      BY <2>7, <2>8, <3>1, <3>4
  <2> QED
    BY <2>1, <2>3, <2>9, <2>10
<1>2. Quoted => EachDayCountsOnce
  BY <1>1 DEF EachDayCountsOnce
<1> QED
  BY <1>2, QuotedAlways, PTL

\* A fraction that is no error has integers for parts, odd zones included.
LEMMA FractionParts ==
    ASSUME NEW p, Instants(p), NEW at \in Int, Fraction(p, at, p.end).ok
    PROVE  /\ Fraction(p, at, p.end).n \in Int
           /\ Fraction(p, at, p.end).d \in Nat \ {0}
<1> DEFINE lo == MaxTime(at, p.start)
           hi == MinTime(p.end, p.end)
           f == Fraction(p, at, p.end)
<1>1. p.end \in Int /\ lo \in Int /\ hi \in Int
  BY DEF Instants, MaxTime, MinTime
<1>2. /\ Whole(p) \in Nat \ {0}
      /\ f = IF hi > lo THEN Ratio(Measure(p, hi) - Measure(p, lo), Whole(p))
             ELSE Ratio(0, 1)
  BY <1>1, FractionMeasures
<1>3. Measure(p, hi) \in Int /\ Measure(p, lo) \in Int
  BY <1>1, MeasureIsInt
<1> HIDE DEF lo, hi, f
<1>4. f.n \in Int /\ f.d \in Nat \ {0}
  BY <1>2, <1>3 DEF Ratio
<1> QED
  BY <1>4 DEF f

\* A change between plans of one price is free when halves round
\* symmetrically (SamePriceIsFree), odd zones included.
THEOREM SamePriceChangesAreFree == Spec => []SamePriceIsFree
<1>1. Quoted => SamePriceIsFree
  <2>1. SUFFICES ASSUME Quoted, quote.ok, plan.old = plan.new,
                        plan.mode \in {"half_up", "half_even"}
                 PROVE  quote.net = 0
    BY DEF SamePriceIsFree
  <2>2. /\ Instants(plan) /\ plan.old \in Int64 /\ plan.new \in Int64
        /\ now \in Int /\ quote = Change(plan, now)
    BY <2>1, PlanFields DEF Quoted
  <2>3. /\ plan.old >= 0 /\ plan.new >= 0 /\ plan.mode \in Modes
        /\ Fraction(plan, now, plan.end).ok
    BY <2>1, <2>2, AnswersAreDeserved
  <2> DEFINE f == Fraction(plan, now, plan.end)
             credit == Prorate(plan.old, plan.mode, -f.n, f.d)
             charge == Prorate(plan.new, plan.mode, f.n, f.d)
  <2>4. f.n \in Int /\ f.d \in Nat \ {0}
    BY <2>2, <2>3, FractionParts
  <2>5. /\ credit.ok /\ charge.ok
        /\ quote.net = charge.minor + credit.minor
    <3>1. /\ credit.ok
          /\ charge.ok
      BY <2>1, <2>2, <2>3 DEF Change, Prorate, Fails
    <3> QED
      BY <2>1, <2>2, <2>3, <3>1 DEF Change, Fails
  <2> HIDE DEF f
  <2>6. /\ credit.minor = Round(plan.mode, plan.old * (-f.n), f.d)
        /\ charge.minor = Round(plan.mode, plan.new * f.n, f.d)
    BY <2>5 DEF Prorate, Fails
  <2>7. plan.old \in Int /\ plan.old * f.n \in Int /\ plan.old * (-f.n) = -(plan.old * f.n)
    BY <2>2, <2>4 DEF Int64, MinInt
  <2>8. Round(plan.mode, -(plan.old * f.n), f.d) = -Round(plan.mode, plan.old * f.n, f.d)
    BY <2>1, <2>4, <2>7, RoundMirror
  <2>9. Round(plan.mode, plan.old * f.n, f.d) \in Int
    <3>1. \/ Round(plan.mode, plan.old * f.n, f.d) = (plan.old * f.n) \div f.d
          \/ Round(plan.mode, plan.old * f.n, f.d) = (plan.old * f.n) \div f.d + 1
      BY <2>3, <2>4, <2>7, RoundIsNeighbour
    <3> QED
      BY <2>4, <2>7, <3>1, FloorDivision
  <2> HIDE DEF credit, charge
  <2> QED
    BY <2>1, <2>5, <2>6, <2>7, <2>8, <2>9
<1> QED
  BY <1>1, QuotedAlways, PTL

\* What a quote that is no error says, in terms of the remaining fraction.
LEMMA QuoteRounds ==
    ASSUME NEW p, Instants(p), p.old \in Int64, p.new \in Int64, NEW at \in Int,
           p.basis = "day" => DatesAdvance(p.zone),
           Change(p, at).ok
    PROVE  LET f == Fraction(p, at, p.end)
           IN  /\ f.ok /\ UnitFraction(f)
               /\ p.old \in Nat /\ p.new \in Nat /\ p.mode \in Modes
               /\ Change(p, at).credit = Round(p.mode, p.old * (-f.n), f.d)
               /\ Change(p, at).charge = Round(p.mode, p.new * f.n, f.d)
<1> DEFINE f == Fraction(p, at, p.end)
           credit == Prorate(p.old, p.mode, -f.n, f.d)
           charge == Prorate(p.new, p.mode, f.n, f.d)
<1>1. p.old >= 0 /\ p.new >= 0 /\ p.mode \in Modes /\ f.ok
  BY AnswersAreDeserved
<1>2. /\ UnitFraction(f)
      /\ Change(p, at) = [ok |-> TRUE, credit |-> credit.minor, charge |-> charge.minor,
                          net |-> charge.minor + credit.minor]
  BY <1>1, ChangeAnswers
<1>3. f.n \in Nat /\ f.d \in Nat \ {0} /\ f.n <= f.d
  BY <1>2 DEF UnitFraction
<1> HIDE DEF f
<1>4. charge.ok /\ credit.ok
  BY <1>1, <1>3, ProrateInRange
<1>5. /\ credit.minor = Round(p.mode, p.old * (-f.n), f.d)
      /\ charge.minor = Round(p.mode, p.new * f.n, f.d)
  BY <1>4 DEF Prorate, Fails
<1>6. p.old \in Nat /\ p.new \in Nat
  BY <1>1, MaxIntAssumption DEF Int64, MinInt
<1> HIDE DEF credit, charge
<1>7. Change(p, at).credit = credit.minor /\ Change(p, at).charge = charge.minor
  BY <1>2
<1> QED
  BY <1>1, <1>2, <1>5, <1>6, <1>7 DEF f

\* The remaining fraction shrinks as time passes, or there is none left.
LEMMA RemainingShrinks ==
    ASSUME NEW p, Instants(p), NEW at \in Int, NEW later \in Int, at <= later,
           p.basis = "day" => DatesAdvance(p.zone),
           Fraction(p, at, p.end).ok, Fraction(p, later, p.end).ok
    PROVE  LET f == Fraction(p, at, p.end)
               g == Fraction(p, later, p.end)
           IN  g.n = 0 \/ (g.d = f.d /\ g.n <= f.n)
<1> DEFINE f == Fraction(p, at, p.end)
           g == Fraction(p, later, p.end)
           lo == MaxTime(at, p.start)
           lo2 == MaxTime(later, p.start)
           hi == MinTime(p.end, p.end)
<1>1. /\ p.end \in Int /\ lo \in Int /\ lo2 \in Int /\ hi \in Int
      /\ lo <= lo2
  BY DEF Instants, MaxTime, MinTime
<1>2. /\ p.basis \in {"second", "day"}
      /\ f = IF hi > lo THEN Ratio(Measure(p, hi) - Measure(p, lo), Whole(p))
             ELSE Ratio(0, 1)
  BY <1>1, FractionMeasures
<1>3. g = IF hi > lo2 THEN Ratio(Measure(p, hi) - Measure(p, lo2), Whole(p))
          ELSE Ratio(0, 1)
  BY <1>1, FractionMeasures
<1> HIDE DEF f, g, lo, lo2, hi
<1>4. CASE ~(hi > lo2)
  <2>1. g.n = 0
    BY <1>3, <1>4 DEF Ratio
  <2> QED
    BY <2>1 DEF g
<1>5. CASE hi > lo2
  <2>1. hi > lo
    BY <1>1, <1>5
  <2>2. /\ f.n = Measure(p, hi) - Measure(p, lo) /\ f.d = Whole(p)
        /\ g.n = Measure(p, hi) - Measure(p, lo2) /\ g.d = Whole(p)
    BY <1>2, <1>3, <1>5, <2>1 DEF Ratio
  <2>3. Measure(p, lo) <= Measure(p, lo2)
    BY <1>1, <1>2, MeasureMonotone
  <2>4. Measure(p, lo) \in Int /\ Measure(p, lo2) \in Int /\ Measure(p, hi) \in Int
    BY <1>1, MeasureIsInt
  <2>5. g.d = f.d /\ g.n <= f.n
    BY <2>2, <2>3, <2>4
  <2> QED
    BY <2>5 DEF f, g
<1> QED
  BY <1>4, <1>5

\* The later the change, the smaller the credit and the charge (LaterIsLess).
THEOREM LaterChangesAreSmaller == Spec => LaterIsLess
<1>1. ASSUME Quoted, Quoted', Tick, Orderly, quote.ok, quote'.ok
      PROVE  quote'.charge <= quote.charge /\ quote'.credit >= quote.credit
  <2> DEFINE f == Fraction(plan, now, plan.end)
             g == Fraction(plan, now', plan.end)
  <2>1. /\ Instants(plan) /\ plan.old \in Int64 /\ plan.new \in Int64
        /\ now \in Int /\ quote = Change(plan, now)
    BY <1>1, PlanFields DEF Quoted
  <2>2. /\ plan' = plan /\ now' = now + 1 /\ now' \in Int
        /\ quote' = Change(plan, now')
    BY <1>1, <2>1 DEF Tick
  <2>3. plan.basis = "day" => DatesAdvance(plan.zone)
    BY <1>1 DEF Orderly
  <2>4. /\ f.ok /\ UnitFraction(f)
        /\ plan.old \in Nat /\ plan.new \in Nat /\ plan.mode \in Modes
        /\ quote.credit = Round(plan.mode, plan.old * (-f.n), f.d)
        /\ quote.charge = Round(plan.mode, plan.new * f.n, f.d)
    BY <1>1, <2>1, <2>3, QuoteRounds
  <2>5. /\ g.ok /\ UnitFraction(g)
        /\ quote'.credit = Round(plan.mode, plan.old * (-g.n), g.d)
        /\ quote'.charge = Round(plan.mode, plan.new * g.n, g.d)
    BY <1>1, <2>1, <2>2, <2>3, QuoteRounds
  <2>6. g.n = 0 \/ (g.d = f.d /\ g.n <= f.n)
    BY <2>1, <2>2, <2>3, <2>4, <2>5, RemainingShrinks
  <2>7. /\ f.n \in Nat /\ f.d \in Nat \ {0}
        /\ g.n \in Nat /\ g.d \in Nat \ {0}
    BY <2>4, <2>5 DEF UnitFraction
  <2> HIDE DEF f, g
  <2>8. /\ plan.old * (-f.n) \in Int /\ plan.old * (-f.n) = -(plan.old * f.n)
        /\ plan.new * f.n \in Nat /\ plan.old * f.n \in Nat
    BY <2>4, <2>7
  <2>9. CASE g.n = 0
    <3>1. plan.old * (-g.n) = 0 /\ plan.new * g.n = 0
      BY <2>4, <2>9
    <3>2. quote'.credit = Round(plan.mode, 0, g.d) /\ quote'.charge = Round(plan.mode, 0, g.d)
      BY <2>5, <3>1
    <3>3. Round(plan.mode, 0, g.d) \in Int /\ 0 <= Round(plan.mode, 0, g.d)
          /\ Round(plan.mode, 0, g.d) <= 0
      <4>1. 0 * g.d <= 0
        BY <2>7
      <4> QED
        BY <2>4, <2>7, <4>1, RoundBetween
    <3>4. quote'.credit = 0 /\ quote'.charge = 0
      BY <3>2, <3>3
    <3>5. Round(plan.mode, 0, f.d) \in Int /\ 0 <= Round(plan.mode, 0, f.d)
          /\ Round(plan.mode, 0, f.d) <= 0
      <4>1. 0 * f.d <= 0
        BY <2>7
      <4> QED
        BY <2>4, <2>7, <4>1, RoundBetween
    <3>6. Round(plan.mode, plan.old * (-f.n), f.d) <= Round(plan.mode, 0, f.d)
      BY <2>4, <2>7, <2>8, RoundMonotone
    <3>7. Round(plan.mode, 0, f.d) <= Round(plan.mode, plan.new * f.n, f.d)
      BY <2>4, <2>7, <2>8, RoundMonotone
    <3>8. Round(plan.mode, 0, f.d) = 0
      BY <3>5
    <3> QED
      BY <2>4, <3>4, <3>6, <3>7, <3>8
  <2>10. CASE g.d = f.d /\ g.n <= f.n
    <3>1. plan.new * g.n <= plan.new * f.n /\ plan.old * g.n <= plan.old * f.n
      BY <2>4, <2>7, <2>10
    <3>2. plan.old * (-g.n) = -(plan.old * g.n) /\ plan.old * g.n \in Nat
          /\ plan.new * g.n \in Nat
      BY <2>4, <2>7
    <3>3. plan.old * (-f.n) <= plan.old * (-g.n) /\ plan.old * (-g.n) \in Int
      BY <2>8, <3>1, <3>2
    <3>4. Round(plan.mode, plan.new * g.n, f.d) <= Round(plan.mode, plan.new * f.n, f.d)
      BY <2>4, <2>7, <2>8, <3>1, <3>2, RoundMonotone
    <3>5. Round(plan.mode, plan.old * (-f.n), f.d) <= Round(plan.mode, plan.old * (-g.n), f.d)
      BY <2>4, <2>7, <2>8, <3>3, RoundMonotone
    <3>6. quote'.charge <= quote.charge
      BY <2>4, <2>5, <2>10, <3>4
    <3>7. quote.credit <= quote'.credit
      BY <2>4, <2>5, <2>10, <3>5
    <3>8. quote.credit \in Int /\ quote'.credit \in Int
      <4>1. \A x \in Int : Round(plan.mode, x, f.d) \in Int
        <5>1. TAKE x \in Int
        <5>2. x \div f.d \in Int
          BY <2>7, FloorDivision
        <5> QED
          BY <2>4, <2>7, <5>2, RoundIsNeighbour
      <4> QED
        BY <2>4, <2>5, <2>8, <2>10, <3>3, <4>1
    <3> QED
      BY <3>6, <3>7, <3>8
  <2> QED
    BY <2>6, <2>9, <2>10
<1>2. Quoted /\ Quoted' /\ [Tick]_vars =>
        [Orderly /\ quote.ok /\ quote'.ok =>
           quote'.charge <= quote.charge /\ quote'.credit >= quote.credit]_vars
  BY <1>1
<1> QED
  BY <1>2, QuotedAlways, PTL DEF Spec, LaterIsLess

=============================================================================
