---------------------------- MODULE RatingProofs ----------------------------
(***************************************************************************)
(* Theorems about Metering, for every set of charges and every usage: what *)
(* validateTiers lets through prices each unit once, the models that price *)
(* a quantity as a whole charge what its band or its blocks say, graduated *)
(* pricing charges unit by unit, more usage never costs less, and the      *)
(* lines of every charge add up to its total.                              *)
(***************************************************************************)
EXTENDS Metering, MoneyProofs

-----------------------------------------------------------------------------
(***************************************************************************)
(* Schedules.                                                              *)
(***************************************************************************)
\* The bounds of a schedule are above zero and increase, and only the last
\* band has none.
InOrder(tiers) ==
    /\ tiers \in Seq(TierType)
    /\ Len(tiers) > 0
    /\ \A k \in 1 .. Len(tiers) : tiers[k].last <=> k = Len(tiers)
    /\ \A k \in 1 .. Len(tiers) - 1 : tiers[k].upTo > 0
    /\ \A k \in 2 .. Len(tiers) - 1 : tiers[k].upTo > tiers[k - 1].upTo

LEMMA TierFields ==
    ASSUME NEW tiers \in Seq(TierType)
    PROVE  /\ Len(tiers) \in Nat /\ DOMAIN tiers = 1 .. Len(tiers)
           /\ \A k \in 1 .. Len(tiers) :
                /\ tiers[k].upTo \in Int /\ tiers[k].last \in BOOLEAN
                /\ tiers[k].rate \in RateType /\ tiers[k].flat \in Int64
<1>1. Len(tiers) \in Nat /\ DOMAIN tiers = 1 .. Len(tiers)
      /\ \A k \in 1 .. Len(tiers) : tiers[k] \in TierType
  OBVIOUS
<1>2. \A t \in TierType : /\ t.upTo \in Int64 /\ t.last \in BOOLEAN
                          /\ t.rate \in RateType /\ t.flat \in Int64
  BY DEF TierType
<1>3. \A z \in Int64 : z \in Int
  BY MaxIntAssumption DEF Int64, MinInt
<1> QED
  BY <1>1, <1>2, <1>3

\* What passes validateTiers is in order, and has the prices it was asked for.
LEMMA ValidIsInOrder ==
    ASSUME NEW tiers \in Seq(TierType), NEW rated \in BOOLEAN, NEW flat \in BOOLEAN,
           ValidTiers(tiers, rated, flat)
    PROVE  /\ InOrder(tiers)
           /\ \A k \in 1 .. Len(tiers) : /\ rated => ValidRate(tiers[k].rate)
                                         /\ flat => tiers[k].flat >= 0
<1> DEFINE n == Len(tiers)
<1>1. n \in Nat /\ DOMAIN tiers = 1 .. n
      /\ \A k \in 1 .. n : /\ tiers[k].upTo \in Int /\ tiers[k].last \in BOOLEAN
                           /\ tiers[k].flat \in Int64
  BY TierFields
<1>2. n > 0
  BY <1>1 DEF ValidTiers
<1>3. ASSUME NEW k \in 1 .. n
      PROVE  ~Misplaced(tiers, k) /\ ~Unpriced(tiers[k], rated, flat)
  BY <1>1 DEF ValidTiers, Invalid
<1>4. \A k \in 1 .. n : tiers[k].last <=> k = n
  BY <1>1, <1>3 DEF Misplaced
<1>5. \A k \in 1 .. n : k < n => tiers[k].upTo > 0
                              /\ (k > 1 => tiers[k].upTo > tiers[k - 1].upTo)
  <2> SUFFICES ASSUME NEW k \in 1 .. n, k < n
               PROVE  tiers[k].upTo > 0 /\ (k > 1 => tiers[k].upTo > tiers[k - 1].upTo)
    OBVIOUS
  <2>1. ~tiers[k].last
    <3>1. n \in Nat
      BY <1>1
    <3>2. k # n
      BY <3>1
    <3> QED
      BY <1>4, <3>2
  <2>2. ~(tiers[k].upTo <= 0) /\ ~(k > 1 /\ tiers[k].upTo <= tiers[k - 1].upTo)
    BY <1>3, <2>1 DEF Misplaced
  <2>3. k > 1 => tiers[k - 1].upTo \in Int
    BY <1>1
  <2> QED
    BY <1>1, <2>2, <2>3
<1>6. \A k \in 1 .. n : (rated => ValidRate(tiers[k].rate)) /\ (flat => tiers[k].flat >= 0)
  <2>1. \A k \in 1 .. n : tiers[k].flat \in Int
    BY <1>1, MaxIntAssumption DEF Int64, MinInt
  <2> QED
    BY <1>3, <2>1 DEF Unpriced
<1>7. \A k \in 1 .. n - 1 : tiers[k].upTo > 0
  BY <1>1, <1>5
<1>8. \A k \in 2 .. n - 1 : tiers[k].upTo > tiers[k - 1].upTo
  BY <1>1, <1>5
<1> QED
  BY <1>2, <1>4, <1>6, <1>7, <1>8 DEF InOrder

\* A later bound is a higher one.
LEMMA BoundsClimb ==
    ASSUME NEW tiers, InOrder(tiers), NEW j \in 1 .. Len(tiers) - 1, NEW k \in j .. Len(tiers) - 1
    PROVE  tiers[j].upTo <= tiers[k].upTo
<1> DEFINE n == Len(tiers)
           X == {m \in 0 .. n - 1 : j <= m => tiers[j].upTo <= tiers[m].upTo}
<1>1. n \in Nat /\ n - 1 \in Nat
      /\ \A m \in 1 .. n : tiers[m].upTo \in Int
  BY TierFields DEF InOrder
<1>2. 0 \in X
  BY <1>1
<1>3. ASSUME NEW m \in 0 .. n - 1, m < n - 1, m \in X PROVE m + 1 \in X
  <2>1. m + 1 \in 0 .. n - 1 /\ m + 1 \in 1 .. n
    BY <1>1, <1>3
  <2>2. CASE j <= m
    <3>1. m + 1 \in 2 .. n - 1 /\ (m + 1) - 1 = m /\ m \in 1 .. n
      BY <1>1, <1>3, <2>2
    <3>2. tiers[m + 1].upTo > tiers[m].upTo
      BY <3>1 DEF InOrder
    <3>3. /\ tiers[j].upTo \in Int /\ tiers[m].upTo \in Int /\ tiers[m + 1].upTo \in Int
          /\ tiers[j].upTo <= tiers[m].upTo
      BY <1>1, <1>3, <2>1, <2>2, <3>1
    <3> QED
      BY <2>1, <3>2, <3>3
  <2>3. CASE ~(j <= m)
    <3>1. j <= m + 1 => j = m + 1
      BY <1>1, <1>3, <2>3
    <3>2. tiers[m + 1].upTo \in Int
      BY <1>1, <2>1
    <3> QED
      BY <2>1, <3>1, <3>2
  <2> QED
    BY <2>2, <2>3
<1> HIDE DEF X
<1>4. 0 .. n - 1 \subseteq X
  BY <1>1, <1>2, <1>3, UpTo
<1>5. k \in X
  BY <1>1, <1>4
<1> QED
  BY <1>1, <1>5 DEF X

Reaches(tiers, k, q) == tiers[k].last \/ q <= tiers[k].upTo

\* Every quantity lands in a tier, the first that reaches it.
LEMMA LandsIn ==
    ASSUME NEW tiers, InOrder(tiers), NEW q \in Int
    PROVE  /\ Landing(tiers, q) \in 1 .. Len(tiers)
           /\ Reaches(tiers, Landing(tiers, q), q)
           /\ \A j \in 1 .. Landing(tiers, q) - 1 : ~Reaches(tiers, j, q)
<1> DEFINE X == {k \in 1 .. Len(tiers) : Reaches(tiers, k, q)}
<1>1. Len(tiers) \in Nat /\ Len(tiers) > 0 /\ DOMAIN tiers = 1 .. Len(tiers)
  BY TierFields DEF InOrder
<1>2. Len(tiers) \in X
  <2>1. Len(tiers) \in 1 .. Len(tiers)
    BY <1>1
  <2> QED
    BY <2>1 DEF InOrder, Reaches
<1>3. PICK m \in X : \A k \in X : m <= k
  <2>1. X \in SUBSET Nat /\ X # {}
    BY <1>2
  <2> HIDE DEF X
  <2> QED
    BY <2>1, LeastNatural
<1>4. /\ m \in DOMAIN tiers /\ Reaches(tiers, m, q)
      /\ \A j \in 1 .. m - 1 : ~Reaches(tiers, j, q)
  BY <1>1, <1>3
<1>5. \E k \in DOMAIN tiers : /\ tiers[k].last \/ q <= tiers[k].upTo
                              /\ \A j \in 1 .. k - 1 : ~(tiers[j].last \/ q <= tiers[j].upTo)
  BY <1>4 DEF Reaches
<1>6. LET k == Landing(tiers, q)
      IN  /\ k \in DOMAIN tiers
          /\ tiers[k].last \/ q <= tiers[k].upTo
          /\ \A j \in 1 .. k - 1 : ~(tiers[j].last \/ q <= tiers[j].upTo)
  BY <1>5 DEF Landing
<1> QED
  BY <1>1, <1>6 DEF Reaches

\* A unit is in the band it lands in, and in no other.
LEMMA OneBand ==
    ASSUME NEW tiers, InOrder(tiers), NEW u \in Nat \ {0}
    PROVE  BandsOf(tiers, u) = {Landing(tiers, u)}
<1> DEFINE n == Len(tiers)
           l == Landing(tiers, u)
<1>1. n \in Nat /\ DOMAIN tiers = 1 .. n /\ \A k \in 1 .. n : tiers[k].upTo \in Int
  BY TierFields DEF InOrder
<1>2. /\ l \in 1 .. n /\ Reaches(tiers, l, u)
      /\ \A j \in 1 .. l - 1 : ~Reaches(tiers, j, u)
  BY LandsIn
<1> HIDE DEF l
<1>3. l \in BandsOf(tiers, u)
  <2> SUFFICES ASSUME l > 1 PROVE u > tiers[l - 1].upTo
    BY <1>1, <1>2 DEF BandsOf, Reaches
  <2>1. l - 1 \in 1 .. l - 1 /\ l - 1 \in 1 .. n
    BY <1>1, <1>2
  <2> QED
    BY <1>1, <1>2, <2>1 DEF Reaches
<1>4. ASSUME NEW k \in BandsOf(tiers, u) PROVE k = l
  <2>1. k \in 1 .. n /\ Reaches(tiers, k, u) /\ (k > 1 => u > tiers[k - 1].upTo)
    BY <1>1 DEF BandsOf, Reaches
  <2>2. ~(k < l)
    BY <1>1, <1>2, <2>1
  <2>3. ASSUME l < k PROVE FALSE
    <3>1. l \in 1 .. n - 1 /\ k - 1 \in l .. n - 1 /\ k > 1
      BY <1>1, <1>2, <2>1, <2>3
    <3>2. tiers[l].upTo <= tiers[k - 1].upTo
      BY <3>1, BoundsClimb
    <3>3. ~tiers[l].last
      BY <1>1, <1>2, <3>1 DEF InOrder
    <3>4. u <= tiers[l].upTo
      BY <1>2, <3>3 DEF Reaches
    <3>5. tiers[l].upTo \in Int /\ tiers[k - 1].upTo \in Int
      BY <1>1, <3>1
    <3> QED
      BY <2>1, <3>1, <3>2, <3>4, <3>5
  <2> QED
    BY <1>1, <1>2, <2>1, <2>2, <2>3
<1> QED
  BY <1>3, <1>4 DEF l

-----------------------------------------------------------------------------
(***************************************************************************)
(* Outcomes that are not an error.                                         *)
(***************************************************************************)
LEMMA ChargeFields ==
    ASSUME NEW c \in ChargeType
    PROVE  /\ c.rate \in RateType /\ c.tiers \in Seq(TierType)
           /\ c.size \in Int /\ c.price \in Int /\ c.allowance \in Int
           /\ c.flatFee \in Int
<1>1. /\ c.rate \in RateType /\ c.tiers \in Seq(TierType)
      /\ c.size \in Int64 /\ c.price \in Int64 /\ c.allowance \in Int64
      /\ c.flatFee \in Int64
  BY DEF ChargeType
<1>2. \A z \in Int64 : z \in Int
  BY MaxIntAssumption DEF Int64, MinInt
<1> QED
  BY <1>1, <1>2

LEMMA Refusals ==
    /\ \A why : ~Fails(why).ok
    /\ \A tiers, rated, flat : ~TierError(tiers, rated, flat).ok
  BY DEF Fails, TierError

\* A charge that is rated passed the checks every model shares.
LEMMA RatedIs ==
    ASSUME NEW c, NEW q \in Int, c.flatFee \in Int, Rate(c, q).ok
    PROVE  /\ c.rounding \in Modes /\ ~(q < 0) /\ ~(c.allowance < 0) /\ c.flatFee \in Nat
           /\ Rate(c, q) = WithFlatFee(Usage(c, q), c.flatFee)
           /\ Usage(c, q).ok
<1>1. /\ c.rounding \in Modes /\ ~(q < 0) /\ ~(c.allowance < 0) /\ ~(c.flatFee < 0)
      /\ Rate(c, q) = WithFlatFee(Usage(c, q), c.flatFee)
  BY Refusals DEF Rate
<1>2. Usage(c, q).ok
  BY <1>1 DEF WithFlatFee
<1> QED
  BY <1>1, <1>2

LEMMA UsageIs ==
    ASSUME NEW c, NEW quant
    PROVE  /\ c.model = "per_unit" => Usage(c, quant) = RatePerUnit(c, Chargeable(c, quant))
           /\ c.model = "graduated" => Usage(c, quant) = RateGraduated(c, Chargeable(c, quant))
           /\ c.model = "volume" => Usage(c, quant) = RateVolume(c, Chargeable(c, quant))
           /\ c.model = "package" => Usage(c, quant) = RatePackage(c, Chargeable(c, quant))
           /\ c.model = "stairstep" => Usage(c, quant) = RateStairstep(c, Chargeable(c, quant))
           /\ Usage(c, quant).ok =>
                c.model \in {"per_unit", "graduated", "volume", "package", "stairstep"}
<1>1. CASE c.model = "per_unit"
  BY <1>1 DEF Usage
<1>2. CASE c.model = "graduated"
  BY <1>2 DEF Usage
<1>3. CASE c.model = "volume"
  BY <1>3 DEF Usage
<1>4. CASE c.model = "package"
  BY <1>4 DEF Usage
<1>5. CASE c.model = "stairstep"
  BY <1>5 DEF Usage
<1>6. CASE c.model \notin {"per_unit", "graduated", "volume", "package", "stairstep"}
  <2>1. Usage(c, quant) = Fails("ErrUnknownModel")
    BY <1>6 DEF Usage
  <2> QED
    BY <1>6, <2>1, Refusals
<1> QED
  BY <1>1, <1>2, <1>3, <1>4, <1>5, <1>6

LEMMA ChargeableNat ==
    ASSUME NEW c \in ChargeType, NEW q \in Int
    PROVE  Chargeable(c, q) \in Nat
<1>1. c.allowance \in Int
  BY ChargeFields
<1> QED
  BY <1>1 DEF Chargeable

\* A tiered charge that is rated has a schedule in order.
LEMMA TieredIsInOrder ==
    ASSUME NEW c \in ChargeType, NEW q \in Int, Rate(c, q).ok, c.model \in TieredModels
    PROVE  /\ InOrder(c.tiers)
           /\ \A k \in 1 .. Len(c.tiers) :
                /\ c.model # "stairstep" => ValidRate(c.tiers[k].rate)
                /\ c.model = "stairstep" => c.tiers[k].flat >= 0
<1>1. Usage(c, q).ok /\ c.tiers \in Seq(TierType)
  BY RatedIs, ChargeFields
<1>2. CASE c.model \in {"graduated", "volume"}
  <2>1. ValidTiers(c.tiers, TRUE, FALSE)
    BY <1>1, <1>2, UsageIs, Refusals DEF RateGraduated, RateVolume
  <2> QED
    BY <1>1, <1>2, <2>1, ValidIsInOrder
<1>3. CASE c.model = "stairstep"
  <2>1. ValidTiers(c.tiers, FALSE, TRUE)
    BY <1>1, <1>3, UsageIs, Refusals DEF RateStairstep
  <2> QED
    BY <1>1, <1>3, <2>1, ValidIsInOrder
<1> QED
  BY <1>2, <1>3 DEF TieredModels

\* The exact amount of units at a rate, and what it rounds to.
LEMMA ScaledIs ==
    ASSUME NEW units \in Nat, NEW rate \in RateType, ValidRate(rate)
    PROVE  ScaledAmount(units, rate).n \in Nat /\ ScaledAmount(units, rate).d \in Nat \ {0}
<1>1. rate.n \in Nat /\ rate.d \in Nat \ {0}
  BY DEF RateType, ValidRate
<1>2. \A x, y \in Nat : x * y \in Nat
  OBVIOUS
<1>3. units * rate.n * Scale \in Nat
  BY <1>1, <1>2, ScaleAssumption
<1> QED
  BY <1>1, <1>3 DEF ScaledAmount

LEMMA RoundRatNat ==
    ASSUME NEW mode \in Modes, NEW x, x.n \in Nat, x.d \in Nat \ {0}
    PROVE  RoundRat(mode, x) \in Nat
<1>1. x.n \div x.d \in Nat
  BY SMT
<1>2. RoundRat(mode, x) \in {x.n \div x.d, x.n \div x.d + 1}
  BY RoundIsNeighbour DEF RoundRat
<1> QED
  BY <1>1, <1>2

\* The fewest blocks that hold q units.
LEMMA BlocksHold ==
    ASSUME NEW q \in Nat, NEW size \in Nat \ {0}
    PROVE  /\ Blocks(q, size) \in Nat
           /\ q > 0 => Blocks(q, size) * size >= q /\ (Blocks(q, size) - 1) * size < q
<1> DEFINE a == q \div size
           r == q % size
<1>1. a \in Nat /\ r \in 0 .. size - 1 /\ q = size * a + r
  BY SMT
<1>2. Blocks(q, size) = IF r = 0 THEN a ELSE a + 1
  BY DEF Blocks
<1> HIDE DEF a, r
<1>3. a * size = size * a /\ (a - 1) * size = size * a - size /\ (a + 1) * size = size * a + size
  BY <1>1
<1>4. (a + 1) - 1 = a /\ size * a \in Nat
  BY <1>1
<1>5. CASE r = 0
  BY <1>1, <1>2, <1>3, <1>4, <1>5
<1>6. CASE r # 0
  BY <1>1, <1>2, <1>3, <1>4, <1>6
<1> QED
  BY <1>5, <1>6

\* The usage half of a charge that prices the quantity as a whole.
LEMMA UsageAsAWhole ==
    ASSUME NEW c \in ChargeType, NEW quant \in Int, Rate(c, quant).ok,
           NEW q \in Nat \ {0}, q = Chargeable(c, quant)
    PROVE  /\ c.model = "per_unit" =>
                \E amount \in Nat : /\ amount = RoundRat(c.rounding, ScaledAmount(q, c.rate))
                                    /\ ValidRate(c.rate)
                                    /\ Usage(c, quant) = OneLine(q, amount)
                                    /\ IsInt64(amount)
           /\ c.model = "volume" =>
                \E amount \in Nat :
                   /\ amount = RoundRat(c.rounding,
                                        ScaledAmount(q, c.tiers[Landing(c.tiers, q)].rate))
                   /\ Usage(c, quant) = OneLine(q, amount)
                   /\ IsInt64(amount)
           /\ c.model = "stairstep" =>
                \E amount \in Nat :
                   /\ amount = c.tiers[Landing(c.tiers, q)].flat
                   /\ Usage(c, quant) = OneLine(q, amount)
                   /\ IsInt64(amount)
           /\ c.model = "package" =>
                \E amount \in Nat :
                   /\ c.size \in Nat \ {0} /\ c.price \in Nat
                   /\ amount = Blocks(q, c.size) * c.price
                   /\ Usage(c, quant) = OneLine(Blocks(q, c.size), amount)
                   /\ IsInt64(amount)
<1>1. Usage(c, quant).ok /\ c.rounding \in Modes
  BY RatedIs, ChargeFields
<1>2. ASSUME NEW rate \in RateType, ValidRate(rate), RoundedLine(c, q, rate).ok
      PROVE  /\ RoundRat(c.rounding, ScaledAmount(q, rate)) \in Nat
             /\ IsInt64(RoundRat(c.rounding, ScaledAmount(q, rate)))
             /\ RoundedLine(c, q, rate)
                  = OneLine(q, RoundRat(c.rounding, ScaledAmount(q, rate)))
  <2>1. RoundRat(c.rounding, ScaledAmount(q, rate)) \in Nat
    BY <1>1, <1>2, ScaledIs, RoundRatNat
  <2> QED
    BY <1>2, <2>1, Refusals DEF RoundedLine
<1>3. ASSUME c.model = "per_unit"
      PROVE  /\ ValidRate(c.rate) /\ c.rate \in RateType /\ RoundedLine(c, q, c.rate).ok
             /\ Usage(c, quant) = RoundedLine(c, q, c.rate)
  BY <1>1, <1>3, UsageIs, Refusals, ChargeFields DEF RatePerUnit
<1>4. ASSUME c.model \in {"volume", "stairstep"}
      PROVE  /\ Landing(c.tiers, q) \in 1 .. Len(c.tiers) /\ c.tiers \in Seq(TierType)
             /\ c.tiers[Landing(c.tiers, q)].rate \in RateType
             /\ c.tiers[Landing(c.tiers, q)].flat \in Int64
             /\ c.model = "volume" => ValidRate(c.tiers[Landing(c.tiers, q)].rate)
             /\ c.model = "stairstep" => c.tiers[Landing(c.tiers, q)].flat >= 0
  <2>1. InOrder(c.tiers) /\ c.tiers \in Seq(TierType) /\ q \in Int
    BY <1>4, TieredIsInOrder, ChargeFields DEF TieredModels
  <2>2. Landing(c.tiers, q) \in 1 .. Len(c.tiers)
    BY <2>1, LandsIn
  <2> QED
    BY <1>4, <2>1, <2>2, TieredIsInOrder, TierFields DEF TieredModels
<1>5. ASSUME c.model = "volume"
      PROVE  LET rate == c.tiers[Landing(c.tiers, q)].rate
             IN  /\ Usage(c, quant) = RoundedLine(c, q, rate)
                 /\ RoundedLine(c, q, rate).ok
  BY <1>1, <1>5, UsageIs, Refusals DEF RateVolume
<1>6. ASSUME c.model = "stairstep"
      PROVE  Usage(c, quant) = OneLine(q, c.tiers[Landing(c.tiers, q)].flat)
  BY <1>1, <1>6, UsageIs, Refusals DEF RateStairstep
<1>7. ASSUME c.model = "package"
      PROVE  /\ ~(c.size <= 0) /\ ~(c.price < 0)
             /\ IsInt64(Blocks(q, c.size) * c.price)
             /\ Usage(c, quant) = OneLine(Blocks(q, c.size), Blocks(q, c.size) * c.price)
  BY <1>1, <1>7, UsageIs, Refusals DEF RatePackage
<1>8. ASSUME c.model = "package"
      PROVE  c.size \in Nat \ {0} /\ c.price \in Nat /\ Blocks(q, c.size) * c.price \in Nat
  <2>1. c.size \in Nat \ {0} /\ c.price \in Nat
    BY <1>7, <1>8, ChargeFields
  <2>2. Blocks(q, c.size) \in Nat
    BY <2>1, BlocksHold
  <2> QED
    BY <2>1, <2>2
<1>9. \A z \in Int64 : z \in Int /\ IsInt64(z)
  BY MaxIntAssumption DEF Int64, MinInt, IsInt64
<1>10. c.model = "stairstep" => c.tiers[Landing(c.tiers, q)].flat \in Nat
  BY <1>4, <1>9
<1> QED
  BY <1>2, <1>3, <1>4, <1>5, <1>6, <1>7, <1>8, <1>9, <1>10

\* The flat fee on top of one line.
FeeAdded(res, units, amount, fee) ==
    /\ res.total = amount + fee
    /\ res.lines[1] = [units |-> units, subtotal |-> amount]

LEMMA FeeOnOne ==
    ASSUME NEW units, NEW amount \in Int, NEW fee \in Int,
           NEW res, res = WithFlatFee(OneLine(units, amount), fee), res.ok
    PROVE  FeeAdded(res, units, amount, fee)
<1> DEFINE line == [units |-> units, subtotal |-> amount]
           more == [units |-> 0, subtotal |-> fee]
           one == OneLine(units, amount)
<1>1. one.ok /\ one.total = amount /\ one.lines = <<line>>
  BY DEF OneLine
<1>2. res = WithFlatFee(one, fee)
  OBVIOUS
<1> HIDE DEF line, more, one
<1>3. <<line>>[1] = line /\ Append(<<line>>, more)[1] = line
  OBVIOUS
<1>4. CASE fee = 0
  BY <1>1, <1>2, <1>3, <1>4 DEF WithFlatFee, line, FeeAdded
<1>5. CASE fee # 0
  <2>1. res = [ok |-> TRUE, total |-> one.total + fee, lines |-> Append(one.lines, more)]
    BY <1>1, <1>2, <1>5, Refusals DEF WithFlatFee, more
  <2> QED
    BY <1>1, <1>3, <2>1 DEF line, FeeAdded
<1> QED
  BY <1>4, <1>5

-----------------------------------------------------------------------------
(***************************************************************************)
(* Graduated pricing: the bands, their exact amounts and the apportioning. *)
(***************************************************************************)
\* Every band up to the one the quantity lands in has units, and the bands
\* below the last are full.
LEMMA UnitsAre ==
    ASSUME NEW tiers, InOrder(tiers), NEW q \in Nat \ {0}, NEW k \in 1 .. Landing(tiers, q)
    PROVE  /\ k < Landing(tiers, q) => UnitsIn(tiers, q, k)
                = tiers[k].upTo - (IF k = 1 THEN 0 ELSE tiers[k - 1].upTo)
           /\ k = Landing(tiers, q) => UnitsIn(tiers, q, k)
                = q - (IF k = 1 THEN 0 ELSE tiers[k - 1].upTo)
           /\ UnitsIn(tiers, q, k) \in Nat \ {0}
<1> DEFINE n == Len(tiers)
           l == Landing(tiers, q)
           lower == IF k = 1 THEN 0 ELSE tiers[k - 1].upTo
           upper == IF tiers[k].last \/ tiers[k].upTo > q THEN q ELSE tiers[k].upTo
<1>1. n \in Nat /\ \A j \in 1 .. n : tiers[j].upTo \in Int
  BY TierFields DEF InOrder
<1>2. /\ l \in 1 .. n /\ Reaches(tiers, l, q)
      /\ \A j \in 1 .. l - 1 : ~Reaches(tiers, j, q)
  BY LandsIn
<1>3. UnitsIn(tiers, q, k) = upper - lower
  BY DEF UnitsIn
<1> HIDE DEF l
<1>4. k \in 1 .. n /\ (k > 1 => k - 1 \in 1 .. n /\ k - 1 \in 1 .. l - 1)
  BY <1>1, <1>2 DEF l
<1>5. lower \in Nat /\ lower < q
  <2>1. CASE k = 1
    BY <2>1
  <2>2. CASE k > 1
    <3>1. tiers[k - 1].upTo \in Int /\ ~tiers[k - 1].last /\ ~(q <= tiers[k - 1].upTo)
      BY <1>1, <1>2, <1>4, <2>2 DEF Reaches
    <3>2. k - 1 \in 1 .. n - 1
      BY <1>1, <1>2, <1>4, <2>2
    <3>3. tiers[k - 1].upTo > 0
      BY <3>2 DEF InOrder
    <3> QED
      BY <2>2, <3>1, <3>3
  <2> QED
    BY <1>4, <2>1, <2>2
<1>6. CASE k < l
  <2>1. k \in 1 .. l - 1 /\ k \in 1 .. n - 1 /\ (k > 1 => k \in 2 .. n - 1)
    BY <1>1, <1>2, <1>4, <1>6
  <2>2. tiers[k].upTo \in Int /\ ~tiers[k].last /\ ~(q <= tiers[k].upTo)
    BY <1>1, <1>2, <1>4, <2>1 DEF Reaches
  <2>3. tiers[k].upTo > 0 /\ (k > 1 => tiers[k].upTo > tiers[k - 1].upTo)
    BY <2>1 DEF InOrder
  <2>4. upper = tiers[k].upTo
    BY <2>2
  <2>5. upper > lower /\ upper \in Int
    BY <1>4, <2>2, <2>3, <2>4
  <2> HIDE DEF upper, lower
  <2>6. upper - lower \in Nat \ {0}
    BY <1>5, <2>5
  <2> QED
    BY <1>3, <1>6, <2>4, <2>6 DEF l, lower
<1>7. CASE k = l
  <2>1. tiers[k].last \/ q <= tiers[k].upTo
    BY <1>2, <1>7 DEF Reaches
  <2>2. upper = q
    BY <1>1, <1>4, <2>1
  <2> HIDE DEF upper, lower
  <2>3. upper - lower \in Nat \ {0}
    BY <1>5, <2>2
  <2> QED
    BY <1>3, <1>7, <2>2, <2>3 DEF l, lower
<1> QED
  BY <1>2, <1>4, <1>6, <1>7 DEF l

Band(tiers, q, k) ==
    [units |-> UnitsIn(tiers, q, k),
     exact |-> ScaledAmount(UnitsIn(tiers, q, k), tiers[k].rate)]

\* The loop takes the bands in turn and leaves none out.
LEMMA BandsAre ==
    ASSUME NEW tiers, InOrder(tiers), NEW q \in Nat \ {0}
    PROVE  Bands(tiers, q) = [k \in 1 .. Landing(tiers, q) |-> Band(tiers, q, k)]
<1> DEFINE l == Landing(tiers, q)
           seq == [k \in 1 .. l |-> k]
           Body(f) == [s \in SUBSET (1 .. l) |->
                        IF s = {} THEN <<>>
                        ELSE LET units == UnitsIn(tiers, q, seq[Max(s)])
                             IN  IF units > 0
                                 THEN Append(f[s \ {Max(s)}],
                                        [units |-> units,
                                         exact |-> ScaledAmount(units, tiers[seq[Max(s)]].rate)])
                                 ELSE f[s \ {Max(s)}]]
           iter == CHOOSE f : f = Body(f)
           V == Seq({Band(tiers, q, k) : k \in 1 .. l})
           step == [x \in (1 .. l) \X V |-> Append(x[2], Band(tiers, q, x[1]))]
<1>1. DOMAIN seq = 1 .. l /\ \A k \in 1 .. l : seq[k] = k
  OBVIOUS
<1>2. Bands(tiers, q) = iter[1 .. l]
  BY <1>1 DEF Bands, FoldLeft, MapThenFoldSet
<1>3. l \in Nat
  <2>1. Len(tiers) \in Nat /\ q \in Int
    BY TierFields DEF InOrder
  <2>2. l \in 1 .. Len(tiers)
    BY <2>1, LandsIn
  <2> HIDE DEF l
  <2> QED
    BY <2>1, <2>2
<1>4. \A k \in 1 .. l : UnitsIn(tiers, q, k) > 0
  <2> SUFFICES ASSUME NEW k \in 1 .. l PROVE UnitsIn(tiers, q, k) > 0
    OBVIOUS
  <2>1. UnitsIn(tiers, q, k) \in Nat \ {0}
    BY UnitsAre
  <2> QED
    BY <2>1
<1> HIDE DEF l
<1>5. step \in [(1 .. l) \X V -> V] /\ <<>> \in V
  OBVIOUS
<1>6. PICK f \in [SUBSET (1 .. l) -> V] : FoldsBy(f, l, <<>>, step)
  <2> HIDE DEF step, V
  <2> QED
    BY <1>3, <1>5, FoldDefined
<1> HIDE DEF V
<1>7. f = Body(f)
  <2> SUFFICES ASSUME NEW s \in SUBSET (1 .. l), s # {}
               PROVE  f[s] = Append(f[s \ {Max(s)}], Band(tiers, q, Max(s)))
    BY <1>1, <1>3, <1>4, <1>6, MaxIn DEF FoldsBy, Band
  <2>1. Max(s) \in 1 .. l
    BY <1>3, MaxIn
  <2>2. <<Max(s), f[s \ {Max(s)}]>> \in (1 .. l) \X V
    BY <1>6, <2>1
  <2> QED
    BY <1>6, <2>2 DEF FoldsBy
<1>8. iter = Body(iter)
  <2> HIDE DEF Body
  <2> QED
    BY <1>7
<1> HIDE DEF iter, seq
<1>9. iter[1 .. 0] = <<>>
  <2>1. 1 .. 0 = {} /\ {} \in SUBSET (1 .. l)
    OBVIOUS
  <2> QED
    BY <1>8, <2>1
<1>10. ASSUME NEW k \in 1 .. l
       PROVE  iter[1 .. k] = Append(iter[1 .. k - 1], Band(tiers, q, k))
  <2>1. Max(1 .. k) = k
    BY <1>3, MaxOfPrefix
  <2>2. (1 .. k) \ {k} = 1 .. k - 1 /\ k \in 1 .. k
    BY <1>3
  <2>3. 1 .. k \in SUBSET (1 .. l)
    BY <1>3, PrefixIn
  <2>4. seq[k] = k /\ UnitsIn(tiers, q, k) > 0
    BY <1>1, <1>4
  <2> QED
    BY <1>8, <2>1, <2>2, <2>3, <2>4 DEF Band
<1> DEFINE X == {k \in 0 .. l : iter[1 .. k] = [j \in 1 .. k |-> Band(tiers, q, j)]}
<1>11. 0 \in X
  <2>1. [j \in 1 .. 0 |-> Band(tiers, q, j)] = <<>>
    OBVIOUS
  <2> QED
    BY <1>3, <1>9, <2>1
<1>12. ASSUME NEW k \in 0 .. l, k < l, k \in X PROVE k + 1 \in X
  <2>1. k + 1 \in 1 .. l /\ (k + 1) - 1 = k /\ k + 1 \in 0 .. l /\ k \in Nat
    BY <1>3, <1>12
  <2>2. iter[1 .. k + 1] = Append([j \in 1 .. k |-> Band(tiers, q, j)], Band(tiers, q, k + 1))
    BY <1>10, <1>12, <2>1
  <2>3. Append([j \in 1 .. k |-> Band(tiers, q, j)], Band(tiers, q, k + 1))
          = [j \in 1 .. k + 1 |-> Band(tiers, q, j)]
    BY <2>1
  <2> QED
    BY <2>1, <2>2, <2>3
<1> HIDE DEF X
<1>13. 0 .. l \subseteq X
  BY <1>3, <1>11, <1>12, UpTo
<1>14. l \in X
  BY <1>3, <1>13
<1> QED
  BY <1>2, <1>14 DEF X, l

\* An exact amount of the schedule is a fraction that is not negative.
Fractions == [n : Nat, d : Nat \ {0}]

LEMMA FractionsClosed ==
    /\ RatZero \in Fractions
    /\ \A x, y \in Fractions : RatPlus(x, y) \in Fractions
<1>1. ASSUME NEW x \in Fractions, NEW y \in Fractions PROVE RatPlus(x, y) \in Fractions
  <2>1. x.n \in Nat /\ y.n \in Nat /\ x.d \in Nat \ {0} /\ y.d \in Nat \ {0}
    BY DEF Fractions
  <2>2. \A a, b \in Nat : a * b \in Nat
    OBVIOUS
  <2>3. \A a, b \in Nat \ {0} : a * b \in Nat \ {0}
    OBVIOUS
  <2>4. x.n * y.d + y.n * x.d \in Nat /\ x.d * y.d \in Nat \ {0}
    BY <2>1, <2>2, <2>3
  <2> QED
    BY <2>4 DEF RatPlus, Fractions
<1> QED
  BY <1>1 DEF RatZero, Fractions

\* The running sums of exact amounts.
Running(p, n, exacts) ==
    /\ p \in [0 .. n -> Fractions]
    /\ p[0] = RatZero
    /\ \A k \in 1 .. n : p[k] = RatPlus(p[k - 1], exacts[k])
    /\ FoldLeft(RatPlus, RatZero, exacts) = p[n]

LEMMA RatSum ==
    ASSUME NEW n \in Nat, NEW exacts \in [1 .. n -> Fractions]
    PROVE  \E p : Running(p, n, exacts)
<1> DEFINE Body(f) == [s \in SUBSET (1 .. n) |->
                        IF s = {} THEN RatZero
                        ELSE RatPlus(f[s \ {Max(s)}], exacts[Max(s)])]
           iter == CHOOSE f : f = Body(f)
           step == [x \in (1 .. n) \X Fractions |-> RatPlus(x[2], exacts[x[1]])]
           p == [k \in 0 .. n |-> iter[1 .. k]]
<1>1. DOMAIN exacts = 1 .. n
  OBVIOUS
<1>2. FoldLeft(RatPlus, RatZero, exacts) = iter[1 .. n]
  BY <1>1 DEF FoldLeft, MapThenFoldSet
<1>3. step \in [(1 .. n) \X Fractions -> Fractions] /\ RatZero \in Fractions
  BY FractionsClosed
<1>4. PICK f \in [SUBSET (1 .. n) -> Fractions] : FoldsBy(f, n, RatZero, step)
  <2> HIDE DEF step
  <2> QED
    BY <1>3, FoldDefined
<1>5. f = Body(f)
  <2> SUFFICES ASSUME NEW s \in SUBSET (1 .. n), s # {}
               PROVE  f[s] = RatPlus(f[s \ {Max(s)}], exacts[Max(s)])
    BY <1>4 DEF FoldsBy
  <2>1. Max(s) \in 1 .. n
    BY MaxIn
  <2>2. <<Max(s), f[s \ {Max(s)}]>> \in (1 .. n) \X Fractions
    BY <2>1
  <2> QED
    BY <1>4, <2>2 DEF FoldsBy
<1>6. iter = Body(iter)
  <2> HIDE DEF Body
  <2> QED
    BY <1>5
<1> HIDE DEF iter
<1>7. \A k \in 1 .. n : iter[1 .. k] = RatPlus(iter[1 .. k - 1], exacts[k])
  <2> SUFFICES ASSUME NEW k \in 1 .. n
               PROVE  iter[1 .. k] = RatPlus(iter[1 .. k - 1], exacts[k])
    OBVIOUS
  <2>1. Max(1 .. k) = k
    BY MaxOfPrefix
  <2>2. (1 .. k) \ {k} = 1 .. k - 1
    OBVIOUS
  <2>3. 1 .. k \in SUBSET (1 .. n)
    BY PrefixIn
  <2>4. k \in 1 .. k
    OBVIOUS
  <2> QED
    BY <1>6, <2>1, <2>2, <2>3, <2>4
<1>8. iter[1 .. 0] = RatZero
  <2>1. 1 .. 0 = {} /\ {} \in SUBSET (1 .. n)
    OBVIOUS
  <2> QED
    BY <1>6, <2>1
<1>9. p[0] = RatZero /\ \A k \in 1 .. n : p[k] = RatPlus(p[k - 1], exacts[k])
  BY <1>7, <1>8
<1>10. p[n] = FoldLeft(RatPlus, RatZero, exacts)
  BY <1>2
<1> HIDE DEF p
<1>11. \A k \in 0 .. n : p[k] \in Fractions
  <2> DEFINE X == {k \in 0 .. n : p[k] \in Fractions}
  <2>1. 0 \in X
    BY <1>9, FractionsClosed
  <2>2. ASSUME NEW k \in 0 .. n, k < n, k \in X PROVE k + 1 \in X
    <3>1. k + 1 \in 1 .. n /\ (k + 1) - 1 = k /\ k + 1 \in 0 .. n
      BY <2>2
    <3>2. p[k] \in Fractions /\ exacts[k + 1] \in Fractions
      BY <2>2, <3>1
    <3>3. p[k + 1] = RatPlus(p[k], exacts[k + 1])
      BY <1>9, <3>1
    <3> QED
      BY <3>1, <3>2, <3>3, FractionsClosed
  <2> HIDE DEF X
  <2>3. 0 .. n \subseteq X
    BY <2>1, <2>2, UpTo
  <2> QED
    BY <2>3 DEF X
<1>12. p \in [0 .. n -> Fractions]
  BY <1>11 DEF p
<1> QED
  BY <1>9, <1>10, <1>12 DEF Running

LEMMA RatSumFraction ==
    ASSUME NEW n \in Nat, NEW exacts \in [1 .. n -> Fractions]
    PROVE  FoldLeft(RatPlus, RatZero, exacts) \in Fractions
<1>1. PICK p : Running(p, n, exacts)
  BY RatSum
<1>2. n \in 0 .. n
  OBVIOUS
<1> QED
  BY <1>1, <1>2 DEF Running

\* The product of denominators, by which exact amounts become weights.
LEMMA CommonDenominator ==
    ASSUME NEW n \in Nat, NEW exacts \in [1 .. n -> Fractions]
    PROVE  FoldLeft(LAMBDA x, e : x * e.d, 1, exacts) \in Nat \ {0}
<1> DEFINE Body(f) == [s \in SUBSET (1 .. n) |->
                        IF s = {} THEN 1 ELSE f[s \ {Max(s)}] * exacts[Max(s)].d]
           iter == CHOOSE f : f = Body(f)
           V == Nat \ {0}
           step == [x \in (1 .. n) \X V |-> x[2] * exacts[x[1]].d]
<1>1. DOMAIN exacts = 1 .. n
  OBVIOUS
<1>2. FoldLeft(LAMBDA x, e : x * e.d, 1, exacts) = iter[1 .. n]
  BY <1>1 DEF FoldLeft, MapThenFoldSet
<1>3. step \in [(1 .. n) \X V -> V] /\ 1 \in V
  <2>1. \A a, b \in V : a * b \in V
    OBVIOUS
  <2>2. \A k \in 1 .. n : exacts[k].d \in V
    BY DEF Fractions
  <2> QED
    BY <2>1, <2>2
<1>4. PICK f \in [SUBSET (1 .. n) -> V] : FoldsBy(f, n, 1, step)
  <2> HIDE DEF step, V
  <2> QED
    BY <1>3, FoldDefined
<1>5. f = Body(f)
  <2> SUFFICES ASSUME NEW s \in SUBSET (1 .. n), s # {}
               PROVE  f[s] = f[s \ {Max(s)}] * exacts[Max(s)].d
    BY <1>4 DEF FoldsBy
  <2>1. Max(s) \in 1 .. n
    BY MaxIn
  <2>2. <<Max(s), f[s \ {Max(s)}]>> \in (1 .. n) \X V
    BY <2>1
  <2> QED
    BY <1>4, <2>2 DEF FoldsBy
<1>6. iter = Body(iter)
  <2> HIDE DEF Body
  <2> QED
    BY <1>5
<1> HIDE DEF iter
<1>7. \A k \in 1 .. n : iter[1 .. k] = iter[1 .. k - 1] * exacts[k].d
  <2> SUFFICES ASSUME NEW k \in 1 .. n PROVE iter[1 .. k] = iter[1 .. k - 1] * exacts[k].d
    OBVIOUS
  <2>1. Max(1 .. k) = k
    BY MaxOfPrefix
  <2>2. (1 .. k) \ {k} = 1 .. k - 1 /\ k \in 1 .. k
    OBVIOUS
  <2>3. 1 .. k \in SUBSET (1 .. n)
    BY PrefixIn
  <2> QED
    BY <1>6, <2>1, <2>2, <2>3
<1>8. iter[1 .. 0] = 1
  <2>1. 1 .. 0 = {} /\ {} \in SUBSET (1 .. n)
    OBVIOUS
  <2> QED
    BY <1>6, <2>1
<1> DEFINE X == {k \in 0 .. n : iter[1 .. k] \in Nat \ {0}}
<1>9. 0 \in X
  BY <1>8
<1>10. ASSUME NEW k \in 0 .. n, k < n, k \in X PROVE k + 1 \in X
  <2>1. k + 1 \in 1 .. n /\ (k + 1) - 1 = k /\ k + 1 \in 0 .. n
    BY <1>10
  <2>2. exacts[k + 1].d \in Nat \ {0} /\ iter[1 .. k] \in Nat \ {0}
    BY <1>10, <2>1 DEF Fractions
  <2>3. iter[1 .. k + 1] = iter[1 .. k] * exacts[k + 1].d
    BY <1>7, <2>1
  <2>4. \A a, b \in Nat \ {0} : a * b \in Nat \ {0}
    OBVIOUS
  <2> QED
    BY <2>1, <2>2, <2>3, <2>4
<1> HIDE DEF X
<1>11. 0 .. n \subseteq X
  BY <1>9, <1>10, UpTo
<1>12. n \in 0 .. n
  OBVIOUS
<1>13. iter[1 .. n] \in Nat \ {0}
  BY <1>11, <1>12 DEF X
<1> QED
  BY <1>2, <1>13, Zenon

LEMMA WeightsAreNat ==
    ASSUME NEW n \in Nat, NEW exacts \in [1 .. n -> Fractions]
    PROVE  CommonWeights(exacts) \in [1 .. n -> Nat]
<1> DEFINE den == FoldLeft(LAMBDA x, e : x * e.d, 1, exacts)
<1>1. den \in Nat
  BY CommonDenominator
<1>2. CommonWeights(exacts) = [k \in 1 .. n |-> (exacts[k].n * den) \div exacts[k].d]
  BY DEF CommonWeights
<1> HIDE DEF den
<1>3. ASSUME NEW k \in 1 .. n PROVE (exacts[k].n * den) \div exacts[k].d \in Nat
  <2>1. exacts[k].n \in Nat /\ exacts[k].d \in Nat \ {0}
    BY DEF Fractions
  <2>2. exacts[k].n * den \in Nat
    BY <1>1, <2>1
  <2>3. \A a \in Nat, b \in Nat \ {0} : a \div b \in Nat
    OBVIOUS
  <2> QED
    BY <2>1, <2>2, <2>3
<1> QED
  BY <1>2, <1>3

Exacts(tiers, q) ==
    [k \in 1 .. Landing(tiers, q) |-> Band(tiers, q, k).exact]

\* What graduated pricing answers above the allowance.
GraduatedOf(c, q) ==
    LET n      == Landing(c.tiers, q)
        total  == RoundRat(c.rounding, FoldLeft(RatPlus, RatZero, Exacts(c.tiers, q)))
        shares == Apportion(total, CommonWeights(Exacts(c.tiers, q)))
    IN  [ok |-> TRUE, total |-> total,
         lines |-> [k \in 1 .. n |-> [units |-> UnitsIn(c.tiers, q, k), subtotal |-> shares[k]]]]

LEMMA UsageByBands ==
    ASSUME NEW c \in ChargeType, NEW quant \in Int, Rate(c, quant).ok, c.model = "graduated",
           NEW q \in Nat \ {0}, q = Chargeable(c, quant)
    PROVE  /\ InOrder(c.tiers)
           /\ Landing(c.tiers, q) \in Nat \ {0}
           /\ Exacts(c.tiers, q) \in [1 .. Landing(c.tiers, q) -> Fractions]
           /\ Usage(c, quant) = GraduatedOf(c, q)
           /\ GraduatedOf(c, q).total \in Nat /\ IsInt64(GraduatedOf(c, q).total)
<1> DEFINE n == Landing(c.tiers, q)
           exacts == Exacts(c.tiers, q)
           total == RoundRat(c.rounding, FoldLeft(RatPlus, RatZero, exacts))
<1>1. /\ Usage(c, quant).ok /\ c.rounding \in Modes /\ c.tiers \in Seq(TierType)
      /\ Usage(c, quant) = RateGraduated(c, q)
  BY RatedIs, ChargeFields, UsageIs
<1>2. /\ InOrder(c.tiers)
      /\ \A k \in 1 .. Len(c.tiers) : ValidRate(c.tiers[k].rate)
  BY TieredIsInOrder DEF TieredModels
<1>3. n \in Nat \ {0} /\ n \in 1 .. Len(c.tiers)
  <2>1. Len(c.tiers) \in Nat /\ q \in Int
    BY <1>1, TierFields
  <2>2. n \in 1 .. Len(c.tiers)
    BY <1>2, <2>1, LandsIn
  <2> HIDE DEF n
  <2> QED
    BY <2>1, <2>2
<1>4. Bands(c.tiers, q) = [k \in 1 .. n |-> Band(c.tiers, q, k)]
  BY <1>2, BandsAre
<1>5. exacts \in [1 .. n -> Fractions]
  <2> SUFFICES ASSUME NEW k \in 1 .. n PROVE Band(c.tiers, q, k).exact \in Fractions
    BY DEF Exacts
  <2>1. UnitsIn(c.tiers, q, k) \in Nat
    BY <1>2, UnitsAre
  <2>2. k \in 1 .. Len(c.tiers)
    <3> HIDE DEF n
    <3>1. Len(c.tiers) \in Nat
      BY <1>1, TierFields
    <3> QED
      BY <1>3, <3>1
  <2>3. c.tiers[k].rate \in RateType /\ ValidRate(c.tiers[k].rate)
    BY <1>1, <1>2, <2>2, TierFields
  <2> DEFINE e == ScaledAmount(UnitsIn(c.tiers, q, k), c.tiers[k].rate)
  <2>4. e.n \in Nat /\ e.d \in Nat \ {0}
    BY <2>1, <2>3, ScaledIs
  <2>5. e = [n |-> e.n, d |-> e.d]
    BY DEF ScaledAmount
  <2> HIDE DEF e
  <2>6. e \in Fractions
    BY <2>4, <2>5 DEF Fractions
  <2> QED
    BY <2>6 DEF Band, e
<1>6. FoldLeft(RatPlus, RatZero, exacts) \in Fractions
  <2> HIDE DEF exacts, n
  <2> QED
    BY <1>3, <1>5, RatSumFraction
<1>7. total \in Nat
  <2> DEFINE x == FoldLeft(RatPlus, RatZero, exacts)
  <2>1. x.n \in Nat /\ x.d \in Nat \ {0}
    <3> HIDE DEF x
    <3>1. x \in Fractions
      BY <1>6 DEF x
    <3> QED
      BY <3>1 DEF Fractions
  <2> HIDE DEF x
  <2>2. RoundRat(c.rounding, x) \in Nat
    BY <1>1, <2>1, RoundRatNat
  <2> QED
    BY <2>2 DEF x
<1>8. [k \in DOMAIN Bands(c.tiers, q) |-> Bands(c.tiers, q)[k].exact] = exacts
  BY <1>4 DEF Exacts
<1>9. RateGraduated(c, q)
        = IF ~IsInt64(total) THEN Fails("ErrOverflow")
          ELSE [ok |-> TRUE, total |-> total,
                lines |-> [k \in DOMAIN Bands(c.tiers, q) |->
                  [units |-> Bands(c.tiers, q)[k].units,
                   subtotal |-> Apportion(total, CommonWeights(exacts))[k]]]]
  <2>1. ValidTiers(c.tiers, TRUE, FALSE)
    BY <1>1, Refusals DEF RateGraduated
  <2> QED
    BY <1>8, <2>1 DEF RateGraduated
<1>10. IsInt64(total)
  BY <1>1, <1>9, Refusals
<1>11. [k \in DOMAIN Bands(c.tiers, q) |->
          [units |-> Bands(c.tiers, q)[k].units,
           subtotal |-> Apportion(total, CommonWeights(exacts))[k]]]
         = [k \in 1 .. n |-> [units |-> UnitsIn(c.tiers, q, k),
                              subtotal |-> Apportion(total, CommonWeights(exacts))[k]]]
  BY <1>4 DEF Band
<1>12. RateGraduated(c, q) = GraduatedOf(c, q) /\ GraduatedOf(c, q).total = total
  BY <1>9, <1>10, <1>11 DEF GraduatedOf
<1> QED
  BY <1>1, <1>2, <1>3, <1>5, <1>7, <1>10, <1>12

-----------------------------------------------------------------------------
(***************************************************************************)
(* Lines that add up.                                                      *)
(***************************************************************************)
Subtotals(lines) == [k \in DOMAIN lines |-> lines[k].subtotal]

LineType == [units : Int, subtotal : Nat]

AddsUp(res) ==
    /\ res.lines \in Seq(LineType)
    /\ res.total \in Nat /\ IsInt64(res.total)
    /\ SumOf(Subtotals(res.lines)) = res.total

LEMMA NothingAddsUp == AddsUp(Nothing)
<1>1. Nothing.lines = <<>> /\ Nothing.total = 0
  BY DEF Nothing
<1>2. Subtotals(<<>>) \in [1 .. 0 -> Int]
  BY DEF Subtotals
<1>3. SumOf(Subtotals(<<>>)) = 0
  BY <1>2, SumOfNone
<1>4. IsInt64(0)
  BY MaxIntAssumption DEF IsInt64, MinInt
<1> QED
  BY <1>1, <1>3, <1>4 DEF AddsUp

\* One more line, and its amount in the total.
LEMMA LineAdded ==
    ASSUME NEW lines \in Seq(LineType), NEW line \in LineType
    PROVE  /\ Append(lines, line) \in Seq(LineType)
           /\ SumOf(Subtotals(Append(lines, line))) = SumOf(Subtotals(lines)) + line.subtotal
<1> DEFINE n == Len(lines)
           s == Subtotals(Append(lines, line))
<1>1. n \in Nat /\ n + 1 \in Nat /\ n + 1 \in 1 .. n + 1 /\ (n + 1) - 1 = n
  OBVIOUS
<1>2. /\ Append(lines, line) \in Seq(LineType)
      /\ DOMAIN Append(lines, line) = 1 .. n + 1 /\ DOMAIN lines = 1 .. n
      /\ \A k \in 1 .. n : Append(lines, line)[k] = lines[k] /\ lines[k] \in LineType
      /\ Append(lines, line)[n + 1] = line
  OBVIOUS
<1>3. \A x \in LineType : x.subtotal \in Int
  BY DEF LineType
<1>4. s \in [1 .. n + 1 -> Int]
  <2> SUFFICES ASSUME NEW k \in 1 .. n + 1 PROVE Append(lines, line)[k].subtotal \in Int
    BY <1>2 DEF Subtotals
  <2>1. k \in 1 .. n \/ k = n + 1
    BY <1>1
  <2> QED
    BY <1>2, <1>3, <2>1
<1>5. s[n + 1] = line.subtotal /\ [j \in 1 .. n |-> s[j]] = Subtotals(lines)
  <2>1. \A j \in 1 .. n : j \in 1 .. n + 1
    BY <1>1
  <2> QED
    BY <1>1, <1>2, <2>1 DEF Subtotals
<1>6. [j \in 1 .. n + 1 |-> s[j]] = s
  BY <1>4
<1> HIDE DEF s, n
<1>7. SumOf([j \in 1 .. n + 1 |-> s[j]]) = SumOf([j \in 1 .. n |-> s[j]]) + s[n + 1]
  BY <1>1, <1>4, SumOfNext
<1> QED
  BY <1>2, <1>5, <1>6, <1>7 DEF s

LEMMA OneLineAddsUp ==
    ASSUME NEW units \in Int, NEW amount \in Nat, IsInt64(amount)
    PROVE  AddsUp(OneLine(units, amount))
<1> DEFINE line == [units |-> units, subtotal |-> amount]
<1>1. line \in LineType /\ line.subtotal = amount
  BY DEF LineType
<1>2. OneLine(units, amount).lines = <<line>> /\ OneLine(units, amount).total = amount
  BY DEF OneLine
<1> HIDE DEF line
<1>3. <<>> \in Seq(LineType) /\ Append(<<>>, line) = <<line>>
  OBVIOUS
<1>4. SumOf(Subtotals(<<>>)) = 0
  BY NothingAddsUp DEF AddsUp, Nothing
<1>5. <<line>> \in Seq(LineType) /\ SumOf(Subtotals(<<line>>)) = 0 + amount
  BY <1>1, <1>3, <1>4, LineAdded
<1> QED
  BY <1>2, <1>5 DEF AddsUp

LEMMA GraduatedAddsUp ==
    ASSUME NEW c \in ChargeType, NEW quant \in Int, Rate(c, quant).ok, c.model = "graduated",
           NEW q \in Nat \ {0}, q = Chargeable(c, quant)
    PROVE  AddsUp(GraduatedOf(c, q))
<1> DEFINE n == Landing(c.tiers, q)
           total == GraduatedOf(c, q).total
           shares == Apportion(total, CommonWeights(Exacts(c.tiers, q)))
           lines == [k \in 1 .. n |-> [units |-> UnitsIn(c.tiers, q, k), subtotal |-> shares[k]]]
<1>1. /\ InOrder(c.tiers) /\ n \in Nat \ {0}
      /\ Exacts(c.tiers, q) \in [1 .. n -> Fractions]
      /\ total \in Nat /\ IsInt64(total)
  BY UsageByBands
<1>2. GraduatedOf(c, q).lines = lines
  BY DEF GraduatedOf
<1> HIDE DEF n, total
<1>3. shares \in [1 .. n -> Nat] /\ SumOf(shares) = total
  <2>1. CommonWeights(Exacts(c.tiers, q)) \in [1 .. n -> Nat]
    BY <1>1, WeightsAreNat
  <2> QED
    BY <1>1, <2>1, ApportionOf
<1> HIDE DEF shares
<1>4. \A k \in 1 .. n : UnitsIn(c.tiers, q, k) \in Int
  BY <1>1, UnitsAre DEF n
<1>5. lines \in [1 .. n -> LineType]
  BY <1>3, <1>4 DEF LineType
<1>6. Subtotals(lines) = shares
  BY <1>3 DEF Subtotals
<1> HIDE DEF lines
<1>7. lines \in Seq(LineType)
  BY <1>1, <1>5
<1> QED
  BY <1>1, <1>2, <1>3, <1>6, <1>7 DEF AddsUp, total

LEMMA UsageAddsUp ==
    ASSUME NEW c \in ChargeType, NEW quant \in Int, Rate(c, quant).ok
    PROVE  AddsUp(Usage(c, quant))
<1> DEFINE q == Chargeable(c, quant)
<1>1. q \in Nat /\ Usage(c, quant).ok
  BY RatedIs, ChargeFields, ChargeableNat
<1>2. c.model \in {"per_unit", "graduated", "volume", "package", "stairstep"}
  BY <1>1, UsageIs
<1>3. CASE q = 0
  <2>1. Usage(c, quant) = Nothing
    <3>1. RatePerUnit(c, 0).ok => RatePerUnit(c, 0) = Nothing
      BY Refusals DEF RatePerUnit
    <3>2. RateGraduated(c, 0).ok => RateGraduated(c, 0) = Nothing
      BY Refusals DEF RateGraduated
    <3>3. RateVolume(c, 0).ok => RateVolume(c, 0) = Nothing
      BY Refusals DEF RateVolume
    <3>4. RatePackage(c, 0).ok => RatePackage(c, 0) = Nothing
      BY Refusals DEF RatePackage
    <3>5. RateStairstep(c, 0).ok => RateStairstep(c, 0) = Nothing
      BY Refusals DEF RateStairstep
    <3> QED
      BY <1>1, <1>2, <1>3, <3>1, <3>2, <3>3, <3>4, <3>5, UsageIs
  <2> QED
    BY <2>1, NothingAddsUp
<1>4. CASE q # 0 /\ c.model = "graduated"
  <2>1. q \in Nat \ {0}
    BY <1>1, <1>4
  <2>2. Usage(c, quant) = GraduatedOf(c, q) /\ AddsUp(GraduatedOf(c, q))
    BY <1>4, <2>1, UsageByBands, GraduatedAddsUp
  <2> QED
    BY <2>2
<1>5. CASE q # 0 /\ c.model \in {"per_unit", "volume", "stairstep"}
  <2>1. q \in Nat \ {0} /\ q \in Int
    BY <1>1, <1>5
  <2>2. \E amount \in Nat : Usage(c, quant) = OneLine(q, amount) /\ IsInt64(amount)
    <3> HIDE DEF q
    <3>1. q = Chargeable(c, quant)
      BY DEF q
    <3> QED
      BY <1>5, <2>1, <3>1, UsageAsAWhole
  <2> QED
    BY <2>1, <2>2, OneLineAddsUp
<1>6. CASE q # 0 /\ c.model = "package"
  <2>1. q \in Nat \ {0}
    BY <1>1, <1>6
  <2> HIDE DEF q
  <2>2. q = Chargeable(c, quant)
    BY DEF q
  <2>3. \E amount \in Nat : /\ c.size \in Nat \ {0} /\ IsInt64(amount)
                            /\ Usage(c, quant) = OneLine(Blocks(q, c.size), amount)
    BY <1>6, <2>1, <2>2, UsageAsAWhole
  <2>4. c.size \in Nat \ {0} /\ Blocks(q, c.size) \in Int
    BY <2>1, <2>3, BlocksHold
  <2> QED
    BY <2>3, <2>4, OneLineAddsUp
<1> QED
  BY <1>2, <1>3, <1>4, <1>5, <1>6

LEMMA RateAddsUp ==
    ASSUME NEW c \in ChargeType, NEW quant \in Int, Rate(c, quant).ok
    PROVE  AddsUp(Rate(c, quant))
<1> DEFINE use == Usage(c, quant)
           fee == c.flatFee
           more == [units |-> 0, subtotal |-> fee]
<1>1. Rate(c, quant) = WithFlatFee(use, fee) /\ fee \in Nat /\ use.ok
  BY RatedIs, ChargeFields
<1>2. AddsUp(use)
  BY UsageAddsUp
<1>3. more \in LineType /\ more.subtotal = fee
  BY <1>1 DEF LineType
<1> HIDE DEF use, fee, more
<1>4. CASE fee = 0
  BY <1>1, <1>2, <1>4 DEF WithFlatFee
<1>5. CASE fee # 0
  <2>1. /\ WithFlatFee(use, fee)
             = [ok |-> TRUE, total |-> use.total + fee, lines |-> Append(use.lines, more)]
        /\ IsInt64(use.total + fee)
    BY <1>1, <1>5, Refusals DEF WithFlatFee, more
  <2>2. use.total + fee \in Nat
    BY <1>1, <1>2 DEF AddsUp
  <2>3. /\ Append(use.lines, more) \in Seq(LineType)
        /\ SumOf(Subtotals(Append(use.lines, more))) = use.total + fee
    BY <1>2, <1>3, LineAdded DEF AddsUp
  <2> QED
    BY <1>1, <2>1, <2>2, <2>3 DEF AddsUp
<1> QED
  BY <1>4, <1>5

-----------------------------------------------------------------------------
(***************************************************************************)
(* Exact amounts as fractions: how they compare, whatever their terms.     *)
(***************************************************************************)
AtMost(x, y) == Times(x.n, y.d) <= Times(y.n, x.d)
Same(x, y) == Times(x.n, y.d) = Times(y.n, x.d)

LEMMA FractionIs ==
    ASSUME NEW x \in Fractions
    PROVE  x.n \in Nat /\ x.d \in Nat \ {0}
  BY DEF Fractions

LEMMA TimesNat ==
    /\ \A a, b \in Nat : Times(a, b) \in Nat /\ Times(a, b) = Times(b, a)
    /\ \A a, b \in Nat \ {0} : Times(a, b) \in Nat \ {0}
    /\ \A a, b, c \in Nat : Times(Times(a, b), c) = Times(a, Times(b, c))
    /\ \A a, b, c \in Nat : Times(a + b, c) = Times(a, c) + Times(b, c)
<1>1. \A a, b \in Nat : a * b \in Nat /\ a * b = b * a
  OBVIOUS
<1>2. \A a, b \in Nat \ {0} : a * b \in Nat \ {0}
  OBVIOUS
<1>3. \A a, b, c \in Nat : (a * b) * c = a * (b * c)
  OBVIOUS
<1>4. \A a, b, c \in Nat : (a + b) * c = a * c + b * c
  OBVIOUS
<1> QED
  BY <1>1, <1>2, <1>3, <1>4 DEF Times

LEMMA Cancel ==
    ASSUME NEW a \in Nat, NEW b \in Nat, NEW c \in Nat \ {0}
    PROVE  /\ Times(a, c) = Times(b, c) => a = b
           /\ a <= b => Times(a, c) <= Times(b, c)
<1>1. a < b => a * c < b * c
  BY SMT
<1>2. b < a => b * c < a * c
  BY SMT
<1>3. a <= b => a * c <= b * c
  BY SMT
<1>4. a * c \in Nat /\ b * c \in Nat
  OBVIOUS
<1> QED
  BY <1>1, <1>2, <1>3, <1>4 DEF Times

LEMMA RoundAtMost ==
    ASSUME NEW mode \in Modes, NEW x \in Fractions, NEW y \in Fractions, AtMost(x, y)
    PROVE  RoundRat(mode, x) <= RoundRat(mode, y)
<1> DEFINE a == x.n * y.d
           b == y.n * x.d
           d == x.d * y.d
<1>1. x.n \in Nat /\ x.d \in Nat \ {0} /\ y.n \in Nat /\ y.d \in Nat \ {0}
  BY FractionIs
<1>2. Round(mode, x.n, x.d) = Round(mode, a, d)
  BY <1>1, RoundReduced
<1>3. Round(mode, y.n, y.d) = Round(mode, b, y.d * x.d)
  BY <1>1, RoundReduced
<1>4. y.d * x.d = d
  BY <1>1
<1>5. a \in Int /\ b \in Int /\ d \in Nat \ {0} /\ a <= b
  <2>1. \A u \in Nat, v \in Nat : u * v \in Int
    OBVIOUS
  <2>2. \A u, v \in Nat \ {0} : u * v \in Nat \ {0}
    OBVIOUS
  <2> QED
    BY <1>1, <2>1, <2>2 DEF AtMost, Times
<1> HIDE DEF a, b, d
<1>6. Round(mode, a, d) <= Round(mode, b, d)
  BY <1>5, RoundMonotone
<1> QED
  BY <1>2, <1>3, <1>4, <1>6 DEF RoundRat

LEMMA RoundSame ==
    ASSUME NEW mode \in Modes, NEW x \in Fractions, NEW y \in Fractions, Same(x, y)
    PROVE  RoundRat(mode, x) = RoundRat(mode, y)
<1>1. x.n \in Nat /\ x.d \in Nat /\ y.n \in Nat /\ y.d \in Nat
  BY FractionIs
<1>2. AtMost(x, y) /\ AtMost(y, x)
  <2>1. Times(x.n, y.d) \in Nat
    BY <1>1, TimesNat
  <2>2. Times(x.n, y.d) = Times(y.n, x.d)
    BY DEF Same
  <2> QED
    BY <2>1, <2>2 DEF AtMost
<1>3. RoundRat(mode, x) \in Nat /\ RoundRat(mode, y) \in Nat
  BY FractionIs, RoundRatNat
<1> QED
  BY <1>2, <1>3, RoundAtMost

\* The same value in other terms is an equivalence, and addition respects it.
LEMMA SameIs ==
    /\ \A x \in Fractions : Same(x, x)
    /\ \A x, y \in Fractions : Same(x, y) => Same(y, x)
    /\ \A x, y, z \in Fractions : Same(x, y) /\ Same(y, z) => Same(x, z)
<1>1. ASSUME NEW x \in Fractions, NEW y \in Fractions, NEW z \in Fractions,
             Same(x, y), Same(y, z)
      PROVE  Same(x, z)
  <2>1. /\ x.n \in Nat /\ x.d \in Nat /\ y.n \in Nat /\ y.d \in Nat \ {0}
        /\ z.n \in Nat /\ z.d \in Nat
    BY FractionIs
  <2>2. (x.n * z.d) * y.d = (x.n * y.d) * z.d
    BY <2>1
  <2>3. (y.n * x.d) * z.d = (y.n * z.d) * x.d
    BY <2>1
  <2>4. (z.n * y.d) * x.d = (z.n * x.d) * y.d
    BY <2>1
  <2>5. x.n * y.d = y.n * x.d /\ y.n * z.d = z.n * y.d
    BY <1>1 DEF Same, Times
  <2>6. (x.n * z.d) * y.d = (z.n * x.d) * y.d
    BY <2>2, <2>3, <2>4, <2>5
  <2>7. x.n * z.d \in Nat /\ z.n * x.d \in Nat
    BY <2>1
  <2> DEFINE a == x.n * z.d
             b == z.n * x.d
  <2>8. a \in Nat /\ b \in Nat /\ Times(a, y.d) = Times(b, y.d)
    BY <2>6, <2>7 DEF Times
  <2> HIDE DEF a, b
  <2>9. a = b
    BY <2>1, <2>8, Cancel
  <2> QED
    BY <2>9 DEF Same, Times, a, b
<1> QED
  BY <1>1 DEF Same

LEMMA PlusSame ==
    ASSUME NEW x \in Fractions, NEW y \in Fractions, NEW z \in Fractions, Same(x, y)
    PROVE  /\ Same(RatPlus(x, z), RatPlus(y, z))
           /\ Same(RatPlus(z, x), RatPlus(z, y))
<1>1. /\ x.n \in Nat /\ x.d \in Nat /\ y.n \in Nat /\ y.d \in Nat
      /\ z.n \in Nat /\ z.d \in Nat
  BY FractionIs
<1>2. x.n * y.d = y.n * x.d
  BY DEF Same, Times
<1>3. (x.n * z.d + z.n * x.d) * (y.d * z.d)
        = (x.n * y.d) * (z.d * z.d) + (z.n * z.d) * (x.d * y.d)
  BY <1>1
<1>4. (y.n * z.d + z.n * y.d) * (x.d * z.d)
        = (y.n * x.d) * (z.d * z.d) + (z.n * z.d) * (x.d * y.d)
  BY <1>1
<1>5. (z.n * x.d + x.n * z.d) * (z.d * y.d)
        = (x.n * y.d) * (z.d * z.d) + (z.n * z.d) * (x.d * y.d)
  BY <1>1
<1>6. (z.n * y.d + y.n * z.d) * (z.d * x.d)
        = (y.n * x.d) * (z.d * z.d) + (z.n * z.d) * (x.d * y.d)
  BY <1>1
<1>7. (x.n * z.d + z.n * x.d) * (y.d * z.d) = (y.n * z.d + z.n * y.d) * (x.d * z.d)
  BY <1>2, <1>3, <1>4, Zenon
<1>8. (z.n * x.d + x.n * z.d) * (z.d * y.d) = (z.n * y.d + y.n * z.d) * (z.d * x.d)
  BY <1>2, <1>5, <1>6, Zenon
<1> QED
  BY <1>7, <1>8 DEF Same, Times, RatPlus

LEMMA PlusInTurn ==
    ASSUME NEW x \in Fractions, NEW y \in Fractions, NEW z \in Fractions
    PROVE  RatPlus(RatPlus(x, y), z) = RatPlus(x, RatPlus(y, z))
<1>1. /\ x.n \in Nat /\ x.d \in Nat /\ y.n \in Nat /\ y.d \in Nat
      /\ z.n \in Nat /\ z.d \in Nat
  BY FractionIs
<1>2. (x.n * y.d + y.n * x.d) * z.d + z.n * (x.d * y.d)
        = x.n * (y.d * z.d) + (y.n * z.d + z.n * y.d) * x.d
  BY <1>1
<1>3. (x.d * y.d) * z.d = x.d * (y.d * z.d)
  BY <1>1
<1> QED
  BY <1>2, <1>3 DEF RatPlus

LEMMA PlusIsMore ==
    ASSUME NEW x \in Fractions, NEW y \in Fractions
    PROVE  AtMost(x, RatPlus(x, y))
<1>1. x.n \in Nat /\ x.d \in Nat /\ y.n \in Nat /\ y.d \in Nat
  BY FractionIs
<1>2. (x.n * y.d + y.n * x.d) * x.d = x.n * (x.d * y.d) + y.n * (x.d * x.d)
  BY <1>1
<1>3. \A a, b \in Nat : a * b \in Nat
  OBVIOUS
<1>4. y.n * (x.d * x.d) \in Nat /\ x.n * (x.d * y.d) \in Nat
  BY <1>1, <1>3
<1>5. x.n * (x.d * y.d) <= (x.n * y.d + y.n * x.d) * x.d
  BY <1>2, <1>4
<1> QED
  BY <1>5 DEF AtMost, Times, RatPlus

\* A unit more at a rate, and nothing at one.
LEMMA ScaledNext ==
    ASSUME NEW units \in Nat, NEW rate \in RateType, ValidRate(rate)
    PROVE  /\ ScaledAmount(units, rate) \in Fractions
           /\ Same(ScaledAmount(units + 1, rate),
                   RatPlus(ScaledAmount(units, rate), ScaledAmount(1, rate)))
<1> DEFINE e == ScaledAmount(units, rate)
<1>1. rate.n \in Nat /\ rate.d \in Nat \ {0}
  BY DEF RateType, ValidRate
<1>2. e.n \in Nat /\ e.d \in Nat \ {0} /\ e = [n |-> e.n, d |-> e.d]
  BY ScaledIs DEF ScaledAmount
<1>3. e \in Fractions
  <2> HIDE DEF e
  <2> QED
    BY <1>2 DEF Fractions
<1> DEFINE s == rate.n * Scale
           d == rate.d
<1>4. s \in Nat /\ d \in Nat
  BY <1>1, ScaleAssumption
<1>5. \A k \in Nat : k * rate.n * Scale = k * s
  BY <1>1, ScaleAssumption
<1> HIDE DEF s, d
<1>6. ((units + 1) * s) * (d * d) = ((units * s) * d + (1 * s) * d) * d
  BY <1>4
<1>7. \A k \in Nat : ScaledAmount(k, rate) = [n |-> k * s, d |-> d]
  BY <1>5 DEF ScaledAmount, d
<1>8. units + 1 \in Nat /\ 1 \in Nat
  OBVIOUS
<1>9. /\ ScaledAmount(units + 1, rate) = [n |-> (units + 1) * s, d |-> d]
      /\ ScaledAmount(units, rate) = [n |-> units * s, d |-> d]
      /\ ScaledAmount(1, rate) = [n |-> 1 * s, d |-> d]
  BY <1>7, <1>8
<1>10. RatPlus(ScaledAmount(units, rate), ScaledAmount(1, rate))
         = [n |-> (units * s) * d + (1 * s) * d, d |-> d * d]
  BY <1>9 DEF RatPlus
<1> QED
  BY <1>3, <1>6, <1>9, <1>10 DEF Same, Times

-----------------------------------------------------------------------------
(***************************************************************************)
(* One unit more, band by band and unit by unit.                           *)
(***************************************************************************)
Rated(tiers) ==
    /\ InOrder(tiers)
    /\ \A k \in 1 .. Len(tiers) : ValidRate(tiers[k].rate)

\* The exact amount of a quantity, by the bands of the schedule.
BandSum(tiers, q) ==
    IF q = 0 THEN RatZero ELSE FoldLeft(RatPlus, RatZero, Exacts(tiers, q))

\* The first tier that reaches a quantity is the only one that is first.
LEMMA LandingFirst ==
    ASSUME NEW tiers, InOrder(tiers), NEW q \in Int, NEW k \in 1 .. Len(tiers),
           Reaches(tiers, k, q), \A j \in 1 .. k - 1 : ~Reaches(tiers, j, q)
    PROVE  Landing(tiers, q) = k
<1> DEFINE l == Landing(tiers, q)
<1>1. /\ l \in 1 .. Len(tiers) /\ Reaches(tiers, l, q)
      /\ \A j \in 1 .. l - 1 : ~Reaches(tiers, j, q)
  BY LandsIn
<1> HIDE DEF l
<1>2. l \in Nat /\ k \in Nat /\ l >= 1 /\ k >= 1
  <2>1. Len(tiers) \in Nat
    BY TierFields DEF InOrder
  <2> QED
    BY <1>1, <2>1
<1>3. ~(l < k)
  <2>1. l < k => l \in 1 .. k - 1
    BY <1>2
  <2> QED
    BY <1>1, <2>1
<1>4. ~(k < l)
  <2>1. k < l => k \in 1 .. l - 1
    BY <1>2
  <2> QED
    BY <1>1, <2>1
<1> QED
  BY <1>2, <1>3, <1>4 DEF l

\* The unit after the last of a band is in the next one.
LEMMA LandingNext ==
    ASSUME NEW tiers, InOrder(tiers), NEW q \in Nat \ {0}
    PROVE  \/ Landing(tiers, q + 1) = Landing(tiers, q)
           \/ /\ Landing(tiers, q + 1) = Landing(tiers, q) + 1
              /\ tiers[Landing(tiers, q)].upTo = q
<1> DEFINE n == Len(tiers)
           l == Landing(tiers, q)
<1>1. n \in Nat /\ \A k \in 1 .. n : tiers[k].upTo \in Int
  BY TierFields DEF InOrder
<1>2. /\ l \in 1 .. n /\ Reaches(tiers, l, q)
      /\ \A j \in 1 .. l - 1 : ~Reaches(tiers, j, q)
  BY LandsIn
<1> HIDE DEF l
<1>3. q + 1 \in Int /\ l \in Nat
  BY <1>1, <1>2
<1>4. \A j \in 1 .. l - 1 : ~Reaches(tiers, j, q + 1)
  <2> SUFFICES ASSUME NEW j \in 1 .. l - 1 PROVE ~Reaches(tiers, j, q + 1)
    OBVIOUS
  <2>1. j \in 1 .. n
    BY <1>1, <1>2
  <2>2. ~tiers[j].last /\ ~(q <= tiers[j].upTo) /\ tiers[j].upTo \in Int
    BY <1>1, <1>2, <2>1 DEF Reaches
  <2> QED
    BY <2>2 DEF Reaches
<1>5. CASE Reaches(tiers, l, q + 1)
  BY <1>2, <1>3, <1>4, <1>5, LandingFirst DEF l
<1>6. CASE ~Reaches(tiers, l, q + 1)
  <2>1. ~tiers[l].last /\ q <= tiers[l].upTo /\ ~(q + 1 <= tiers[l].upTo) /\ tiers[l].upTo \in Int
    BY <1>1, <1>2, <1>6 DEF Reaches
  <2>2. tiers[l].upTo = q
    BY <2>1
  <2>3. l # n
    BY <1>2, <2>1 DEF InOrder
  <2>4. l + 1 \in 1 .. n /\ (l + 1) - 1 = l
    BY <1>1, <1>2, <2>3
  <2>5. Reaches(tiers, l + 1, q + 1)
    <3>1. CASE l + 1 = n
      <4>1. tiers[l + 1].last
        BY <2>4, <3>1 DEF InOrder
      <4> QED
        BY <4>1 DEF Reaches
    <3>2. CASE l + 1 # n
      <4>1. l + 1 \in 2 .. n - 1
        BY <1>1, <1>2, <2>4, <3>2
      <4>2. tiers[l + 1].upTo > tiers[l].upTo
        BY <2>4, <4>1 DEF InOrder
      <4>3. tiers[l + 1].upTo \in Int
        BY <1>1, <2>4
      <4> QED
        BY <2>2, <4>2, <4>3 DEF Reaches
    <3> QED
      BY <3>1, <3>2
  <2>6. \A j \in 1 .. (l + 1) - 1 : ~Reaches(tiers, j, q + 1)
    <3> SUFFICES ASSUME NEW j \in 1 .. l PROVE ~Reaches(tiers, j, q + 1)
      BY <2>4
    <3>1. j \in 1 .. l - 1 \/ j = l
      BY <1>3
    <3> QED
      BY <1>4, <1>6, <3>1
  <2>7. Landing(tiers, q + 1) = l + 1
    BY <1>3, <2>4, <2>5, <2>6, LandingFirst
  <2> QED
    BY <2>2, <2>7 DEF l
<1> QED
  BY <1>5, <1>6

LEMMA ExactsAre ==
    ASSUME NEW tiers, Rated(tiers), NEW q \in Nat \ {0}
    PROVE  /\ Landing(tiers, q) \in 1 .. Len(tiers) /\ Len(tiers) \in Nat
           /\ Exacts(tiers, q) \in [1 .. Landing(tiers, q) -> Fractions]
           /\ \A k \in 1 .. Landing(tiers, q) :
                /\ Exacts(tiers, q)[k] = ScaledAmount(UnitsIn(tiers, q, k), tiers[k].rate)
                /\ UnitsIn(tiers, q, k) \in Nat
<1> DEFINE l == Landing(tiers, q)
<1>1. Len(tiers) \in Nat /\ InOrder(tiers) /\ q \in Int
  BY TierFields DEF Rated, InOrder
<1>2. l \in 1 .. Len(tiers)
  BY <1>1, LandsIn
<1>3. \A k \in 1 .. l : UnitsIn(tiers, q, k) \in Nat
  BY <1>1, UnitsAre
<1> HIDE DEF l
<1>4. ASSUME NEW k \in 1 .. l
      PROVE  ScaledAmount(UnitsIn(tiers, q, k), tiers[k].rate) \in Fractions
  <2>1. k \in 1 .. Len(tiers)
    BY <1>1, <1>2
  <2>2. tiers[k].rate \in RateType /\ ValidRate(tiers[k].rate)
    BY <1>1, <2>1, TierFields DEF Rated, InOrder
  <2> QED
    BY <1>3, <2>2, ScaledNext
<1>5. Exacts(tiers, q) = [k \in 1 .. l |-> ScaledAmount(UnitsIn(tiers, q, k), tiers[k].rate)]
  BY DEF Exacts, Band, l
<1> QED
  BY <1>1, <1>2, <1>3, <1>4, <1>5 DEF l

\* Running sums of the same amounts are the same.
LEMMA RunningAgree ==
    ASSUME NEW n \in Nat, NEW m \in Nat, NEW p, NEW r, NEW e, NEW g,
           Running(p, n, e), Running(r, m, g),
           NEW k \in 0 .. n, k <= m, \A j \in 1 .. k : e[j] = g[j]
    PROVE  p[k] = r[k]
<1> DEFINE X == {j \in 0 .. k : p[j] = r[j]}
<1>1. k \in Nat /\ 0 \in X
  BY DEF Running
<1>2. ASSUME NEW j \in 0 .. k, j < k, j \in X PROVE j + 1 \in X
  <2>1. /\ j + 1 \in 1 .. n /\ j + 1 \in 1 .. m /\ j + 1 \in 1 .. k /\ (j + 1) - 1 = j
        /\ j + 1 \in 0 .. k
    BY <1>1, <1>2
  <2>2. p[j + 1] = RatPlus(p[j], e[j + 1]) /\ r[j + 1] = RatPlus(r[j], g[j + 1])
    BY <2>1 DEF Running
  <2> QED
    BY <1>2, <2>1, <2>2
<1> HIDE DEF X
<1>3. 0 .. k \subseteq X
  BY <1>1, <1>2, UpTo
<1>4. k \in X
  BY <1>1, <1>3
<1> QED
  BY <1>4 DEF X

LEMMA BandSumFraction ==
    ASSUME NEW tiers, Rated(tiers), NEW q \in Nat
    PROVE  BandSum(tiers, q) \in Fractions
<1>1. CASE q = 0
  BY <1>1, FractionsClosed DEF BandSum
<1>2. CASE q # 0
  <2> DEFINE l == Landing(tiers, q)
             e == Exacts(tiers, q)
  <2>1. l \in Nat /\ e \in [1 .. l -> Fractions]
    <3>1. l \in 1 .. Len(tiers) /\ Len(tiers) \in Nat /\ e \in [1 .. l -> Fractions]
      BY <1>2, ExactsAre
    <3> HIDE DEF l, e
    <3> QED
      BY <3>1
  <2> HIDE DEF l, e
  <2>2. FoldLeft(RatPlus, RatZero, e) \in Fractions
    BY <2>1, RatSumFraction
  <2> QED
    BY <1>2, <2>2 DEF BandSum, e
<1> QED
  BY <1>1, <1>2

\* One unit more is charged at the rate of the band it lands in.
LEMMA BandSumNext ==
    ASSUME NEW tiers, Rated(tiers), NEW q \in Nat
    PROVE  Same(BandSum(tiers, q + 1),
                RatPlus(BandSum(tiers, q),
                        ScaledAmount(1, tiers[Landing(tiers, q + 1)].rate)))
<1> DEFINE l == Landing(tiers, q)
           m == Landing(tiers, q + 1)
           e == Exacts(tiers, q)
           g == Exacts(tiers, q + 1)
           last == ScaledAmount(1, tiers[m].rate)
<1>1. InOrder(tiers) /\ q + 1 \in Nat \ {0} /\ q + 1 \in Int
  BY DEF Rated
<1>2. /\ m \in 1 .. Len(tiers) /\ Len(tiers) \in Nat /\ g \in [1 .. m -> Fractions]
      /\ \A k \in 1 .. m : /\ g[k] = ScaledAmount(UnitsIn(tiers, q + 1, k), tiers[k].rate)
                           /\ UnitsIn(tiers, q + 1, k) \in Nat
  BY <1>1, ExactsAre
<1>3. \A k \in 1 .. Len(tiers) : tiers[k].rate \in RateType /\ ValidRate(tiers[k].rate)
  BY <1>1, TierFields DEF Rated, InOrder
<1>4. BandSum(tiers, q + 1) = FoldLeft(RatPlus, RatZero, g)
  BY <1>1 DEF BandSum
<1>5. \A k \in 1 .. m :
        /\ k < m => UnitsIn(tiers, q + 1, k)
                      = tiers[k].upTo - (IF k = 1 THEN 0 ELSE tiers[k - 1].upTo)
        /\ k = m => UnitsIn(tiers, q + 1, k)
                      = (q + 1) - (IF k = 1 THEN 0 ELSE tiers[k - 1].upTo)
  BY <1>1, UnitsAre
<1>6. last \in Fractions /\ BandSum(tiers, q) \in Fractions
  BY <1>2, <1>3, ScaledNext, BandSumFraction
<1>7. RatPlus(BandSum(tiers, q), last) \in Fractions
  BY <1>6, FractionsClosed
<1>8. q > 0 => \/ m = l
               \/ m = l + 1 /\ tiers[l].upTo = q
  BY <1>1, LandingNext
<1>9. ASSUME q > 0
      PROVE  /\ l \in 1 .. Len(tiers) /\ e \in [1 .. l -> Fractions]
             /\ \A k \in 1 .. l : /\ e[k] = ScaledAmount(UnitsIn(tiers, q, k), tiers[k].rate)
                                  /\ UnitsIn(tiers, q, k) \in Nat
             /\ BandSum(tiers, q) = FoldLeft(RatPlus, RatZero, e)
             /\ \A k \in 1 .. l :
                  /\ k < l => UnitsIn(tiers, q, k)
                                = tiers[k].upTo - (IF k = 1 THEN 0 ELSE tiers[k - 1].upTo)
                  /\ k = l => UnitsIn(tiers, q, k)
                                = q - (IF k = 1 THEN 0 ELSE tiers[k - 1].upTo)
  <2>1. q \in Nat \ {0} /\ q # 0
    BY <1>9
  <2>2. /\ l \in 1 .. Len(tiers) /\ e \in [1 .. l -> Fractions]
        /\ \A k \in 1 .. l : /\ e[k] = ScaledAmount(UnitsIn(tiers, q, k), tiers[k].rate)
                             /\ UnitsIn(tiers, q, k) \in Nat
    BY <2>1, ExactsAre
  <2>3. BandSum(tiers, q) = FoldLeft(RatPlus, RatZero, e)
    BY <2>1 DEF BandSum
  <2>4. \A k \in 1 .. l :
          /\ k < l => UnitsIn(tiers, q, k)
                        = tiers[k].upTo - (IF k = 1 THEN 0 ELSE tiers[k - 1].upTo)
          /\ k = l => UnitsIn(tiers, q, k)
                        = q - (IF k = 1 THEN 0 ELSE tiers[k - 1].upTo)
    BY <1>1, <2>1, UnitsAre
  <2> HIDE DEF l, e
  <2> QED
    BY <2>2, <2>3, <2>4
<1> HIDE DEF l, m, e, g
<1>10. m \in Nat /\ m > 0 /\ m - 1 \in Nat /\ m \in 1 .. m /\ m \in 0 .. m /\ m - 1 \in 0 .. m
  BY <1>2
<1>11. PICK r : Running(r, m, g)
  BY <1>2, <1>10, RatSum
<1>12. r[m] = RatPlus(r[m - 1], g[m]) /\ BandSum(tiers, q + 1) = r[m] /\ r[m - 1] \in Fractions
  BY <1>4, <1>10, <1>11 DEF Running
<1>13. CASE q = 0
  <2>1. m = 1
    <3>1. Len(tiers) \in Nat /\ 1 \in 1 .. Len(tiers)
      BY <1>2
    <3>2. Reaches(tiers, 1, 1)
      <4>1. CASE Len(tiers) = 1
        BY <1>1, <3>1, <4>1 DEF InOrder, Reaches
      <4>2. CASE Len(tiers) # 1
        <5>1. 1 \in 1 .. Len(tiers) - 1
          <6> DEFINE n == Len(tiers)
          <6>1. n \in Nat /\ 1 \in 1 .. n /\ n # 1
            BY <3>1, <4>2
          <6> HIDE DEF n
          <6>2. 1 \in 1 .. n - 1
            BY <6>1
          <6> QED
            BY <6>2 DEF n
        <5>2. tiers[1].upTo > 0 /\ tiers[1].upTo \in Int
          BY <1>1, <3>1, <5>1, TierFields DEF InOrder
        <5> QED
          BY <5>2 DEF Reaches
      <4> QED
        BY <4>1, <4>2
    <3>3. \A j \in 1 .. 1 - 1 : ~Reaches(tiers, j, 1)
      OBVIOUS
    <3>4. Landing(tiers, 1) = 1
      BY <1>1, <3>1, <3>2, <3>3, LandingFirst
    <3> QED
      BY <1>13, <3>4 DEF m
  <2>2. UnitsIn(tiers, q + 1, m) = 1
    BY <1>5, <1>13, <2>1
  <2>3. g[m] = last /\ r[m - 1] = BandSum(tiers, q)
    <3>1. r[0] = RatZero
      BY <1>11 DEF Running
    <3> QED
      BY <1>2, <1>10, <1>13, <2>1, <2>2, <3>1 DEF BandSum
  <2>4. BandSum(tiers, q + 1) = RatPlus(BandSum(tiers, q), last)
    BY <1>12, <2>3
  <2> QED
    BY <1>7, <2>4, SameIs DEF m
<1>14. CASE q > 0
  <2>1. l \in Nat /\ l > 0 /\ l - 1 \in Nat /\ l \in 1 .. l /\ l \in 0 .. l /\ l - 1 \in 0 .. l
    BY <1>2, <1>9, <1>14
  <2>2. PICK p : Running(p, l, e)
    BY <1>9, <1>14, <2>1, RatSum
  <2>3. p[l] = RatPlus(p[l - 1], e[l]) /\ BandSum(tiers, q) = p[l] /\ p[l - 1] \in Fractions
    BY <1>9, <1>14, <2>1, <2>2 DEF Running
  <2>4. ASSUME m = l PROVE Same(BandSum(tiers, q + 1), RatPlus(BandSum(tiers, q), last))
    <3>1. \A k \in 1 .. l - 1 : e[k] = g[k]
      <4> SUFFICES ASSUME NEW k \in 1 .. l - 1 PROVE e[k] = g[k]
        OBVIOUS
      <4>1. k \in 1 .. l /\ k < l /\ k \in 1 .. m /\ k < m
        BY <2>1, <2>4
      <4>2. UnitsIn(tiers, q, k) = UnitsIn(tiers, q + 1, k)
        BY <1>5, <1>9, <1>14, <4>1
      <4> QED
        BY <1>2, <1>9, <1>14, <4>1, <4>2
    <3>2. p[l - 1] = r[m - 1]
      <4>1. l - 1 \in 0 .. l /\ l - 1 <= m
        BY <1>10, <2>1, <2>4
      <4> QED
        BY <1>10, <1>11, <2>1, <2>2, <2>4, <3>1, <4>1, RunningAgree
    <3> DEFINE u == UnitsIn(tiers, q, l)
               rate == tiers[l].rate
    <3>3. UnitsIn(tiers, q + 1, m) = u + 1 /\ u \in Nat
      <4> DEFINE lower == IF l = 1 THEN 0 ELSE tiers[l - 1].upTo
      <4>1. lower \in Int
        <5>1. l > 1 => l - 1 \in 1 .. Len(tiers)
          BY <1>2, <1>9, <1>14, <2>1
        <5> QED
          BY <1>1, <2>1, <5>1, TierFields DEF InOrder
      <4>2. u = q - lower /\ UnitsIn(tiers, q + 1, m) = (q + 1) - lower /\ u \in Nat
        BY <1>5, <1>9, <1>10, <1>14, <2>1, <2>4
      <4> HIDE DEF lower, u
      <4> QED
        BY <4>1, <4>2
    <3>4. rate \in RateType /\ ValidRate(rate) /\ last = ScaledAmount(1, rate)
      BY <1>3, <1>9, <1>14, <2>4
    <3>5. e[l] = ScaledAmount(u, rate) /\ g[m] = ScaledAmount(u + 1, rate)
      BY <1>2, <1>9, <1>10, <1>14, <2>1, <2>4, <3>3
    <3> HIDE DEF u, rate, last
    <3>6. /\ e[l] \in Fractions /\ g[m] \in Fractions
          /\ Same(g[m], RatPlus(e[l], last))
      <4>1. u + 1 \in Nat
        BY <3>3
      <4> QED
        BY <3>3, <3>4, <3>5, <4>1, ScaledNext
    <3>7. RatPlus(e[l], last) \in Fractions
      BY <1>6, <3>6, FractionsClosed
    <3>8. Same(RatPlus(r[m - 1], g[m]), RatPlus(r[m - 1], RatPlus(e[l], last)))
      BY <1>12, <3>6, <3>7, PlusSame
    <3>9. RatPlus(r[m - 1], RatPlus(e[l], last)) = RatPlus(RatPlus(p[l - 1], e[l]), last)
      BY <1>6, <1>12, <3>2, <3>6, PlusInTurn
    <3> QED
      BY <1>12, <2>3, <3>8, <3>9
  <2>5. ASSUME m = l + 1, tiers[l].upTo = q
        PROVE  Same(BandSum(tiers, q + 1), RatPlus(BandSum(tiers, q), last))
    <3>1. m - 1 = l /\ l < m /\ m # 1
      BY <2>1, <2>5
    <3>2. \A k \in 1 .. l : e[k] = g[k]
      <4> SUFFICES ASSUME NEW k \in 1 .. l PROVE e[k] = g[k]
        OBVIOUS
      <4>1. k \in 1 .. m /\ k < m /\ (k < l \/ k = l)
        BY <1>10, <2>1, <2>5
      <4>2. UnitsIn(tiers, q, k) = UnitsIn(tiers, q + 1, k)
        <5>1. UnitsIn(tiers, q + 1, k)
                = tiers[k].upTo - (IF k = 1 THEN 0 ELSE tiers[k - 1].upTo)
          BY <1>5, <4>1
        <5>2. CASE k < l
          BY <1>9, <1>14, <5>1, <5>2
        <5>3. CASE k = l
          BY <1>9, <1>14, <2>5, <5>1, <5>3
        <5> QED
          BY <4>1, <5>2, <5>3
      <4> QED
        BY <1>2, <1>9, <1>14, <4>1, <4>2
    <3>3. p[l] = r[m - 1]
      <4>1. l <= m
        BY <1>10, <2>1, <3>1
      <4> QED
        BY <1>10, <1>11, <2>1, <2>2, <3>1, <3>2, <4>1, RunningAgree
    <3>4. UnitsIn(tiers, q + 1, m) = 1
      <4>1. UnitsIn(tiers, q + 1, m) = (q + 1) - tiers[m - 1].upTo
        BY <1>5, <1>10, <3>1
      <4> QED
        BY <2>5, <3>1, <4>1
    <3>5. g[m] = last
      BY <1>2, <1>10, <3>4
    <3>6. BandSum(tiers, q + 1) = RatPlus(BandSum(tiers, q), last)
      BY <1>12, <2>3, <3>3, <3>5
    <3> QED
      BY <1>7, <3>6, SameIs
  <2> QED
    BY <1>8, <1>14, <2>4, <2>5 DEF m
<1> QED
  BY <1>13, <1>14 DEF m

\* Unit by unit comes to the same value as band by band.
LEMMA UnitByUnit ==
    ASSUME NEW tiers, Rated(tiers), NEW q \in Nat, NEW each,
           each = [u \in 1 .. q |-> ScaledAmount(1, tiers[Landing(tiers, u)].rate)]
    PROVE  /\ FoldLeft(RatPlus, RatZero, each) \in Fractions
           /\ Same(FoldLeft(RatPlus, RatZero, each), BandSum(tiers, q))
<1>1. \A u \in 1 .. q : ScaledAmount(1, tiers[Landing(tiers, u)].rate) \in Fractions
  <2> SUFFICES ASSUME NEW u \in 1 .. q
               PROVE  ScaledAmount(1, tiers[Landing(tiers, u)].rate) \in Fractions
    OBVIOUS
  <2> DEFINE k == Landing(tiers, u)
  <2>1. k \in 1 .. Len(tiers)
    <3>1. InOrder(tiers) /\ u \in Int
      BY DEF Rated
    <3> QED
      BY <3>1, LandsIn
  <2> HIDE DEF k
  <2>2. tiers[k].rate \in RateType /\ ValidRate(tiers[k].rate)
    BY <2>1, TierFields DEF Rated, InOrder
  <2> QED
    BY <2>2, ScaledNext DEF k
<1>2. each \in [1 .. q -> Fractions]
  BY <1>1
<1>3. PICK p : Running(p, q, each)
  BY <1>2, RatSum
<1> DEFINE X == {k \in 0 .. q : Same(p[k], BandSum(tiers, k))}
<1>4. 0 \in X
  BY <1>3, SameIs, FractionsClosed DEF Running, BandSum
<1>5. ASSUME NEW k \in 0 .. q, k < q, k \in X PROVE k + 1 \in X
  <2> DEFINE one == ScaledAmount(1, tiers[Landing(tiers, k + 1)].rate)
  <2>1. k + 1 \in 1 .. q /\ (k + 1) - 1 = k /\ k + 1 \in 0 .. q /\ k \in Nat /\ k + 1 \in Nat
    BY <1>5
  <2>2. p[k + 1] = RatPlus(p[k], one) /\ p[k] \in Fractions /\ p[k + 1] \in Fractions
    BY <1>3, <2>1 DEF Running
  <2>3. one \in Fractions /\ BandSum(tiers, k) \in Fractions /\ BandSum(tiers, k + 1) \in Fractions
    BY <1>1, <2>1, BandSumFraction
  <2>4. Same(BandSum(tiers, k + 1), RatPlus(BandSum(tiers, k), one))
    BY <2>1, BandSumNext
  <2> HIDE DEF one
  <2>5. Same(p[k + 1], RatPlus(BandSum(tiers, k), one))
    BY <1>5, <2>2, <2>3, PlusSame
  <2>6. RatPlus(BandSum(tiers, k), one) \in Fractions
    BY <2>3, FractionsClosed
  <2>7. Same(p[k + 1], BandSum(tiers, k + 1))
    BY <2>2, <2>3, <2>4, <2>5, <2>6, SameIs
  <2> QED
    BY <2>1, <2>7
<1> HIDE DEF X
<1>6. 0 .. q \subseteq X
  BY <1>4, <1>5, UpTo
<1>7. q \in X /\ q \in 0 .. q
  BY <1>6
<1> QED
  BY <1>3, <1>7 DEF X, Running

-----------------------------------------------------------------------------
(***************************************************************************)
(* One unit more, under the models that never charge less for it.          *)
(***************************************************************************)
GrowingModels == {"per_unit", "graduated", "package"}

\* What a charge is refused for at every quantity, whatever that is.
Priced(c) ==
    /\ c.model = "per_unit" => ValidRate(c.rate)
    /\ c.model = "graduated" => ValidTiers(c.tiers, TRUE, FALSE)
    /\ c.model = "package" => ~(c.size <= 0 \/ c.price < 0)

\* What the usage half comes to, were the integer type without a limit.
Amount(c, q) ==
    IF q = 0 THEN 0
    ELSE IF c.model = "per_unit" THEN RoundRat(c.rounding, ScaledAmount(q, c.rate))
    ELSE IF c.model = "graduated" THEN RoundRat(c.rounding, BandSum(c.tiers, q))
    ELSE Blocks(q, c.size) * c.price

\* An answer is the amount if the integer type holds it, or a refusal.
Answers(res, amount) ==
    /\ res.ok <=> IsInt64(amount)
    /\ res.ok => res.total = amount

LEMMA PricedTiers ==
    ASSUME NEW c \in ChargeType, Priced(c), c.model = "graduated"
    PROVE  Rated(c.tiers)
<1>1. c.tiers \in Seq(TierType) /\ ValidTiers(c.tiers, TRUE, FALSE)
  BY ChargeFields DEF Priced
<1> QED
  BY <1>1, ValidIsInOrder DEF Rated

LEMMA PricedPackage ==
    ASSUME NEW c \in ChargeType, Priced(c), c.model = "package"
    PROVE  c.size \in Nat \ {0} /\ c.price \in Nat
<1>1. c.size \in Int /\ c.price \in Int
  BY ChargeFields
<1> QED
  BY <1>1 DEF Priced

LEMMA BlocksGrow ==
    ASSUME NEW q \in Nat, NEW size \in Nat \ {0}
    PROVE  /\ Blocks(q, size) \in Nat /\ Blocks(q + 1, size) \in Nat
           /\ Blocks(q, size) <= Blocks(q + 1, size)
<1> DEFINE a == q \div size
           r == q % size
           b == (q + 1) \div size
           s == (q + 1) % size
<1>1. /\ a \in Nat /\ r \in 0 .. size - 1 /\ q = size * a + r
      /\ b \in Nat /\ s \in 0 .. size - 1 /\ q + 1 = size * b + s
  BY SMT
<1> HIDE DEF a, r, b, s
<1>2. b = a \/ (b = a + 1 /\ s = 0)
  <2>1. CASE r + 1 < size
    <3>1. q + 1 = size * a + (r + 1)
      BY <1>1
    <3> QED
      BY <1>1, <2>1, <3>1, SMT
  <2>2. CASE r + 1 = size
    <3>1. q + 1 = size * (a + 1) + 0
      BY <1>1, <2>2, SMT
    <3> QED
      BY <1>1, <3>1, SMT
  <2> QED
    BY <1>1, <2>1, <2>2
<1>3. b = a => s # 0
  BY <1>1
<1>4. Blocks(q, size) = (IF r = 0 THEN a ELSE a + 1)
      /\ Blocks(q + 1, size) = (IF s = 0 THEN b ELSE b + 1)
  BY DEF Blocks, a, b, r, s
<1> QED
  BY <1>1, <1>2, <1>3, <1>4

\* The amounts never fall.
LEMMA AmountGrows ==
    ASSUME NEW c \in ChargeType, c.rounding \in Modes, c.model \in GrowingModels, Priced(c),
           NEW q \in Nat
    PROVE  /\ Amount(c, q) \in Nat /\ Amount(c, q + 1) \in Nat
           /\ Amount(c, q) <= Amount(c, q + 1)
<1>1. q + 1 \in Nat /\ q + 1 # 0
  OBVIOUS
<1>2. CASE c.model = "per_unit"
  <2> DEFINE x == ScaledAmount(q, c.rate)
             y == ScaledAmount(q + 1, c.rate)
             z == RatPlus(x, ScaledAmount(1, c.rate))
  <2>1. c.rate \in RateType /\ ValidRate(c.rate)
    BY <1>2, ChargeFields DEF Priced
  <2>2. /\ x \in Fractions /\ y \in Fractions /\ ScaledAmount(1, c.rate) \in Fractions
        /\ Same(y, z)
    BY <1>1, <2>1, ScaledNext
  <2>3. z \in Fractions /\ AtMost(x, z)
    BY <2>2, FractionsClosed, PlusIsMore
  <2> HIDE DEF x, y, z
  <2>4. RoundRat(c.rounding, x) <= RoundRat(c.rounding, y)
    BY <2>2, <2>3, RoundAtMost, RoundSame
  <2>5. RoundRat(c.rounding, x) \in Nat /\ RoundRat(c.rounding, y) \in Nat
    BY <2>2, FractionIs, RoundRatNat
  <2> QED
    BY <1>1, <1>2, <2>4, <2>5 DEF Amount, x, y
<1>3. CASE c.model = "graduated"
  <2> DEFINE x == BandSum(c.tiers, q)
             y == BandSum(c.tiers, q + 1)
             one == ScaledAmount(1, c.tiers[Landing(c.tiers, q + 1)].rate)
             z == RatPlus(x, one)
  <2>1. Rated(c.tiers)
    BY <1>3, PricedTiers
  <2>2. x \in Fractions /\ y \in Fractions /\ Same(y, z)
    BY <1>1, <2>1, BandSumFraction, BandSumNext
  <2>3. one \in Fractions
    <3>1. /\ InOrder(c.tiers) /\ q + 1 \in Int
      BY <2>1 DEF Rated
    <3>2. Landing(c.tiers, q + 1) \in 1 .. Len(c.tiers)
      BY <3>1, LandsIn
    <3> DEFINE k == Landing(c.tiers, q + 1)
    <3> HIDE DEF k
    <3>3. c.tiers[k].rate \in RateType /\ ValidRate(c.tiers[k].rate)
      BY <2>1, <3>1, <3>2, TierFields DEF Rated, InOrder, k
    <3> QED
      BY <3>3, ScaledNext DEF k
  <2> HIDE DEF one
  <2>4. z \in Fractions /\ AtMost(x, z)
    BY <2>2, <2>3, FractionsClosed, PlusIsMore
  <2> HIDE DEF x, y, z
  <2>5. RoundRat(c.rounding, x) <= RoundRat(c.rounding, y)
    BY <2>2, <2>4, RoundAtMost, RoundSame
  <2>6. RoundRat(c.rounding, x) \in Nat /\ RoundRat(c.rounding, y) \in Nat
    BY <2>2, FractionIs, RoundRatNat
  <2> QED
    BY <1>1, <1>3, <2>5, <2>6 DEF Amount, x, y
<1>4. CASE c.model = "package"
  <2> DEFINE a == Blocks(q, c.size)
             b == Blocks(q + 1, c.size)
             p == c.price
  <2>1. p \in Nat /\ a \in Nat /\ b \in Nat /\ a <= b
    BY <1>4, PricedPackage, BlocksGrow
  <2> HIDE DEF a, b, p
  <2>2. a * p \in Nat /\ b * p \in Nat /\ a * p <= b * p
    BY <2>1, SMT
  <2> QED
    BY <1>1, <1>4, <2>2 DEF Amount, a, b, p
<1> QED
  BY <1>2, <1>3, <1>4 DEF GrowingModels

\* The usage half refuses a charge at every quantity, or answers the amount.
LEMMA UsageAnswers ==
    ASSUME NEW c \in ChargeType, c.rounding \in Modes, c.model \in GrowingModels,
           NEW quant \in Int
    PROVE  IF Priced(c) THEN Answers(Usage(c, quant), Amount(c, Chargeable(c, quant)))
                        ELSE ~Usage(c, quant).ok
<1> DEFINE q == Chargeable(c, quant)
<1>1. q \in Nat
  BY ChargeableNat
<1>2. IsInt64(0) /\ Nothing.ok /\ Nothing.total = 0
  BY MaxIntAssumption DEF IsInt64, MinInt, Nothing
<1>3. \A units, amount : OneLine(units, amount).ok /\ OneLine(units, amount).total = amount
  BY DEF OneLine
<1> HIDE DEF q
<1>4. CASE c.model = "per_unit"
  <2>1. Usage(c, quant) = RatePerUnit(c, q)
    BY <1>4, UsageIs DEF q
  <2>2. ~Priced(c) => ~RatePerUnit(c, q).ok
    BY <1>4, Refusals DEF Priced, RatePerUnit
  <2>3. Priced(c) => Answers(RatePerUnit(c, q), Amount(c, q))
    <3> SUFFICES ASSUME Priced(c) PROVE Answers(RatePerUnit(c, q), Amount(c, q))
      OBVIOUS
    <3>1. q = 0 => RatePerUnit(c, q) = Nothing /\ Amount(c, q) = 0
      BY <1>4 DEF Priced, RatePerUnit, Amount
    <3> DEFINE total == RoundRat(c.rounding, ScaledAmount(q, c.rate))
    <3>2. q # 0 => /\ Amount(c, q) = total
                   /\ RatePerUnit(c, q) = IF IsInt64(total) THEN OneLine(q, total)
                                          ELSE Fails("ErrOverflow")
      BY <1>4 DEF Priced, RatePerUnit, Amount, RoundedLine
    <3> HIDE DEF total
    <3> QED
      BY <1>2, <1>3, <3>1, <3>2, Refusals DEF Answers
  <2> QED
    BY <2>1, <2>2, <2>3 DEF q
<1>5. CASE c.model = "graduated"
  <2>1. Usage(c, quant) = RateGraduated(c, q)
    BY <1>5, UsageIs DEF q
  <2>2. ~Priced(c) => ~RateGraduated(c, q).ok
    BY <1>5, Refusals DEF Priced, RateGraduated
  <2>3. Priced(c) => Answers(RateGraduated(c, q), Amount(c, q))
    <3> SUFFICES ASSUME Priced(c) PROVE Answers(RateGraduated(c, q), Amount(c, q))
      OBVIOUS
    <3>1. q = 0 => RateGraduated(c, q) = Nothing /\ Amount(c, q) = 0
      BY <1>5 DEF Priced, RateGraduated, Amount
    <3> DEFINE total == RoundRat(c.rounding, BandSum(c.tiers, q))
    <3>2. ASSUME q # 0
          PROVE  /\ RateGraduated(c, q).ok <=> IsInt64(total)
                 /\ RateGraduated(c, q).ok => RateGraduated(c, q).total = total
      <4>1. q \in Nat \ {0} /\ InOrder(c.tiers)
        BY <1>1, <1>5, <3>2, PricedTiers DEF Rated
      <4>2. [k \in DOMAIN Bands(c.tiers, q) |-> Bands(c.tiers, q)[k].exact] = Exacts(c.tiers, q)
        <5>1. Bands(c.tiers, q) = [k \in 1 .. Landing(c.tiers, q) |-> Band(c.tiers, q, k)]
          BY <4>1, BandsAre
        <5> QED
          BY <5>1 DEF Exacts
      <4>3. total = RoundRat(c.rounding, FoldLeft(RatPlus, RatZero, Exacts(c.tiers, q)))
        BY <3>2 DEF BandSum
      <4> HIDE DEF total
      <4>4. RateGraduated(c, q)
              = IF ~IsInt64(total) THEN Fails("ErrOverflow")
                ELSE [ok |-> TRUE, total |-> total,
                      lines |-> [k \in DOMAIN Bands(c.tiers, q) |->
                        [units |-> Bands(c.tiers, q)[k].units,
                         subtotal |-> Apportion(total, CommonWeights(Exacts(c.tiers, q)))[k]]]]
        BY <1>5, <3>2, <4>2, <4>3 DEF RateGraduated, Priced
      <4> QED
        BY <4>4, Refusals
    <3>3. q # 0 => Amount(c, q) = total
      BY <1>5 DEF Amount
    <3> HIDE DEF total
    <3> QED
      BY <1>2, <3>1, <3>2, <3>3 DEF Answers
  <2> QED
    BY <2>1, <2>2, <2>3 DEF q
<1>6. CASE c.model = "package"
  <2>1. Usage(c, quant) = RatePackage(c, q)
    BY <1>6, UsageIs DEF q
  <2>2. ~Priced(c) => ~RatePackage(c, q).ok
    BY <1>6, Refusals DEF Priced, RatePackage
  <2>3. Priced(c) => Answers(RatePackage(c, q), Amount(c, q))
    <3> SUFFICES ASSUME Priced(c) PROVE Answers(RatePackage(c, q), Amount(c, q))
      OBVIOUS
    <3>1. q = 0 => RatePackage(c, q) = Nothing /\ Amount(c, q) = 0
      BY <1>6 DEF Priced, RatePackage, Amount
    <3> DEFINE total == Blocks(q, c.size) * c.price
    <3>2. q # 0 => /\ Amount(c, q) = total
                   /\ RatePackage(c, q) = IF IsInt64(total) THEN OneLine(Blocks(q, c.size), total)
                                          ELSE Fails("ErrOverflow")
      BY <1>6 DEF Priced, RatePackage, Amount
    <3> HIDE DEF total
    <3> QED
      BY <1>2, <1>3, <3>1, <3>2, Refusals DEF Answers
  <2> QED
    BY <2>1, <2>2, <2>3 DEF q
<1> QED
  BY <1>4, <1>5, <1>6 DEF GrowingModels

\* A charge that one more unit still rates was rated before, for no more.
LEMMA RateGrows ==
    ASSUME NEW c \in ChargeType, c.model \in GrowingModels, NEW quant \in Nat,
           Rate(c, quant + 1).ok
    PROVE  Rate(c, quant).ok /\ Rate(c, quant + 1).total >= Rate(c, quant).total
<1> DEFINE fee == c.flatFee
           q == Chargeable(c, quant)
           a == Amount(c, q)
           b == Amount(c, Chargeable(c, quant + 1))
           here == Usage(c, quant)
           next == Usage(c, quant + 1)
<1>1. quant + 1 \in Int /\ quant \in Int /\ q \in Nat /\ c.allowance \in Int
  BY ChargeFields, ChargeableNat
<1>2. /\ c.rounding \in Modes /\ ~(c.allowance < 0) /\ fee \in Nat
      /\ Rate(c, quant + 1) = WithFlatFee(next, fee)
      /\ next.ok
  BY <1>1, RatedIs, ChargeFields
<1>3. Priced(c) /\ Answers(next, b) /\ Answers(here, a)
  BY <1>1, <1>2, UsageAnswers
<1>4. Chargeable(c, quant + 1) = q \/ Chargeable(c, quant + 1) = q + 1
  BY <1>1 DEF Chargeable
<1>5. a \in Nat /\ b \in Nat /\ a <= b
  <2> HIDE DEF q
  <2>1. /\ a \in Nat /\ Amount(c, q + 1) \in Nat /\ a <= Amount(c, q + 1)
    BY <1>1, <1>2, <1>3, AmountGrows
  <2> QED
    BY <1>4, <2>1
<1>6. Rate(c, quant) = WithFlatFee(here, fee)
  BY <1>2 DEF Rate
<1> HIDE DEF fee, a, b, here, next
<1>7. /\ IsInt64(b + fee) /\ IsInt64(b) /\ Rate(c, quant + 1).total = b + fee
  <2>1. CASE fee = 0
    BY <1>2, <1>3, <1>5, <2>1 DEF WithFlatFee, Answers
  <2>2. CASE fee # 0
    BY <1>2, <1>3, <1>5, <2>2, Refusals DEF WithFlatFee, Answers
  <2> QED
    BY <2>1, <2>2
<1>8. IsInt64(a + fee) /\ IsInt64(a)
  <2>1. MaxInt \in Nat
    BY MaxIntAssumption
  <2> QED
    BY <1>2, <1>5, <1>7, <2>1 DEF IsInt64, MinInt
<1>9. here.ok /\ here.total = a
  BY <1>3, <1>8 DEF Answers
<1>10. Rate(c, quant).ok /\ Rate(c, quant).total = a + fee
  <2>1. CASE fee = 0
    BY <1>5, <1>6, <1>9, <2>1 DEF WithFlatFee
  <2>2. CASE fee # 0
    BY <1>6, <1>8, <1>9, <2>2 DEF WithFlatFee
  <2> QED
    BY <2>1, <2>2
<1> QED
  BY <1>2, <1>5, <1>7, <1>10

-----------------------------------------------------------------------------
(***************************************************************************)
(* The state: a charge of the universe, rated at the usage so far.         *)
(***************************************************************************)
Metered ==
    /\ charge \in Charges
    /\ quantity \in -1 .. MaxQuantity
    /\ result = Rate(charge, quantity)

LEMMA MeteredAlways == Spec => []Metered
<1>1. Init => Metered
  BY MaxQuantityAssumption, MaxIntAssumption DEF Init, Metered
<1>2. Metered /\ [Accrue]_vars => Metered'
  <2> SUFFICES ASSUME Metered, [Accrue]_vars PROVE Metered'
    OBVIOUS
  <2>1. CASE Accrue
    <3>1. MaxQuantity \in Int
      BY MaxQuantityAssumption, MaxIntAssumption
    <3>2. quantity' \in -1 .. MaxQuantity
      BY <2>1, <3>1 DEF Metered, Accrue
    <3> QED
      BY <2>1, <3>2 DEF Metered, Accrue
  <2>2. CASE UNCHANGED vars
    BY <2>2 DEF Metered, vars
  <2> QED
    BY <2>1, <2>2
<1> QED
  BY <1>1, <1>2, PTL DEF Spec

LEMMA MeteredIs ==
    ASSUME Metered
    PROVE  charge \in ChargeType /\ quantity \in Int /\ result = Rate(charge, quantity)
<1>1. MaxQuantity \in Int
  BY MaxQuantityAssumption, MaxIntAssumption
<1> QED
  BY <1>1, ChargesAssumption DEF Metered

-----------------------------------------------------------------------------
(***************************************************************************)
(* Theorems.                                                               *)
(***************************************************************************)
\* A schedule that a tiered charge is rated with puts every unit, up to any
\* usage, in exactly one band: validateTiers lets no gap and no overlap by.
THEOREM EveryUnitHasOneBand == Spec => []EveryUnitIsPricedOnce
<1>1. Metered => EveryUnitIsPricedOnce
  <2> SUFFICES ASSUME Metered, result.ok, charge.model \in TieredModels,
                      NEW u \in 1 .. MaxQuantity
               PROVE  Cardinality(BandsOf(charge.tiers, u)) = 1
    BY DEF EveryUnitIsPricedOnce
  <2>1. InOrder(charge.tiers)
    BY MeteredIs, TieredIsInOrder
  <2>2. u \in Nat \ {0}
    BY MaxQuantityAssumption, MaxIntAssumption
  <2>3. BandsOf(charge.tiers, u) = {Landing(charge.tiers, u)}
    BY <2>1, <2>2, OneBand
  <2> QED
    BY <2>3, FS_Singleton
<1> QED
  BY <1>1, MeteredAlways, PTL

LEMMA BandOfIs ==
    ASSUME Metered, result.ok, charge.model \in TieredModels, NEW u \in Nat \ {0}
    PROVE  BandOf(u) = charge.tiers[Landing(charge.tiers, u)]
<1>1. BandsOf(charge.tiers, u) = {Landing(charge.tiers, u)}
  BY MeteredIs, TieredIsInOrder, OneBand
<1> QED
  BY <1>1 DEF BandOf

\* Volume, stairstep and package pricing charge for the quantity as a whole, by
\* the band it lands in or by the fewest blocks that hold it.
THEOREM WholesArePriced == Spec => []PricedAsAWhole
<1>1. Metered => PricedAsAWhole
  <2> SUFFICES ASSUME Metered, result.ok,
                      charge.model \in {"volume", "stairstep", "package"}, Used > 0
               PROVE  LET usage == result.total - charge.flatFee
                      IN  \/ charge.model = "volume"
                             /\ usage = RoundRat(charge.rounding,
                                                 ScaledAmount(Used, BandOf(Used).rate))
                          \/ charge.model = "stairstep" /\ usage = BandOf(Used).flat
                          \/ charge.model = "package"
                             /\ FewestBlocks(result.lines[1].units)
                             /\ usage = result.lines[1].units * charge.price
    BY DEF PricedAsAWhole
  <2>1. charge \in ChargeType /\ quantity \in Int /\ result = Rate(charge, quantity)
    BY MeteredIs
  <2>2. Used \in Nat \ {0} /\ Used = Chargeable(charge, quantity)
    BY <2>1, ChargeableNat DEF Used
  <2>3. /\ charge.flatFee \in Int /\ Usage(charge, quantity).ok
        /\ result = WithFlatFee(Usage(charge, quantity), charge.flatFee)
    BY <2>1, RatedIs, ChargeFields
  <2> DEFINE here == charge.tiers[Landing(charge.tiers, Used)]
  <2>4. charge.model \in {"volume", "stairstep"} => BandOf(Used) = here
    BY <2>2, BandOfIs DEF TieredModels
  <2>5. CASE charge.model = "volume"
    <3>1. PICK amount \in Nat :
             /\ amount = RoundRat(charge.rounding, ScaledAmount(Used, here.rate))
             /\ Usage(charge, quantity) = OneLine(Used, amount)
      BY <2>1, <2>2, <2>5, UsageAsAWhole
    <3>2. FeeAdded(result, Used, amount, charge.flatFee)
      BY <2>3, <3>1, FeeOnOne
    <3>3. result.total - charge.flatFee = amount
      BY <2>3, <3>2 DEF FeeAdded
    <3> QED
      BY <2>4, <2>5, <3>1, <3>3
  <2>6. CASE charge.model = "stairstep"
    <3>1. PICK amount \in Nat : /\ amount = here.flat
                                /\ Usage(charge, quantity) = OneLine(Used, amount)
      BY <2>1, <2>2, <2>6, UsageAsAWhole
    <3>2. FeeAdded(result, Used, amount, charge.flatFee)
      BY <2>3, <3>1, FeeOnOne
    <3>3. result.total - charge.flatFee = amount
      BY <2>3, <3>2 DEF FeeAdded
    <3> QED
      BY <2>4, <2>6, <3>1, <3>3
  <2>7. CASE charge.model = "package"
    <3> DEFINE blocks == Blocks(Used, charge.size)
    <3>1. PICK amount \in Nat : /\ charge.size \in Nat \ {0}
                                /\ amount = blocks * charge.price
                                /\ Usage(charge, quantity) = OneLine(blocks, amount)
      BY <2>1, <2>2, <2>7, UsageAsAWhole
    <3>2. FeeAdded(result, blocks, amount, charge.flatFee)
      BY <2>3, <3>1, FeeOnOne
    <3>3. result.total - charge.flatFee = amount
      BY <2>3, <3>2 DEF FeeAdded
    <3>4. FewestBlocks(blocks)
      BY <2>2, <3>1, BlocksHold DEF FewestBlocks
    <3> HIDE DEF blocks
    <3>5. result.lines[1].units = blocks
      BY <3>2 DEF FeeAdded
    <3> QED
      BY <2>7, <3>1, <3>3, <3>4, <3>5
  <2> QED
    BY <2>5, <2>6, <2>7
<1> QED
  BY <1>1, MeteredAlways, PTL

\* What Compose takes for granted of a charge: its lines are not negative and
\* come exactly to its total, which is of the integer type, under every model.
\* For graduated pricing this rests on the largest-remainder method.
THEOREM ChargesReconcile == Spec => []RatedAsComposeAssumes
<1>1. Metered => RatedAsComposeAssumes
  <2> SUFFICES ASSUME Metered, result.ok
               PROVE  /\ \A k \in DOMAIN result.lines : result.lines[k].subtotal >= 0
                      /\ SumOf([k \in DOMAIN result.lines |-> result.lines[k].subtotal])
                           = result.total
                      /\ result.total \in 0 .. MaxInt
    BY DEF RatedAsComposeAssumes
  <2>1. AddsUp(result)
    BY MeteredIs, RateAddsUp
  <2>2. ASSUME NEW k \in DOMAIN result.lines PROVE result.lines[k].subtotal >= 0
    <3>1. result.lines[k] \in LineType
      BY <2>1 DEF AddsUp
    <3>2. \A x \in LineType : x.subtotal >= 0
      BY DEF LineType
    <3> QED
      BY <3>1, <3>2
  <2>3. result.total \in 0 .. MaxInt
    BY <2>1, MaxIntAssumption DEF AddsUp, IsInt64
  <2>4. SumOf([k \in DOMAIN result.lines |-> result.lines[k].subtotal]) = result.total
    BY <2>1 DEF AddsUp, Subtotals
  <2> QED
    BY <2>2, <2>3, <2>4
<1> QED
  BY <1>1, MeteredAlways, PTL

\* Graduated pricing charges every unit at the rate of its own band and rounds
\* once: band by band, as rateGraduated adds them up, is unit by unit.
THEOREM GraduatedByTheUnit == Spec => []GraduatedIsMarginal
<1>1. Metered => GraduatedIsMarginal
  <2> DEFINE each == [u \in 1 .. Used |-> ScaledAmount(1, BandOf(u).rate)]
  <2> SUFFICES ASSUME Metered, result.ok, charge.model = "graduated"
               PROVE  result.total - charge.flatFee
                        = RoundRat(charge.rounding, FoldLeft(RatPlus, RatZero, each))
    BY DEF GraduatedIsMarginal
  <2> DEFINE tiers == charge.tiers
             use == Usage(charge, quantity)
  <2>1. charge \in ChargeType /\ quantity \in Int /\ result = Rate(charge, quantity)
    BY MeteredIs
  <2>2. Used \in Nat /\ Used = Chargeable(charge, quantity)
    BY <2>1, ChargeableNat DEF Used
  <2>3. Rated(tiers) /\ charge.rounding \in Modes
    BY <2>1, TieredIsInOrder, RatedIs, ChargeFields DEF Rated, TieredModels
  <2>4. each = [u \in 1 .. Used |-> ScaledAmount(1, tiers[Landing(tiers, u)].rate)]
    <3>1. \A u \in 1 .. Used : u \in Nat \ {0}
      BY <2>2
    <3>2. \A u \in 1 .. Used : BandOf(u) = tiers[Landing(tiers, u)]
      BY <3>1, BandOfIs DEF TieredModels
    <3> QED
      BY <3>2
  <2>5. /\ FoldLeft(RatPlus, RatZero, each) \in Fractions
        /\ Same(FoldLeft(RatPlus, RatZero, each), BandSum(tiers, Used))
        /\ BandSum(tiers, Used) \in Fractions
    <3> HIDE DEF each, tiers
    <3> QED
      BY <2>2, <2>3, <2>4, UnitByUnit, BandSumFraction
  <2>6. RoundRat(charge.rounding, FoldLeft(RatPlus, RatZero, each))
          = RoundRat(charge.rounding, BandSum(tiers, Used))
    <3> HIDE DEF each, tiers
    <3> QED
      BY <2>3, <2>5, RoundSame
  <2>7. use.total = RoundRat(charge.rounding, BandSum(tiers, Used))
    <3>1. CASE Used = 0
      <4>1. use = Nothing
        <5>1. use.ok /\ use = RateGraduated(charge, Used)
          BY <2>1, <2>2, RatedIs, ChargeFields, UsageIs
        <5>2. RateGraduated(charge, 0).ok => RateGraduated(charge, 0) = Nothing
          BY Refusals DEF RateGraduated
        <5> QED
          BY <3>1, <5>1, <5>2
      <4>2. RoundRat(charge.rounding, RatZero) = 0
        <5>1. 0 \div 1 = 0 /\ 0 % 1 = 0 /\ 1 \in Nat \ {0} /\ 0 \in Int
          OBVIOUS
        <5>2. Round(charge.rounding, 0, 1) = 0
          BY <2>3, <5>1, RoundIsNeighbour
        <5> QED
          BY <5>2 DEF RoundRat, RatZero
      <4> QED
        BY <3>1, <4>1, <4>2 DEF BandSum, Nothing
    <3>2. CASE Used # 0
      <4>1. use = GraduatedOf(charge, Used)
        <5>1. Used \in Nat \ {0}
          BY <2>2, <3>2
        <5> QED
          BY <2>1, <2>2, <5>1, UsageByBands
      <4> QED
        BY <3>2, <4>1 DEF GraduatedOf, BandSum
    <3> QED
      BY <3>1, <3>2
  <2>8. result.total = use.total + charge.flatFee /\ use.total \in Int /\ charge.flatFee \in Int
    <3>1. /\ result = WithFlatFee(use, charge.flatFee) /\ use.ok /\ charge.flatFee \in Int
          /\ AddsUp(use) /\ result.ok
      BY <2>1, RatedIs, ChargeFields, UsageAddsUp
    <3> HIDE DEF use
    <3>2. use.total \in Int
      BY <3>1 DEF AddsUp
    <3> QED
      BY <3>1, <3>2, Refusals DEF WithFlatFee
  <2> HIDE DEF each, use
  <2> QED
    BY <2>6, <2>7, <2>8
<1> QED
  BY <1>1, MeteredAlways, PTL

\* Under per-unit, graduated and package pricing one unit more never costs less,
\* and a charge that has overflowed is not rated again as usage goes on.
THEOREM UsageNeverCostsLess == Spec => MoreUsageNeverCostsLess
<1>1. Metered /\ [Accrue]_vars =>
        [charge.model \in {"per_unit", "graduated", "package"} /\ quantity >= 0 =>
           IF result.ok THEN result'.ok => result'.total >= result.total
                        ELSE ~result'.ok]_vars
  <2> SUFFICES ASSUME Metered, Accrue, charge.model \in GrowingModels, quantity >= 0
               PROVE  IF result.ok THEN result'.ok => result'.total >= result.total
                                   ELSE ~result'.ok
    BY DEF GrowingModels, vars
  <2>1. charge \in ChargeType /\ quantity \in Int /\ result = Rate(charge, quantity)
    BY MeteredIs
  <2>2. quantity \in Nat /\ result' = Rate(charge, quantity + 1)
    BY <2>1 DEF Accrue
  <2>3. result'.ok => result.ok /\ result'.total >= result.total
    BY <2>1, <2>2, RateGrows
  <2> QED
    BY <2>3
<1> QED
  BY <1>1, MeteredAlways, PTL DEF Spec, MoreUsageNeverCostsLess

=============================================================================
