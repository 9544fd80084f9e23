------------------------------- MODULE Rating -------------------------------
(***************************************************************************)
(* Charge.Rate (charge.go) and the tier schedules it reads (tier.go).      *)
(*                                                                         *)
(* A charge is a record with the fields of Charge; a rate is an exact      *)
(* rational [n |-> numerator, d |-> denominator > 0], or NoRate for a nil  *)
(* one.  An outcome is an error, known by its sentinel, or a total with    *)
(* its lines, each a pair of the units (or blocks) it covers and its       *)
(* subtotal in minor units.                                                *)
(***************************************************************************)
EXTENDS Apportion

CONSTANTS Scale,    \* 10^Decimals: minor units in a major one
          NoRate    \* the nil rate

ASSUME ScaleAssumption == Scale \in Nat \ {0}

Fails(why) == [ok |-> FALSE, why |-> why]
Nothing == [ok |-> TRUE, total |-> 0, lines |-> <<>>]
OneLine(units, amount) ==
    [ok |-> TRUE, total |-> amount,
     lines |-> <<[units |-> units, subtotal |-> amount]>>]

\* Exact rationals, not in lowest terms.
ScaledAmount(units, rate) == [n |-> units * rate.n * Scale, d |-> rate.d]
RatPlus(x, y) == [n |-> x.n * y.d + y.n * x.d, d |-> x.d * y.d]
RatZero == [n |-> 0, d |-> 1]
RoundRat(mode, x) == Round(mode, x.n, x.d)

ValidRate(rate) == rate # NoRate /\ rate.n >= 0

(***************************************************************************)
(* tier.go: what makes a schedule valid, and the tier a quantity lands in. *)
(***************************************************************************)
\* Faulty: the bounds need not increase.
MisplacedAlone(tiers, k) ==
    LET t == tiers[k]
    IN  \/ t.last # (k = Len(tiers))
        \/ ~t.last /\ t.upTo <= 0

Misplaced(tiers, k) ==
    LET t == tiers[k]
    IN  \/ t.last # (k = Len(tiers))
        \/ ~t.last /\ (t.upTo <= 0 \/ (k > 1 /\ t.upTo <= tiers[k - 1].upTo))

Unpriced(tier, needUnitRate, needFlat) ==
    \/ needUnitRate /\ ~ValidRate(tier.rate)
    \/ needFlat /\ tier.flat < 0

Invalid(tiers, needUnitRate, needFlat) ==
    {k \in DOMAIN tiers : Misplaced(tiers, k) \/ Unpriced(tiers[k], needUnitRate, needFlat)}

ValidTiers(tiers, needUnitRate, needFlat) ==
    tiers # <<>> /\ Invalid(tiers, needUnitRate, needFlat) = {}

\* What the first tier that is not valid is refused for.
TierError(tiers, needUnitRate, needFlat) ==
    LET bad   == Invalid(tiers, needUnitRate, needFlat)
        first == CHOOSE k \in bad : \A j \in bad : k <= j
    IN  IF tiers = <<>> THEN Fails("ErrEmptyTiers")
        ELSE IF Misplaced(tiers, first) THEN Fails("ErrTierOrder")
        ELSE Fails("ErrNoRate")

\* Faulty: a band does not include its upper bound.
LandingPast(tiers, q) ==
    CHOOSE k \in DOMAIN tiers :
      /\ tiers[k].last \/ q < tiers[k].upTo
      /\ \A j \in 1 .. k - 1 : ~(tiers[j].last \/ q < tiers[j].upTo)

\* The first tier that is unbounded or reaches q.
Landing(tiers, q) ==
    CHOOSE k \in DOMAIN tiers :
      /\ tiers[k].last \/ q <= tiers[k].upTo
      /\ \A j \in 1 .. k - 1 : ~(tiers[j].last \/ q <= tiers[j].upTo)

(***************************************************************************)
(* The five models, each for a charge c and a quantity q that is left      *)
(* after the free allowance.  Nothing is rated at zero.                    *)
(***************************************************************************)
\* An exact amount rounded once, as the one line of the charge.
RoundedLine(c, q, rate) ==
    LET total == RoundRat(c.rounding, ScaledAmount(q, rate))
    IN  IF IsInt64(total) THEN OneLine(q, total) ELSE Fails("ErrOverflow")

RatePerUnit(c, q) ==
    IF ~ValidRate(c.rate) THEN Fails("ErrNoRate")
    ELSE IF q = 0 THEN Nothing
    ELSE RoundedLine(c, q, c.rate)

\* Faulty: the bound of the band before is skipped.
UnitsInSkipping(tiers, q, k) ==
    LET lower == IF k = 1 THEN 0 ELSE tiers[k - 1].upTo + 1
        upper == IF tiers[k].last \/ tiers[k].upTo > q THEN q ELSE tiers[k].upTo
    IN  upper - lower

\* The units of q in band k of the schedule, above the band before it.
UnitsIn(tiers, q, k) ==
    LET lower == IF k = 1 THEN 0 ELSE tiers[k - 1].upTo
        upper == IF tiers[k].last \/ tiers[k].upTo > q THEN q ELSE tiers[k].upTo
    IN  upper - lower

\* The exact amount of every band up to the one q lands in, band by band.
Bands(tiers, q) ==
    FoldLeft(LAMBDA bands, k :
               LET units == UnitsIn(tiers, q, k)
               IN  IF units > 0
                   THEN Append(bands, [units |-> units,
                                       exact |-> ScaledAmount(units, tiers[k].rate)])
                   ELSE bands,
             <<>>, [k \in 1 .. Landing(tiers, q) |-> k])

\* allocateRat: the exact amounts as integers over a common denominator.
CommonWeights(exacts) ==
    LET commonDen == FoldLeft(LAMBDA x, e : x * e.d, 1, exacts)
    IN  [k \in DOMAIN exacts |-> (exacts[k].n * commonDen) \div exacts[k].d]

\* Faulty: the whole quantity at the rate of the band it lands in.
RateGraduatedAsVolume(c, q) ==
    IF ~ValidTiers(c.tiers, TRUE, FALSE) THEN TierError(c.tiers, TRUE, FALSE)
    ELSE IF q = 0 THEN Nothing
    ELSE RoundedLine(c, q, c.tiers[Landing(c.tiers, q)].rate)

\* Every band exact, the sum rounded once, the rounded sum apportioned back.
RateGraduated(c, q) ==
    IF ~ValidTiers(c.tiers, TRUE, FALSE) THEN TierError(c.tiers, TRUE, FALSE)
    ELSE IF q = 0 THEN Nothing
    ELSE LET bands  == Bands(c.tiers, q)
             exacts == [k \in DOMAIN bands |-> bands[k].exact]
             total  == RoundRat(c.rounding, FoldLeft(RatPlus, RatZero, exacts))
             shares == Apportion(total, CommonWeights(exacts))
         IN  IF ~IsInt64(total) THEN Fails("ErrOverflow")
             ELSE [ok |-> TRUE, total |-> total,
                   lines |-> [k \in DOMAIN bands |->
                     [units |-> bands[k].units, subtotal |-> shares[k]]]]

RateVolume(c, q) ==
    IF ~ValidTiers(c.tiers, TRUE, FALSE) THEN TierError(c.tiers, TRUE, FALSE)
    ELSE IF q = 0 THEN Nothing
    ELSE RoundedLine(c, q, c.tiers[Landing(c.tiers, q)].rate)

Blocks(q, size) == IF q % size = 0 THEN q \div size ELSE q \div size + 1

RatePackage(c, q) ==
    IF c.size <= 0 \/ c.price < 0 THEN Fails("ErrBadPackage")
    ELSE IF q = 0 THEN Nothing
    ELSE LET subtotal == Blocks(q, c.size) * c.price
         IN  IF IsInt64(subtotal) THEN OneLine(Blocks(q, c.size), subtotal)
             ELSE Fails("ErrOverflow")

RateStairstep(c, q) ==
    IF ~ValidTiers(c.tiers, FALSE, TRUE) THEN TierError(c.tiers, FALSE, TRUE)
    ELSE IF q = 0 THEN Nothing
    ELSE OneLine(q, c.tiers[Landing(c.tiers, q)].flat)

(***************************************************************************)
(* Rate: the checks every model shares, the model, and the flat fee as a   *)
(* line of its own.                                                        *)
(***************************************************************************)
Chargeable(c, quantity) ==
    IF quantity - c.allowance < 0 THEN 0 ELSE quantity - c.allowance

\* The usage half of the charge.
Usage(c, quantity) ==
    LET q == Chargeable(c, quantity)
    IN  CASE c.model = "per_unit"  -> RatePerUnit(c, q)
          [] c.model = "graduated" -> RateGraduated(c, q)
          [] c.model = "volume"    -> RateVolume(c, q)
          [] c.model = "package"   -> RatePackage(c, q)
          [] c.model = "stairstep" -> RateStairstep(c, q)
          [] OTHER                 -> Fails("ErrUnknownModel")

\* Faulty: the fee is added without a guard.
WithFlatFeeUnguarded(res, fee) ==
    IF ~res.ok \/ fee = 0 THEN res
    ELSE [ok |-> TRUE, total |-> Wrap(res.total + fee),
          lines |-> Append(res.lines, [units |-> 0, subtotal |-> fee])]

WithFlatFee(res, fee) ==
    IF ~res.ok \/ fee = 0 THEN res
    ELSE IF ~IsInt64(res.total + fee) THEN Fails("ErrOverflow")
    ELSE [ok |-> TRUE, total |-> res.total + fee,
          lines |-> Append(res.lines, [units |-> 0, subtotal |-> fee])]

Rate(c, quantity) ==
    IF c.rounding \notin Modes THEN Fails("ErrBadCurrency")
    ELSE IF quantity < 0 THEN Fails("ErrNegativeQuantity")
    ELSE IF c.allowance < 0 THEN Fails("ErrBadAllowance")
    ELSE IF c.flatFee < 0 THEN Fails("ErrNoRate")
    ELSE WithFlatFee(Usage(c, quantity), c.flatFee)

=============================================================================
