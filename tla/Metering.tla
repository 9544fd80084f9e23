------------------------------ MODULE Metering ------------------------------
(***************************************************************************)
(* A charge is rated again and again as usage accrues, one unit at a time: *)
(* what Charge.Rate promises of one quantity, and of a quantity next to    *)
(* the one after it.                                                       *)
(***************************************************************************)
EXTENDS Rating

CONSTANTS Charges,     \* the charges to rate, well formed or not
          MaxQuantity  \* bound: the usage up to which each is rated

\* The fields of Charge and of Tier, by their Go types: a rate is a *big.Rat.
RateType == {NoRate} \cup [n : Int, d : Nat \ {0}]
TierType == [upTo : Int64, last : BOOLEAN, rate : RateType, flat : Int64]
ChargeType ==
    [model : STRING, rounding : STRING, rate : RateType, tiers : Seq(TierType),
     size : Int64, price : Int64, allowance : Int64, flatFee : Int64]

ASSUME ChargesAssumption == Charges \subseteq ChargeType
ASSUME MaxQuantityAssumption == MaxQuantity \in 0 .. MaxInt

VARIABLES charge, quantity, result

vars == <<charge, quantity, result>>

\* A negative quantity first: Rate refuses it.
Init == /\ charge \in Charges
        /\ quantity = -1
        /\ result = Rate(charge, quantity)

Accrue == /\ quantity < MaxQuantity
          /\ quantity' = quantity + 1
          /\ result' = Rate(charge, quantity')
          /\ UNCHANGED charge

Spec == Init /\ [][Accrue]_vars

-----------------------------------------------------------------------------
(***************************************************************************)
(* Properties.                                                             *)
(***************************************************************************)

\* What Compose takes for granted of a rated charge: lines that are never
\* negative and add up to a total of the integer type (Result).
RatedAsComposeAssumes ==
    result.ok =>
      /\ \A k \in DOMAIN result.lines : result.lines[k].subtotal >= 0
      /\ SumOf([k \in DOMAIN result.lines |-> result.lines[k].subtotal]) = result.total
      /\ result.total \in 0 .. MaxInt

\* The bands that unit number u of a schedule is in.
BandsOf(tiers, u) ==
    {k \in DOMAIN tiers : /\ k > 1 => u > tiers[k - 1].upTo
                          /\ tiers[k].last \/ u <= tiers[k].upTo}

\* The models that read the schedule.
TieredModels == {"graduated", "volume", "stairstep"}

\* validateTiers lets through only schedules that price every unit once: no
\* gap and no overlap between bands, whichever model reads them.
EveryUnitIsPricedOnce ==
    result.ok /\ charge.model \in TieredModels =>
      \A u \in 1 .. MaxQuantity : Cardinality(BandsOf(charge.tiers, u)) = 1

BandOf(u) == charge.tiers[CHOOSE k \in BandsOf(charge.tiers, u) : TRUE]

Used == Chargeable(charge, quantity)

\* Graduated pricing charges each unit at the rate of its own band, and
\* rounds once for all of them (rateGraduated).
GraduatedIsMarginal ==
    result.ok /\ charge.model = "graduated" =>
      result.total - charge.flatFee =
        RoundRat(charge.rounding,
                 FoldLeft(RatPlus, RatZero,
                          [u \in 1 .. Used |-> ScaledAmount(1, BandOf(u).rate)]))

\* The models that price the quantity as a whole: volume and stairstep by the
\* one band it lands in (landingTier), package by the fewest blocks that hold it,
\* a part block above the allowance counting as one (ratePackage).
FewestBlocks(blocks) ==
    blocks * charge.size >= Used /\ (blocks - 1) * charge.size < Used

PricedAsAWhole ==
    result.ok /\ charge.model \in {"volume", "stairstep", "package"} /\ Used > 0 =>
      LET usage == result.total - charge.flatFee
      IN  \/ charge.model = "volume"
             /\ usage = RoundRat(charge.rounding, ScaledAmount(Used, BandOf(Used).rate))
          \/ charge.model = "stairstep" /\ usage = BandOf(Used).flat
          \/ charge.model = "package"
             /\ FewestBlocks(result.lines[1].units)
             /\ usage = result.lines[1].units * charge.price

\* More usage never costs less under per-unit, graduated and package pricing,
\* and a charge that more usage overflowed does not come back.
MoreUsageNeverCostsLess ==
    [][charge.model \in {"per_unit", "graduated", "package"} /\ quantity >= 0 =>
         IF result.ok THEN result'.ok => result'.total >= result.total
                      ELSE ~result'.ok]_vars

\* DESIGN.md, charge_test.go: "an exactly-whole tier keeps its exact amount"
\* when the rounded total is split back over the tiers (rateGraduated).
ExactTierKeepsItsAmount ==
    result.ok /\ charge.model = "graduated" /\ Used > 0 =>
      \A k \in DOMAIN Bands(charge.tiers, Used) :
        LET exact == Bands(charge.tiers, Used)[k].exact
        IN  exact.n % exact.d = 0 =>
              result.lines[k].subtotal = exact.n \div exact.d

=============================================================================
