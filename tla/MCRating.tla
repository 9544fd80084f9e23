------------------------------ MODULE MCRating ------------------------------
(***************************************************************************)
(* Metering of every charge of a small universe, well formed or not.       *)
(***************************************************************************)
EXTENDS Metering

Rat(num, den) == [n |-> num, d |-> den]

Tier(upTo, last, rate, flat) ==
    [upTo |-> upTo, last |-> last, rate |-> rate, flat |-> flat]

Blank == [model |-> "none", rounding |-> "half_up", rate |-> NoRate,
          tiers |-> <<>>, size |-> 0, price |-> 0, allowance |-> 0, flatFee |-> 0]

Rates == {Rat(0, 1), Rat(1, 4), Rat(1, 1), Rat(3, 2)}

\* Three bands, all the rates: what graduated and volume pricing turn on.
Schedules ==
    {<<Tier(a, FALSE, x, 1), Tier(b, FALSE, y, 3), Tier(0, TRUE, z, 2)>> :
       a \in {1, 2}, b \in {3, 4}, x \in Rates, y \in Rates, z \in Rates}

\* Short schedules with every mistake validateTiers looks for.
AnyTiers == {Tier(u, l, r, f) : u \in {0, 2, 3}, l \in BOOLEAN,
                                r \in {Rat(1, 3), Rat(-1, 3), NoRate}, f \in {2, -1}}
ShortSchedules == {<<>>} \cup {<<t>> : t \in AnyTiers}
                         \cup {<<t, u>> : t \in AnyTiers, u \in AnyTiers}
                         \cup {<<Tier(a, FALSE, Rat(1, 3), 2), Tier(b, FALSE, Rat(1, 2), 1),
                                 Tier(0, TRUE, Rat(1, 1), 2)>> : a \in 0 .. 4, b \in 0 .. 4}

GoodCharges ==
    {[Blank EXCEPT !.model = m, !.rounding = r, !.tiers = s, !.flatFee = f] :
       m \in {"graduated", "volume"}, r \in Modes, s \in Schedules, f \in {0, 4}}
    \cup {[Blank EXCEPT !.model = "stairstep", !.tiers = s, !.allowance = a] :
       s \in Schedules, a \in {0, 2}}
AnySchedules ==
    {[Blank EXCEPT !.model = m, !.tiers = s] : m \in TieredModels, s \in ShortSchedules}
FlatCharges ==
    {[Blank EXCEPT !.model = "per_unit", !.rounding = r, !.rate = x, !.allowance = a] :
       r \in Modes \cup {"unset"}, x \in Rates \cup {NoRate, Rat(-1, 2)}, a \in {-1, 0, 2}}
    \cup {[Blank EXCEPT !.model = "package", !.size = s, !.price = p, !.flatFee = f] :
       s \in 0 .. 3, p \in {-1, 0, 2, 5}, f \in {-1, 0, 3}}
    \cup {Blank}
SmallCharges == GoodCharges \cup AnySchedules \cup FlatCharges

=============================================================================
