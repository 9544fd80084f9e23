---------------------------- MODULE MCProration ----------------------------
(***************************************************************************)
(* Periods of up to three days of four ticks, two ticks to a second, in    *)
(* zones whose clocks go forward, back, back across midnight, and over a   *)
(* date.                                                                   *)
(***************************************************************************)
EXTENDS Proration

Zone(at, before, after) == [at |-> at, before |-> before, after |-> after]

Fixed    == Zone(0, 0, 0)
Forward  == Zone(6, 0, 1)     \* a short day
Back     == Zone(7, 1, 0)     \* a long day
AtTwelve == Zone(4, 0, -1)    \* midnight becomes an hour to midnight
\* A tick past midnight becomes a tick before it: the date is set back.
PastTwelve == Zone(9, 0, -2)
\* Date 1 is followed by date 3.
Skipping == Zone(6, 0, 7)

Plan(start, end, zone, basis, mode, old, new) ==
    [start |-> start, end |-> end, zone |-> zone, basis |-> basis,
     mode |-> mode, old |-> old, new |-> new]

Prices == {-1, 0, 3, MaxInt}

OrdinaryPlans ==
    {Plan(s, e, z, b, m, x, y) :
       s \in 0 .. 5, e \in 3 .. 12, z \in {Fixed, Forward, Back, AtTwelve},
       b \in {"second", "day"}, m \in Modes, x \in {0, 3}, y \in {0, 3, MaxInt}}
MalformedPlans ==
    {Plan(1, e, Fixed, b, m, x, y) :
       e \in {1, 2, 8}, b \in {"second", "day", "hour"}, m \in {"floor", "unset"},
       x \in Prices, y \in Prices}
OddZonePlans ==
    {Plan(s, e, PastTwelve, b, "half_up", 2, 2) :
       s \in 0 .. 8, e \in 3 .. 12, b \in {"second", "day"}}
    \cup {Plan(s, e, Skipping, "day", "half_up", 2, 3) : s \in 0 .. 8, e \in 3 .. 12}

SmallPlans == OrdinaryPlans \cup MalformedPlans \cup OddZonePlans

=============================================================================
