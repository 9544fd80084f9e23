----------------------------- MODULE Proration -----------------------------
(***************************************************************************)
(* A change of plan over time: time passes, and at every instant the       *)
(* change is quoted again by the operators of Period.                      *)
(***************************************************************************)
EXTENDS Period

CONSTANTS Plans,     \* the changes asked for, by period, zone, basis and price
          First,     \* the instant of the first quote
          LastTick   \* bound: the instant of the last one

ASSUME PlansAssumption ==
    \A p \in Plans : /\ {p.start, p.end} \subseteq Int
                     /\ {p.zone.at, p.zone.before, p.zone.after} \subseteq Int
                     /\ {p.old, p.new} \subseteq Int64
ASSUME InstantsAssumption == First \in Int /\ LastTick \in Int

VARIABLES plan,   \* the change that is asked for
          now,    \* the instant at which it would take effect
          quote   \* what Change answers

vars == <<plan, now, quote>>

Init == /\ plan \in Plans
        /\ now = First
        /\ quote = Change(plan, now)

Tick == /\ now < LastTick
        /\ now' = now + 1
        /\ quote' = Change(plan, now')
        /\ UNCHANGED plan

Spec == Init /\ [][Tick]_vars

-----------------------------------------------------------------------------
(***************************************************************************)
(* Properties.                                                             *)
(***************************************************************************)

\* No clock change takes a zone from one date back to an earlier one.
DatesAdvance(zone) ==
    (zone.at - 1 + zone.before) \div TicksPerDay
      <= (zone.at + zone.after) \div TicksPerDay

\* ... nor leaves one out.
DatesFollow(zone) ==
    LET last  == (zone.at - 1 + zone.before) \div TicksPerDay
        first == (zone.at + zone.after) \div TicksPerDay
    IN  first \in {last, last + 1}

\* The plans for which elapsed time and dates agree on what comes later.
Orderly == plan.basis = "day" => DatesAdvance(plan.zone)

\* A credit gives back at most the old price and a charge takes at most the
\* new one, and they have the signs their names promise (Change).
WithinPrices ==
    quote.ok => /\ -plan.old <= quote.credit /\ quote.credit <= 0
                /\ 0 <= quote.charge /\ quote.charge <= plan.new

CreditAndCharge == Orderly => WithinPrices

\* proration.go: "the charge and net arithmetic cannot overflow - the guards
\* are defensive": Change never answers with an overflow, or any other error
\* but those its arguments call for.
WellFormed ==
    /\ plan.old >= 0 /\ plan.new >= 0
    /\ plan.mode \in Modes
    /\ plan.start < plan.end /\ now <= plan.end
    /\ \/ plan.basis = "second"
       \/ plan.basis = "day" /\ CivilDay(plan.zone, plan.start) < CivilDay(plan.zone, plan.end)

GuardsAreDefensive == Orderly /\ WellFormed => quote.ok

\* Used and remaining time partition the period exactly, on either basis and
\* whatever the clocks do (ProrateByDay, TestFractionDST).
UsedAndRemaining ==
    LET used      == Fraction(plan, plan.start, now)
        remaining == Fraction(plan, now, plan.end)
    IN  used.ok /\ remaining.ok =>
          used.n * remaining.d + remaining.n * used.d = used.d * remaining.d

\* A day counts once, however many hours it has: the days of a window are the
\* dates on which it was seen to begin (ProrateByDay).  A date that the clocks
\* leave out counts as a day too, though nobody saw it.
EachDayCountsOnce ==
    LET window == {t \in plan.start .. plan.end : t >= now}
        dates  == {CivilDay(plan.zone, t) : t \in window}
        whole  == {CivilDay(plan.zone, t) : t \in plan.start .. plan.end}
        f      == Fraction(plan, now, plan.end)
    IN  f.ok /\ plan.basis = "day" /\ window # {} /\ DatesFollow(plan.zone) =>
          f.n * (Cardinality(whole) - 1) = f.d * (Cardinality(dates) - 1)

\* A change between plans of the same price costs nothing when halves round
\* symmetrically: the credit is the mirror of the charge (Change, breakTie).
SamePriceIsFree ==
    quote.ok /\ plan.old = plan.new /\ plan.mode \in {"half_up", "half_even"} =>
      quote.net = 0

\* The later the change, the smaller the credit and the charge.
LaterIsLess ==
    [][Orderly /\ quote.ok /\ quote'.ok =>
         quote'.charge <= quote.charge /\ quote'.credit >= quote.credit]_vars

=============================================================================
