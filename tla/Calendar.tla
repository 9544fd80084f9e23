------------------------------ MODULE Calendar ------------------------------
(***************************************************************************)
(* A billing cycle over time: time passes, and at every instant the next   *)
(* boundary is asked for again by the operators of Boundaries.             *)
(***************************************************************************)
EXTENDS Boundaries

CONSTANT Cycles    \* anchor, zone and unit, and the instants to ask from

ASSUME CyclesAssumption ==
    \A c \in Cycles :
       /\ {c.anchor, c.from, c.until, c.zone.at, c.zone.before, c.zone.after} \subseteq Int
       /\ c.zone.reading \in {c.zone.before, c.zone.after}
       /\ c.unit \in Units

VARIABLES cycle,    \* the cycle asked about
          now,      \* the instant it is asked at
          next,     \* NextBoundary
          aligned   \* NextCalendarBoundary

vars == <<cycle, now, next, aligned>>

Init == /\ cycle \in Cycles
        /\ now = cycle.from
        /\ next = NextBoundary(cycle.anchor, cycle.zone, now, cycle.unit)
        /\ aligned = NextCalendarBoundary(cycle.zone, now, cycle.unit)

Tick == /\ now < cycle.until
        /\ now' = now + 1
        /\ next' = NextBoundary(cycle.anchor, cycle.zone, now', cycle.unit)
        /\ aligned' = NextCalendarBoundary(cycle.zone, now', cycle.unit)
        /\ UNCHANGED cycle

Spec == Init /\ [][Tick]_vars

-----------------------------------------------------------------------------
(***************************************************************************)
(* Properties.                                                             *)
(***************************************************************************)
MonthIndex(date) == 12 * date.year + date.month
MonthAt(local)   == MonthIndex(DateOf(local \div TicksPerDay))

\* The local times that the zone's clocks skip when they go forward, and show
\* twice when they go back.
Skipped(zone)  == zone.at + zone.before .. zone.at + zone.after - 1
Repeated(zone) == zone.at + zone.after .. zone.at + zone.before - 1

\* No clock change takes a local time over the end of a month: a skipped one is
\* read within its month, and the clocks do not go back to an earlier month.
KeepsMonths(zone) ==
    /\ \A l \in Skipped(zone) : MonthAt(l - zone.before + zone.after) = MonthAt(l)
    /\ MonthAt(zone.at - 1 + zone.before) <= MonthAt(zone.at + zone.after)

\* NextBoundary, "the first anniversary cycle boundary strictly after from": a
\* boundary stays the next one until time reaches it, and no longer.  No cycle
\* is billed twice, none is passed over.
NoCycleIsPassedOver ==
    [][KeepsMonths(cycle.zone) => (next' # next <=> now' = next)]_vars

\* The month-end rule, stated of dates: an anniversary falls on the anchor's
\* day of the month, or on the last day of a month that has no such day.
IsAnniversary(t) ==
    LET a == Date(cycle.zone, cycle.anchor)
        d == Date(cycle.zone, t)
        tomorrow == Date(cycle.zone, t + TicksPerDay)
    IN  /\ Clock(cycle.zone, t) = Clock(cycle.zone, cycle.anchor)
        /\ d.day = a.day \/ (d.day < a.day /\ tomorrow.day = 1)
        /\ cycle.unit = "yearly" => d.month = a.month

\* TestNextBoundaryMonthEnd, "no drift": in a zone of one offset the boundaries
\* are the anniversaries, all of them and nothing else.
BoundariesAreAnniversaries ==
    [][cycle.zone.before = cycle.zone.after =>
         (IsAnniversary(now') <=> now' = next)]_vars

\* civilDay numbers the dates of the calendar in turn, with no gap at the end
\* of a month, a leap year or an era, before the year 0 too (TestCivilDay).
DatesAreNumberedInTurn ==
    CivilDay(cycle.zone, now) = Local(cycle.zone, now) \div TicksPerDay

\* NextCalendarBoundary: "the first of the next month for [Monthly], or the
\* first January for [Yearly], at midnight", as a local time.
NextFirst ==
    LET f == Date(cycle.zone, now)
    IN  TicksPerDay * (IF cycle.unit = "yearly" THEN DayOf(f.year + 1, 1, 1)
                       ELSE DayOf(f.year, f.month + 1, 1))

MidnightComesOnce(local) == local \notin Skipped(cycle.zone) \cup Repeated(cycle.zone)

\* Wherever that midnight comes once, it is the answer.
AlignedOnNextFirst ==
    MidnightComesOnce(NextFirst) => Local(cycle.zone, aligned) = NextFirst

\* It is the answer in a zone where every midnight comes once.
AlignedInOrdinaryZones ==
    (\A l \in Skipped(cycle.zone) \cup Repeated(cycle.zone) : l % TicksPerDay # 0)
      => AlignedOnNextFirst

=============================================================================
