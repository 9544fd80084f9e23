----------------------------- MODULE MCCalendar -----------------------------
(***************************************************************************)
(* Fifteen months around a leap day, and the turns of other years, in days *)
(* of three ticks.                                                         *)
(***************************************************************************)
EXTENDS Calendar

Zone(at, before, after, reading) ==
    [at |-> at, before |-> before, after |-> after, reading |-> reading]
Fixed == Zone(0, 0, 0, 0)

Tick0(y, m, d) == DayOf(y, m, d) * TicksPerDay

\* Clock changes around the turn of a month: forward and back by a tick from
\* midnight and from the tick after, read either way.
FirstOfMarch == Tick0(2024, 3, 1)
Changes == {Zone(FirstOfMarch + h, 0, s, r) :
              h \in {0, 1}, s \in {-1, 1}, r \in {-1, 0, 1}}
Turns == {z \in Changes : z.reading \in {z.before, z.after}}

\* The last day of a year is skipped, as on Kiritimati in 1994.
Dateline == {Zone(Tick0(2023, 12, 31), 0, 3, r) : r \in {0, 3}}

Cycle(anchor, zone, unit, from, until) ==
    [anchor |-> anchor, zone |-> zone, unit |-> unit, from |-> from, until |-> until]

Anchors == {Tick0(2024, 1, 31), Tick0(2023, 1, 30) + 1, Tick0(2024, 2, 29) + 2,
            Tick0(2025, 6, 1), Tick0(2022, 8, 29), Tick0(1999, 12, 31) + 2}

LongCycles ==
    {Cycle(a, Fixed, u, Tick0(2023, 12, 20), Tick0(2025, 3, 2)) : a \in Anchors, u \in Units}
ChangingCycles ==
    {Cycle(a, z, u, z.at - 40, z.at + 40) :
       a \in Anchors, z \in Turns \cup Dateline, u \in Units}
FarCycles ==
    {Cycle(Tick0(2024, 2, 29), Fixed, "yearly", Tick0(y, m, 25), Tick0(y, m + 1, 5)) :
       y \in {-401, -400, -1, 0, 1, 1599, 1600, 1899, 1900, 1999, 2000}, m \in {2, 12}}

\* A month that begins with a skipped midnight, read by the later offset, as in
\* America/Asuncion on 2017-10-01.
SkippedMidnight ==
    {Cycle(FirstOfMarch, Zone(FirstOfMarch, 0, 1, 1), "monthly",
           FirstOfMarch - 40, FirstOfMarch + 80)}

SmallCycles == LongCycles \cup ChangingCycles \cup FarCycles

=============================================================================
