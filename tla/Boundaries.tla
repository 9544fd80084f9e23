----------------------------- MODULE Boundaries -----------------------------
(***************************************************************************)
(* proration.go: the boundaries of billing cycles, anniversaries of an     *)
(* anchor or the firsts of months and years, and the serial numbers of     *)
(* civil dates.                                                            *)
(*                                                                         *)
(* Instants count ticks of UTC from 1970-01-01, TicksPerDay to a day.  A   *)
(* zone changes its offset once, at the instant at.  Package time promises *)
(* of a local time that the change skips or repeats that it is read by one *)
(* of the two offsets, and not by which: reading is the one it is.         *)
(***************************************************************************)
EXTENDS Integers, FiniteSets

CONSTANT TicksPerDay

ASSUME TicksPerDayAssumption == TicksPerDay \in Nat \ {0}

Units == {"monthly", "yearly"}

-----------------------------------------------------------------------------
(***************************************************************************)
(* Package time: the Gregorian calendar and the clocks of a zone.          *)
(***************************************************************************)
LeapsBefore(y) == (y - 1) \div 4 - (y - 1) \div 100 + (y - 1) \div 400
YearStart(y)   == 365 * (y - 1970) + LeapsBefore(y) - LeapsBefore(1970)
IsLeap(y)      == YearStart(y + 1) - YearStart(y) = 366

DaysBeforeMonth == <<0, 31, 59, 90, 120, 151, 181, 212, 243, 273, 304, 334>>

\* The day of a date whose month and day may be out of range, as in time.Date.
DayOf(y, m, d) ==
    LET year  == y + (m - 1) \div 12
        month == ((m - 1) % 12) + 1
    IN  YearStart(year) + DaysBeforeMonth[month] + d - 1
          + (IF month > 2 /\ IsLeap(year) THEN 1 ELSE 0)

DateOf(day) ==
    LET near == 1970 + (day * 400) \div 146097
        year == CHOOSE y \in near - 1 .. near + 1 :
                  YearStart(y) <= day /\ day < YearStart(y + 1)
        month == CHOOSE m \in 1 .. 12 :
                  DayOf(year, m, 1) <= day /\ day < DayOf(year, m + 1, 1)
    IN  [year |-> year, month |-> month, day |-> day - DayOf(year, month, 1) + 1]

Offset(zone, t) == IF t < zone.at THEN zone.before ELSE zone.after
Local(zone, t)  == t + Offset(zone, t)
Date(zone, t)   == DateOf(Local(zone, t) \div TicksPerDay)
Clock(zone, t)  == Local(zone, t) % TicksPerDay

\* time.Date: the instant of a local time.
Instant(zone, day, clock) ==
    LET local    == day * TicksPerDay + clock
        readings == {o \in {zone.before, zone.after} : Offset(zone, local - o) = o}
    IN  local - (IF Cardinality(readings) = 1 THEN CHOOSE o \in readings : TRUE
                 ELSE zone.reading)

\* Go's integer division and remainder, which truncate.
GoDiv(a, b) == IF a < 0 THEN -((-a) \div b) ELSE a \div b
GoRem(a, b) == a - b * GoDiv(a, b)

-----------------------------------------------------------------------------
(***************************************************************************)
(* The civil day.                                                          *)
(***************************************************************************)

\* Faulty: the era of a year before 0 is truncated towards 0.
EraTruncated(y) == GoDiv(y, 400)

Era(y) == IF y >= 0 THEN GoDiv(y, 400) ELSE GoDiv(y - 399, 400)

CivilDay(zone, t) ==
    LET date == Date(zone, t)
        y    == IF date.month <= 2 THEN date.year - 1 ELSE date.year
        yoe  == y - Era(y) * 400
        mp   == IF date.month > 2 THEN date.month - 3 ELSE date.month + 9
        doy  == GoDiv(153 * mp + 2, 5) + date.day - 1
        doe  == yoe * 365 + GoDiv(yoe, 4) - GoDiv(yoe, 100) + doy
    IN  Era(y) * 146097 + doe - 719468

-----------------------------------------------------------------------------
(***************************************************************************)
(* Boundaries.                                                             *)
(***************************************************************************)
FloorDiv(a, b) ==
    GoDiv(a, b) - (IF GoRem(a, b) # 0 /\ (a < 0) # (b < 0) THEN 1 ELSE 0)
FloorMod(a, b) ==
    GoRem(a, b) + (IF GoRem(a, b) # 0 /\ (GoRem(a, b) < 0) # (b < 0) THEN b ELSE 0)

DaysInMonth(y, m) == DateOf(DayOf(y, m + 1, 0)).day

\* Faulty: the day is not clamped to the month, and runs into the next one.
CyclesUnclamped(anchor, zone, k, unit) ==
    LET a == Date(zone, anchor)
    IN  Instant(zone, IF unit = "yearly" THEN DayOf(a.year + k, a.month, a.day)
                      ELSE DayOf(a.year, a.month + k, a.day),
                Clock(zone, anchor))

\* The boundary k units from the anchor.
AddCycles(anchor, zone, k, unit) ==
    LET a     == Date(zone, anchor)
        total == a.month - 1 + k
        year  == IF unit = "yearly" THEN a.year + k ELSE a.year + FloorDiv(total, 12)
        month == IF unit = "yearly" THEN a.month ELSE FloorMod(total, 12) + 1
        last  == DaysInMonth(year, month)
    IN  Instant(zone, DayOf(year, month, IF a.day > last THEN last ELSE a.day),
                Clock(zone, anchor))

EstimateSteps(anchor, zone, from, unit) ==
    LET a == Date(zone, anchor)
        f == Date(zone, from)
    IN  IF unit = "yearly" THEN f.year - a.year
        ELSE (f.year - a.year) * 12 + (f.month - a.month)

\* The first step from the estimate on whose boundary is after from.
StepAfter(anchor, zone, from, unit) ==
    LET walk[k \in Int] ==
          IF AddCycles(anchor, zone, k, unit) > from THEN k ELSE walk[k + 1]
    IN  walk[EstimateSteps(anchor, zone, from, unit)]

\* Faulty: one step past the estimate, without a walk.
NextByEstimate(anchor, zone, from, unit) ==
    AddCycles(anchor, zone, EstimateSteps(anchor, zone, from, unit) + 1, unit)

NextBoundary(anchor, zone, from, unit) ==
    AddCycles(anchor, zone, StepAfter(anchor, zone, from, unit), unit)

\* Faulty: a calendar cycle is anchored on the day asked from.
CalendarFromToday(zone, from, unit) ==
    NextBoundary(Instant(zone, Local(zone, from) \div TicksPerDay, 0), zone, from, unit)

NextCalendarBoundary(zone, from, unit) ==
    LET f == Date(zone, from)
    IN  NextBoundary(Instant(zone, DayOf(f.year, IF unit = "yearly" THEN 1 ELSE f.month, 1), 0),
                     zone, from, unit)

=============================================================================
