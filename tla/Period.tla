------------------------------ MODULE Period -------------------------------
(***************************************************************************)
(* proration.go: the fraction of a billing period that a window covers, by *)
(* elapsed time or by calendar day, and the credit and charge of a change  *)
(* of plan.                                                                *)
(*                                                                         *)
(* An instant is a count of ticks (nanoseconds in the code) from the epoch *)
(* of UTC, TicksPerSecond to a second and TicksPerDay to a day of the      *)
(* wall clock.  A zone is an offset from UTC that changes once: before is  *)
(* in force until the instant at, after from then on.  The serial number   *)
(* of a date is the whole part of local time in days, which is what        *)
(* civilDay makes of the date that time.In reports.                        *)
(***************************************************************************)
EXTENDS Money, FiniteSets

CONSTANTS TicksPerSecond, TicksPerDay

ASSUME TicksAssumption ==
    TicksPerSecond \in Nat \ {0} /\ TicksPerDay \in Nat \ {0}

Fails(why) == [ok |-> FALSE, why |-> why]
Ratio(num, den) == [ok |-> TRUE, n |-> num, d |-> den]

(***************************************************************************)
(* Measuring time.                                                         *)
(***************************************************************************)
CivilDay(zone, t) ==
    (t + (IF t < zone.at THEN zone.before ELSE zone.after)) \div TicksPerDay

\* Faulty: both ends of a window count as a day of it.
DaysInclusive(zone, from, to) == CivilDay(zone, to) - CivilDay(zone, from) + 1

\* Faulty: a day is so many hours of elapsed time.
DaysElapsed(zone, from, to) == (to - from) \div TicksPerDay

DaysBetween(zone, from, to) == CivilDay(zone, to) - CivilDay(zone, from)

\* Faulty: the parts below the second are added where the earlier one is to be
\* subtracted.
NanosAdded(from, to) ==
    ((to \div TicksPerSecond) - (from \div TicksPerSecond)) * TicksPerSecond
      + ((to % TicksPerSecond) + (from % TicksPerSecond))

\* By Unix seconds, then the parts below the second.
NanosBetween(from, to) ==
    ((to \div TicksPerSecond) - (from \div TicksPerSecond)) * TicksPerSecond
      + ((to % TicksPerSecond) - (from % TicksPerSecond))

\* Faulty: the window is not clamped to the start of the period.
MaxTimeFirst(a, b) == a

MaxTime(a, b) == IF a > b THEN a ELSE b
MinTime(a, b) == IF a < b THEN a ELSE b

\* Period.Fraction, of the window from .. to.
Fraction(p, from, to) ==
    LET lo    == MaxTime(from, p.start)
        hi    == MinTime(to, p.end)
        empty == ~(hi > lo)
        days  == DaysBetween(p.zone, p.start, p.end)
    IN  IF ~(p.end > p.start) THEN Fails("ErrBadPeriod")
        ELSE IF from > to THEN Fails("ErrBadWindow")
        ELSE CASE p.basis = "second" ->
                    IF empty THEN Ratio(0, 1)
                    ELSE Ratio(NanosBetween(lo, hi), NanosBetween(p.start, p.end))
               [] p.basis = "day" ->
                    IF days <= 0 THEN Fails("ErrBadPeriod")
                    ELSE IF empty THEN Ratio(0, 1)
                    ELSE Ratio(DaysBetween(p.zone, lo, hi), days)
               [] OTHER -> Fails("ErrBadBasis")

(***************************************************************************)
(* Money over time.  A nil fraction, which Prorate refuses, is never       *)
(* passed by Change and is left out.                                       *)
(***************************************************************************)
Prorate(amount, mode, num, den) ==
    IF mode \notin Modes THEN Fails("ErrBadCurrency")
    ELSE IF ~IsInt64(Round(mode, amount * num, den)) THEN Fails("ErrOverflow")
    ELSE [ok |-> TRUE, minor |-> Round(mode, amount * num, den)]

Change(p, at) ==
    LET remaining == Fraction(p, at, p.end)
        credit    == Prorate(p.old, p.mode, -remaining.n, remaining.d)
        charge    == Prorate(p.new, p.mode, remaining.n, remaining.d)
    IN  IF p.old < 0 \/ p.new < 0 THEN Fails("ErrNegativeAmount")
        ELSE IF ~remaining.ok THEN remaining
        ELSE IF ~credit.ok THEN credit
        ELSE IF ~charge.ok THEN charge
        ELSE IF ~IsInt64(charge.minor + credit.minor) THEN Fails("ErrOverflow")
        ELSE [ok |-> TRUE, credit |-> credit.minor, charge |-> charge.minor,
              net |-> charge.minor + credit.minor]

=============================================================================
