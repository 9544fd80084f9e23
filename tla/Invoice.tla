------------------------------ MODULE Invoice ------------------------------
(***************************************************************************)
(* The invoice under composition and what each step of compose.go does to  *)
(* it.  Every step is a pair: a predicate, the step's validation and the   *)
(* overflow tests it runs into, and the invoice it leaves when it passes.  *)
(*                                                                         *)
(* Lines are kept as the amount posted under each kind of line: the steps  *)
(* read Total, Subtotal and the recorded draws, never a line, and labels   *)
(* and order are what the caller asked for.  The deferred draws are kept   *)
(* as the sum recorded against each balance pointer, which is all that the *)
(* netting loop of a draw and the commit loop make of them.                *)
(***************************************************************************)
EXTENDS Money

CONSTANTS Balances,   \* the caller-owned balances, by the pointer to them
          Nil         \* the nil pointer: no balance, no percentage

ASSUME NilAssumption == Nil \notin Balances

Kinds == {"charge", "percent", "amount", "minimum", "draw"}

\* The validated currency matters to the steps through its rounding mode.
EmptyInvoice(rounding) ==
    [rounding |-> rounding,
     total    |-> 0,
     subtotal |-> 0,
     posted   |-> [k \in Kinds |-> 0],
     draws    |-> [b \in Balances |-> 0]]

(***************************************************************************)
(* addLine: the running total moves by the line, or the step fails.        *)
(*                                                                         *)
(* Definitions marked "Faulty" here and elsewhere are plausible mistakes   *)
(* in the definition they precede; nothing uses them but the runs that     *)
(* confirm that a property would notice.                                   *)
(***************************************************************************)
\* Faulty: the running total is not guarded.
LineFitsUnguarded(inv, amount) == TRUE

LineFits(inv, amount) == IsInt64(inv.total + amount)

AddLine(inv, kind, amount) ==
    [inv EXCEPT !.total = @ + amount, !.posted[kind] = @ + amount]

(***************************************************************************)
(* Charged.  A rating is the outcome of Charge.Rate for the step's charge  *)
(* and quantity: whether the charge is in the invoice currency, whether    *)
(* Rate succeeded, and the sum of its lines or why it failed.  Those lines *)
(* are never negative, so that one of them overflows the running total     *)
(* exactly when their sum does.  The gross is tested before the first line *)
(* is added.                                                               *)
(***************************************************************************)
RatingFrom(sameCurrency, outcome) ==
    [sameCurrency |-> sameCurrency, rated |-> outcome.ok,
     total |-> IF outcome.ok THEN outcome.total ELSE 0,
     why   |-> IF outcome.ok THEN "none" ELSE outcome.why]

ChargedPasses(inv, rating) ==
    /\ rating.sameCurrency
    /\ rating.rated
    /\ IsInt64(inv.subtotal + rating.total)
    /\ LineFits(inv, rating.total)

\* What the step fails with when it does not pass; likewise below.
ChargedFailure(rating) ==
    IF ~rating.sameCurrency THEN "ErrCurrencyMismatch"
    ELSE IF ~rating.rated THEN rating.why ELSE "ErrOverflow"

ChargedApplied(inv, rating) ==
    [AddLine(inv, "charge", rating.total) EXCEPT !.subtotal = @ + rating.total]

(***************************************************************************)
(* PercentOff.  Nothing is taken off a total that is zero or negative; the *)
(* exact fraction is rounded once, and a zero discount adds no line.       *)
(***************************************************************************)
Discount(inv, pct) == Round(inv.rounding, inv.total * pct.n, pct.d)

PercentOffPasses(inv, pct) ==
    /\ pct # Nil
    /\ 0 <= pct.n /\ pct.n <= pct.d
    /\ inv.total > 0 => /\ IsInt64(Discount(inv, pct))
                        /\ LineFits(inv, Wrap(-Discount(inv, pct)))

PercentOffFailure(pct) ==
    IF pct = Nil \/ pct.n < 0 \/ pct.n > pct.d THEN "ErrBadDiscount" ELSE "ErrOverflow"

PercentOffApplied(inv, pct) ==
    IF inv.total <= 0 THEN inv
    ELSE AddLine(inv, "percent", Wrap(-Discount(inv, pct)))

(***************************************************************************)
(* AmountOff.  It may leave the total below zero.                          *)
(***************************************************************************)
AmountOffPasses(inv, minor) == minor >= 0 /\ LineFits(inv, Wrap(-minor))

AmountOffFailure(minor) == IF minor < 0 THEN "ErrBadDiscount" ELSE "ErrOverflow"

AmountOffApplied(inv, minor) == AddLine(inv, "amount", Wrap(-minor))

(***************************************************************************)
(* MinimumCharge.                                                          *)
(***************************************************************************)
MinimumPasses(inv, floor) ==
    /\ floor >= 0
    /\ inv.total < floor => /\ IsInt64(floor - inv.total)
                            /\ LineFits(inv, floor - inv.total)

MinimumFailure(floor) == IF floor < 0 THEN "ErrBadFloor" ELSE "ErrOverflow"

\* Faulty: the line shows the floor, not the top-up.
MinimumAppliedWhole(inv, floor) ==
    IF inv.total >= floor THEN inv
    ELSE [inv EXCEPT !.total = floor, !.posted["minimum"] = @ + floor]

MinimumApplied(inv, floor) ==
    IF inv.total >= floor THEN inv
    ELSE AddLine(inv, "minimum", floor - inv.total)

(***************************************************************************)
(* DrawCredit and DrawCommitment.  The balance still reads its value from  *)
(* before the composition, so the draws already recorded against the same  *)
(* pointer are netted off here.                                            *)
(***************************************************************************)
\* Faulty: draws already recorded on the pointer are forgotten.
AvailableRaw(inv, b, balance) == balance

Available(inv, b, balance) == Wrap(balance - inv.draws[b])

\* Faulty: the draw is capped at the balance only.
DrawAmountUncapped(inv, b, balance) == Available(inv, b, balance)

DrawAmount(inv, b, balance) ==
    IF inv.total < Available(inv, b, balance)
    THEN inv.total ELSE Available(inv, b, balance)

\* balance is the value the pointer b reads.
DrawPasses(inv, b, balance) ==
    /\ balance >= 0
    /\ DrawAmount(inv, b, balance) > 0 =>
         LineFits(inv, Wrap(-DrawAmount(inv, b, balance)))

DrawFailure(balance) == IF balance < 0 THEN "ErrBadBalance" ELSE "ErrOverflow"

\* Faulty: a second draw replaces the record of the first.
DrawAppliedOnce(inv, b, balance) ==
    LET draw == DrawAmount(inv, b, balance)
    IN  IF draw <= 0 THEN inv
        ELSE [AddLine(inv, "draw", Wrap(-draw)) EXCEPT !.draws[b] = draw]

DrawApplied(inv, b, balance) ==
    LET draw == DrawAmount(inv, b, balance)
    IN  IF draw <= 0 THEN inv
        ELSE [AddLine(inv, "draw", Wrap(-draw)) EXCEPT !.draws[b] = @ + draw]

-----------------------------------------------------------------------------
(***************************************************************************)
(* What an invoice is, and what relates its parts.                         *)
(***************************************************************************)
InvoiceType == [rounding : Modes \cup {"unset"},
                total    : Int64,
                subtotal : 0 .. MaxInt,
                posted   : [Kinds -> Int],
                draws    : [Balances -> 0 .. MaxInt]]

Reconciled(inv) ==
    /\ inv.total = inv.posted["charge"] + inv.posted["percent"]
                    + inv.posted["amount"] + inv.posted["minimum"]
                    + inv.posted["draw"]
    /\ inv.subtotal = inv.posted["charge"]

\* A total below zero is the work of fixed discounts alone.
NoOtherDeficit(inv) == inv.total >= inv.posted["amount"]

=============================================================================
