----------------------------- MODULE Playground -----------------------------
(***************************************************************************)
(* The browser playground's engine (cmd/tariff-wasm): the same endpoints   *)
(* as tariffd's, written a second time for a page that calls them with     *)
(* objects or texts of its own, with a copy of tariffd's guards and codes. *)
(* Fields has what texts and bodies are.                                   *)
(*                                                                         *)
(* A text of a time may have the form "date".  The argument of a call is   *)
(* known by its text: a text as it is, an object as JSON.stringify writes  *)
(* it, whose numbers are then floats already.  That of loadScenario is a   *)
(* bare name, an object with a name, or absent.                            *)
(***************************************************************************)
EXTENDS Invoice, Fields, SequencesExt

CONSTANTS Scale, NoRate, TicksPerSecond, TicksPerDay,
          MaxRateLen,        \* 64 in the code
          MaxRateExp,        \* 1000 in the code
          MaxComposeSteps,   \* 512 in the code
          MaxExact           \* 2^53: floats hold every integer up to it

Rates   == INSTANCE Rating
Periods == INSTANCE Period
Cycles  == INSTANCE Boundaries

-----------------------------------------------------------------------------
(***************************************************************************)
(* Errors.  A page sees no status, only a code.                            *)
(***************************************************************************)
Answer(value)    == [code |-> "ok", field |-> "none", value |-> value]
ErrObj(code)     == [code |-> code, field |-> "none", value |-> Nil]
BadArg(field)    == [ErrObj("invalid_argument") EXCEPT !.field = field]
Bad(field)       == Refused(BadArg(field))

\* toJS goes through JSON.parse, which makes every number a float: the nearest
\* multiple of a spacing that doubles with the size, the even one of two.
Size(n) == IF n < 0 THEN -n ELSE n

Spacing[size \in Nat] ==
    IF size <= 2 * MaxExact THEN 2 ELSE 2 * Spacing[(size + 1) \div 2]

Number(n) ==
    LET spacing == Spacing[Size(n)]
    IN  IF Size(n) <= MaxExact THEN n ELSE spacing * Round("half_even", n, spacing)

\* The text that goes with an amount is Go's.
Amount(minor) == [minor |-> Number(minor), text |-> Format(minor, Scale)]

\* errCode: each sentinel is told by its own name.
ErrCode(why) ==
    CASE why = "ErrBadDiscount"      -> "bad_discount"
      [] why = "ErrNegativeAmount"   -> "negative_amount"
      [] why = "ErrNegativeQuantity" -> "negative_quantity"
      [] why = "ErrBadPeriod"        -> "bad_period"
      [] why = "ErrBadWindow"        -> "bad_window"
      [] why = "ErrBadBasis"         -> "bad_basis"
      [] why = "ErrBadFloor"         -> "bad_floor"
      [] why = "ErrBadBalance"       -> "bad_balance"
      [] why = "ErrCurrencyMismatch" -> "currency_mismatch"
      [] why = "ErrNilStep"          -> "nil_step"
      [] why = "ErrBadCurrency"      -> "bad_currency"
      [] why = "ErrBadAllowance"     -> "bad_allowance"
      [] why = "ErrNoRate"           -> "no_rate"
      [] why = "ErrEmptyTiers"       -> "empty_tiers"
      [] why = "ErrTierOrder"        -> "tier_order"
      [] why = "ErrUnknownModel"     -> "unknown_model"
      [] why = "ErrBadPackage"       -> "bad_package"
      [] why = "ErrOverflow"         -> "overflow"
      [] why = "ErrBadAllocation"    -> "bad_allocation"
      [] OTHER                       -> "error"

Told(outcome, value) ==
    IF outcome.ok THEN Answer(value) ELSE ErrObj(ErrCode(outcome.why))

\* json.Unmarshal: one value and nothing after it; unknown fields are ignored.
Unmarshal(body) ==
    IF body \in {"malformed", "second_value", "closed_twice"} THEN Refused(ErrObj("error"))
    ELSE Parsed(body)

-----------------------------------------------------------------------------
(***************************************************************************)
(* Fields.                                                                 *)
(***************************************************************************)
\* Faulty: the exponent of a rate is not looked at.
RatStringUncapped(field, text) ==
    IF text.len = 0 THEN Parsed(NoRate)
    ELSE IF text.len <= MaxRateLen /\ text.rat # Nil THEN Parsed(text.rat)
    ELSE Bad(field)

RatString(field, text) ==
    IF text.len = 0 THEN Parsed(NoRate)
    ELSE IF /\ text.len <= MaxRateLen
            /\ text.exp # Nil => /\ text.exp.len \in 1 .. 4
                                 /\ text.exp.value # Nil
                                 /\ text.exp.value <= MaxRateExp
            /\ text.rat # Nil
    THEN Parsed(text.rat)
    ELSE Bad(field)

\* toCurrency and parseRounding.
ToCurrency(c) ==
    IF c.decimals = Nil THEN Bad("currency.decimals")
    ELSE IF c.rounding = "" THEN Parsed("unset")
    ELSE IF c.rounding \in Modes THEN Parsed(c.rounding)
    ELSE Bad("currency.rounding")

\* A text of a small vocabulary, which may be absent.
Word(field, text, words, default) ==
    IF text = "" /\ default # "" THEN Parsed(default)
    ELSE IF text \in words THEN Parsed(text) ELSE Bad(field)

ParseModel(text) ==
    Word("model", text, {"per_unit", "graduated", "volume", "package", "stairstep"}, "")
ParseBasis(text) == Word("basis", text, {"second", "day"}, "second")
ParseUnit(text)  == Word("unit", text, {"monthly", "yearly"}, "monthly")

\* parseTime takes a date alone, too, for its midnight at UTC.
ParseTime(field, text) ==
    IF text.form = "timestamp" THEN Parsed([at |-> text.at, offset |-> text.offset])
    ELSE IF text.form = "date" THEN Parsed([at |-> text.at, offset |-> 0])
    ELSE Bad(field)

-----------------------------------------------------------------------------
(***************************************************************************)
(* rate, proration, fraction and boundary.                                 *)
(***************************************************************************)
ToCharge(spec) ==
    LET model == ParseModel(spec.model)
        cur   == ToCurrency(spec.currency)
        rate  == RatString("unitRate", spec.rate)
        rates == [k \in DOMAIN spec.tiers |-> RatString("tiers.unitRate", spec.tiers[k].rate)]
        tiers == [k \in DOMAIN spec.tiers |->
                    [spec.tiers[k] EXCEPT !.rate = rates[k].value]]
    IN  Joined(<<model, cur, rate, Joined(rates, tiers)>>,
               [model |-> model.value, rounding |-> cur.value, rate |-> rate.value,
                tiers |-> tiers, size |-> spec.size, price |-> spec.price,
                allowance |-> spec.allowance, flatFee |-> spec.flatFee])

ToLineDTO(line) == [units |-> Number(line.units), subtotal |-> Amount(line.subtotal)]

HandleRate(q) ==
    LET charge  == ToCharge(q)
        outcome == Rates!Rate(charge.value, q.quantity)
    IN  Concluded(<<Unmarshal(q.body), charge>>,
                  Told(outcome, [total |-> Amount(outcome.total),
                                 lines |-> [k \in DOMAIN outcome.lines |->
                                              ToLineDTO(outcome.lines[k])]]))

ToPeriod(q) == <<ParseTime("period.start", q.start), ParseTime("period.end", q.end)>>

\* The period of a request, and the basis its fraction is taken by.
Measured(q) ==
    LET ends == ToPeriod(q)
    IN  [start |-> ends[1].value.at, end |-> ends[2].value.at,
         zone |-> ZoneOf(ends[1].value), basis |-> ParseBasis(q.basis).value]

HandleFraction(q) ==
    LET from    == ParseTime("from", q.from)
        to      == ParseTime("to", q.to)
        ends    == ToPeriod(q)
        outcome == Periods!Fraction(Measured(q), from.value.at, to.value.at)
    IN  Concluded(<<Unmarshal(q.body), ends[1], ends[2], from, to, ParseBasis(q.basis)>>,
                  Told(outcome, [fraction |-> Canonical(outcome)]))

\* The answer echoes the fraction that the amounts were scaled by, which is
\* taken once more.
HandleProration(q) ==
    LET cur     == ToCurrency(q.currency)
        at      == ParseTime("at", q.at)
        ends    == ToPeriod(q)
        period  == Measured(q)
        plan    == [start |-> period.start, end |-> period.end, zone |-> period.zone,
                    basis |-> period.basis, mode |-> cur.value, old |-> q.old, new |-> q.new]
        outcome == Periods!Change(plan, at.value.at)
        echo    == Canonical(Periods!Fraction(period, at.value.at, period.end))
    IN  Concluded(<<Unmarshal(q.body), cur, ends[1], ends[2], at, ParseBasis(q.basis)>>,
                  Told(outcome, [credit |-> Amount(outcome.credit),
                                 charge |-> Amount(outcome.charge),
                                 net |-> Amount(outcome.net), fraction |-> echo]))

\* Format(time.RFC3339) tells no parts of a second, and a year after 9999 by
\* more digits than a timestamp has.
Formatted(instant, offset) ==
    LET date == Cycles!DateOf((instant + offset) \div TicksPerDay)
    IN  [form |-> IF date.year \in 0 .. 9999 THEN "timestamp" ELSE "unreadable",
         offset |-> offset, at |-> instant - (instant % TicksPerSecond)]

HandleBoundary(q) ==
    LET from   == ParseTime("from", q.from)
        unit   == ParseUnit(q.unit)
        anchor == IF q.calendar THEN from
                  ELSE IF q.anchor.form = "empty" THEN Bad("anchor")
                  ELSE ParseTime("anchor", q.anchor)
        zone   == ZoneOf(anchor.value)
        next   == IF q.calendar
                  THEN Cycles!NextCalendarBoundary(zone, from.value.at, unit.value)
                  ELSE Cycles!NextBoundary(anchor.value.at, zone, from.value.at, unit.value)
    IN  Concluded(<<Unmarshal(q.body), from, unit, anchor>>,
                  Answer([next |-> Formatted(next, anchor.value.offset)]))

-----------------------------------------------------------------------------
(***************************************************************************)
(* compose: a request has a currency and steps, as in ComposeService.      *)
(***************************************************************************)
ParseStep(s) ==
    CASE s.type = "charge" ->
           IF s.charge = Nil THEN Bad("steps.charge") ELSE ToCharge(s.charge)
      [] s.type = "percent_off" -> RatString("steps.pct", s.pct)
      [] s.type \in {"amount_off", "minimum", "credit", "commitment"} -> Parsed(s)
      [] OTHER -> Bad("steps.type")

\* The cap on the steps, and parseSteps.
CapSteps(steps)   == IF Len(steps) > MaxComposeSteps THEN Bad("steps") ELSE Parsed(steps)
ParseSteps(steps) == Joined([i \in DOMAIN steps |-> ParseStep(steps[i])], steps)

\* What buildSteps makes of a charge and of a percentage, which may be nil.
RatingOf(q, s) ==
    RatingFrom(s.charge.currency.code = q.currency.code,
               Rates!Rate(ToCharge(s.charge).value, s.quantity))

PctOf(s) ==
    LET pct == RatString("steps.pct", s.pct).value IN IF pct = NoRate THEN Nil ELSE pct

StepPasses(inv, q, i) ==
    LET s == q.steps[i]
    IN  \/ s.type = "charge" /\ ChargedPasses(inv, RatingOf(q, s))
        \/ s.type = "percent_off" /\ PercentOffPasses(inv, PctOf(s))
        \/ s.type = "amount_off" /\ AmountOffPasses(inv, s.minor)
        \/ s.type = "minimum" /\ MinimumPasses(inv, s.minor)
        \/ s.type \in {"credit", "commitment"} /\ DrawPasses(inv, i, s.balance)

StepApplied(inv, q, i) ==
    LET s == q.steps[i]
    IN  CASE s.type = "charge"      -> ChargedApplied(inv, RatingOf(q, s))
          [] s.type = "percent_off" -> PercentOffApplied(inv, PctOf(s))
          [] s.type = "amount_off"  -> AmountOffApplied(inv, s.minor)
          [] s.type = "minimum"     -> MinimumApplied(inv, s.minor)
          [] OTHER                  -> DrawApplied(inv, i, s.balance)

StepFailure(q, s) ==
    CASE s.type = "charge"      -> ChargedFailure(RatingOf(q, s))
      [] s.type = "percent_off" -> PercentOffFailure(PctOf(s))
      [] s.type = "amount_off"  -> AmountOffFailure(s.minor)
      [] s.type = "minimum"     -> MinimumFailure(s.minor)
      [] OTHER                  -> DrawFailure(s.balance)

\* Compose over the first n steps, each draw with a balance of its own; why is
\* that of the first step to fail, or of a currency without a rounding.
Composed(q, n) ==
    LET mode == ToCurrency(q.currency).value
        step(acc, i) ==
          IF ~acc.ok THEN acc
          ELSE IF StepPasses(acc.inv, q, i)
               THEN [acc EXCEPT !.inv = StepApplied(@, q, i)]
               ELSE [acc EXCEPT !.ok = FALSE, !.why = StepFailure(q, q.steps[i])]
    IN  FoldLeft(step,
                 [ok |-> mode \in Modes, why |-> "ErrBadCurrency", inv |-> EmptyInvoice(mode)],
                 [i \in 1 .. n |-> i])

\* The call of Compose over the first n steps as a part of the handler.
Invoiced(outcome) ==
    IF outcome.ok THEN Parsed(outcome.inv) ELSE Refused(ErrObj(ErrCode(outcome.why)))

\* The whole and its prefixes, each composed anew.
Outcomes(q) == [n \in 0 .. Len(q.steps) |-> Composed(q, n)]

StepEffects(q, outcomes) ==
    LET total(n) == IF n = 0 THEN 0 ELSE outcomes[n].inv.total
    IN  [k \in 1 .. Len(q.steps) |-> Wrap(total(k) - total(k - 1))]

\* Faulty: the effect of the step alone.
RunningAlone(moves, k) == moves[k]

\* The running column: a sum of the effects that nothing guards.
Running(moves, k) ==
    FoldLeft(LAMBDA sum, move : Wrap(sum + move), 0, SubSeq(moves, 1, k))

\* The balance after the draw, nil for a step that draws on none.
BalanceLeft(q, inv, k) ==
    IF q.steps[k].type \in {"credit", "commitment"}
    THEN Amount(Wrap(q.steps[k].balance - inv.draws[k])) ELSE Nil

\* The lines are those of the library, as in ComposeService.
ComposeResponse(q, inv, effects) ==
    [total |-> Amount(inv.total), subtotal |-> Amount(inv.subtotal),
     steps |-> [k \in 1 .. Len(q.steps) |-> [effect  |-> Amount(effects[k]),
                                             running |-> Amount(Running(effects, k)),
                                             balance |-> BalanceLeft(q, inv, k)]]]

\* What follows the parsing: the whole, its prefixes, and the answer.
Responded(q, outcomes) ==
    LET whole    == outcomes[Len(q.steps)]
        prefixes == [n \in 1 .. Len(q.steps) |-> Invoiced(outcomes[n])]
        effects  == StepEffects(q, outcomes)
    IN  Concluded(<<Invoiced(whole), Joined(prefixes, effects)>>,
          Answer(ComposeResponse(q, whole.inv, effects)))

HandleCompose(q) ==
    Concluded(<<Unmarshal(q.body), CapSteps(q.steps), ToCurrency(q.currency),
                ParseSteps(q.steps)>>,
      Responded(q, Outcomes(q)))

-----------------------------------------------------------------------------
(***************************************************************************)
(* The presets, by their names.                                            *)
(***************************************************************************)
Scenarios     == {"graduated-vs-volume", "order-matters", "mid-cycle-upgrade"}
ScenarioOrder == <<"graduated-vs-volume", "order-matters", "mid-cycle-upgrade">>

\* A name without a preset is not listed.
ScenarioList == SelectSeq(ScenarioOrder, LAMBDA name : name \in Scenarios)

ScenarioName(argument) == IF argument.form \in {"bare", "object"} THEN argument.name ELSE ""

HandleLoadScenario(q) ==
    IF ScenarioName(q.argument) \in Scenarios THEN Answer(ScenarioName(q.argument))
    ELSE ErrObj("unknown_scenario")

-----------------------------------------------------------------------------
\* register: an absent argument is an empty object, which has no fields.
Handle(q) ==
    CASE q.endpoint = "rate"      -> HandleRate(q)
      [] q.endpoint = "proration" -> HandleProration(q)
      [] q.endpoint = "fraction"  -> HandleFraction(q)
      [] q.endpoint = "boundary"  -> HandleBoundary(q)
      [] q.endpoint = "compose"   -> HandleCompose(q)
      [] q.endpoint = "scenario"  -> HandleLoadScenario(q)

=============================================================================
