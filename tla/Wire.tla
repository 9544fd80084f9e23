-------------------------------- MODULE Wire --------------------------------
(***************************************************************************)
(* tariffd's endpoints (internal/api: dto.go, rate.go, proration.go,       *)
(* errors.go): a body is decoded, its fields are parsed in turn, the       *)
(* library is called, and what it answers is rendered.  ComposeService has *)
(* the handler of the compose endpoint; Fields has what texts and bodies   *)
(* are.                                                                    *)
(***************************************************************************)
EXTENDS Money, Fields

CONSTANTS Nil, Scale, NoRate, TicksPerSecond, TicksPerDay,
          MaxRateLen,   \* 64 in the code
          MaxRateExp    \* 1000 in the code

Rates   == INSTANCE Rating
Periods == INSTANCE Period
Cycles  == INSTANCE Boundaries

-----------------------------------------------------------------------------
(***************************************************************************)
(* Answers: a status, the code of an error or "ok", the field an error is  *)
(* about, and a value.                                                     *)
(***************************************************************************)
Answer(value) == [status |-> 200, code |-> "ok", field |-> "none", value |-> value]
Refusal(status, code, field) ==
    [status |-> status, code |-> code, field |-> field, value |-> Nil]

\* An amount goes out as a number and as a text for display.
Amount(minor) == [minor |-> minor, text |-> Format(minor, Scale)]

Bad(field) == Refused(Refusal(400, "invalid_argument", field))

\* The sentinels of the library and the codes they are told by.
ErrorTable ==
    [ErrBadDiscount |-> "bad_discount", ErrNegativeAmount |-> "negative_amount",
     ErrNegativeQuantity |-> "negative_quantity", ErrBadPeriod |-> "bad_period",
     ErrBadWindow |-> "bad_window", ErrBadBasis |-> "bad_basis",
     ErrBadFloor |-> "bad_floor", ErrBadBalance |-> "bad_balance",
     ErrCurrencyMismatch |-> "currency_mismatch", ErrNilStep |-> "nil_step",
     ErrBadCurrency |-> "bad_currency", ErrBadAllowance |-> "bad_allowance",
     ErrNoRate |-> "no_rate", ErrEmptyTiers |-> "empty_tiers",
     ErrTierOrder |-> "tier_order", ErrUnknownModel |-> "unknown_model",
     ErrBadPackage |-> "bad_package", ErrOverflow |-> "overflow",
     ErrBadAllocation |-> "bad_allocation"]

\* Faulty: the table has no row for balances.
MapErrorUnlisted(why) ==
    IF why \in DOMAIN ErrorTable \ {"ErrBadBalance"}
    THEN Refusal(400, ErrorTable[why], "none") ELSE Refusal(500, "internal", "none")

MapError(why) ==
    IF why \in DOMAIN ErrorTable
    THEN Refusal(400, ErrorTable[why], "none") ELSE Refusal(500, "internal", "none")

Told(outcome, value) == IF outcome.ok THEN Answer(value) ELSE MapError(outcome.why)

\* decodeBody: unknown fields, types that do not fit, a second value after the
\* first and bodies over the cap are refused.  A closing bracket after the
\* value is taken for the end of one.
DecodeBody(body) ==
    IF body = "oversized"
    THEN Refused(Refusal(413, "body_too_large", "none"))
    ELSE IF body \in {"malformed", "unknown_field", "second_value"}
    THEN Refused(Refusal(400, "invalid_body", "none"))
    ELSE Parsed(body)

-----------------------------------------------------------------------------
(***************************************************************************)
(* Fields.                                                                 *)
(***************************************************************************)
ExponentFits(exp) ==
    exp.len \in 1 .. 4 /\ exp.value # Nil /\ exp.value <= MaxRateExp

\* An empty text is no rate, which the library may or may not object to.
RatString(field, text) ==
    IF text.len = 0 THEN Parsed(NoRate)
    ELSE IF \/ text.len > MaxRateLen
            \/ text.exp # Nil /\ ~ExponentFits(text.exp)
            \/ text.rat = Nil
         THEN Bad(field) ELSE Parsed(text.rat)

ParseRounding(text) ==
    IF text = "" THEN Parsed("unset")
    ELSE IF text \in Modes THEN Parsed(text)
    ELSE Bad("currency.rounding")

\* A currency is its rounding; decimals that are given are those of Scale.
ToCurrency(c) ==
    IF c.decimals = Nil THEN Bad("currency.decimals") ELSE ParseRounding(c.rounding)

ParseModel(text) ==
    IF text \in {"per_unit", "graduated", "volume", "package", "stairstep"}
    THEN Parsed(text) ELSE Bad("model")

ParseBasis(text) ==
    IF text \in {"", "second"} THEN Parsed("second")
    ELSE IF text = "day" THEN Parsed("day") ELSE Bad("basis")

ParseUnit(text) ==
    IF text \in {"", "monthly"} THEN Parsed("monthly")
    ELSE IF text = "yearly" THEN Parsed("yearly") ELSE Bad("unit")

\* parseTime takes RFC 3339, whose offsets make zones that never change.
ParseTime(field, text) ==
    IF text.form = "timestamp" THEN Parsed([at |-> text.at, offset |-> text.offset])
    ELSE Bad(field)

-----------------------------------------------------------------------------
(***************************************************************************)
(* POST /v1/rate.                                                          *)
(***************************************************************************)
TierRates(tiers) == [k \in DOMAIN tiers |-> RatString("tiers.unitRate", tiers[k].rate)]

\* The charge that a spec is read as.
Charge(spec) ==
    LET rates == TierRates(spec.tiers)
    IN  [model |-> spec.model, rounding |-> ToCurrency(spec.currency).value,
         rate |-> RatString("unitRate", spec.rate).value,
         tiers |-> [k \in DOMAIN spec.tiers |->
                      [spec.tiers[k] EXCEPT !.rate = rates[k].value]],
         size |-> spec.size, price |-> spec.price,
         allowance |-> spec.allowance, flatFee |-> spec.flatFee]

ToCharge(spec) ==
    Joined(<<ParseModel(spec.model), ToCurrency(spec.currency),
             RatString("unitRate", spec.rate), Joined(TierRates(spec.tiers), spec.tiers)>>,
           Charge(spec))

ToLineDTOs(lines) ==
    [k \in DOMAIN lines |-> [units |-> lines[k].units, subtotal |-> Amount(lines[k].subtotal)]]

HandleRate(q) ==
    LET charge  == ToCharge(q)
        outcome == Rates!Rate(charge.value, q.quantity)
    IN  Concluded(<<DecodeBody(q.body), charge>>,
                  Told(outcome, [total |-> Amount(outcome.total),
                                 lines |-> ToLineDTOs(outcome.lines)]))

-----------------------------------------------------------------------------
(***************************************************************************)
(* POST /v1/proration and /v1/proration/fraction: days are counted in the  *)
(* zone the period's start is written in.                                  *)
(***************************************************************************)
ToPeriod(q) == <<ParseTime("period.start", q.start), ParseTime("period.end", q.end)>>

PeriodOf(q) ==
    LET start == ParseTime("period.start", q.start).value
    IN  [start |-> start.at, end |-> ParseTime("period.end", q.end).value.at,
         zone |-> ZoneOf(start), basis |-> ParseBasis(q.basis).value]

Plan(q) ==
    LET period == PeriodOf(q)
    IN  [start |-> period.start, end |-> period.end, zone |-> period.zone,
         basis |-> period.basis, mode |-> ToCurrency(q.currency).value,
         old |-> q.old, new |-> q.new]

HandleProration(q) ==
    LET at      == ParseTime("at", q.at)
        ends    == ToPeriod(q)
        fields  == <<DecodeBody(q.body), ToCurrency(q.currency), ends[1], ends[2], at,
                     ParseBasis(q.basis)>>
        outcome == Periods!Change(Plan(q), at.value.at)
    IN  Concluded(fields, Told(outcome, [credit |-> Amount(outcome.credit),
                                         charge |-> Amount(outcome.charge),
                                         net    |-> Amount(outcome.net)]))

HandleFraction(q) ==
    LET from    == ParseTime("from", q.from)
        to      == ParseTime("to", q.to)
        ends    == ToPeriod(q)
        fields  == <<DecodeBody(q.body), ends[1], ends[2], from, to, ParseBasis(q.basis)>>
        outcome == Periods!Fraction(PeriodOf(q), from.value.at, to.value.at)
    IN  Concluded(fields, Told(outcome, [fraction |-> Canonical(outcome)]))

-----------------------------------------------------------------------------
(***************************************************************************)
(* POST /v1/boundary.                                                      *)
(***************************************************************************)
\* Format(time.RFC3339), which drops what is below the second.  A year that is
\* not of four digits makes a text that parseTime does not read.
Rendered(instant, offset) ==
    LET year == Cycles!DateOf((instant + offset) \div TicksPerDay).year
    IN  [form |-> IF year \in 0 .. 9999 THEN "timestamp" ELSE "unreadable",
         at |-> instant - (instant % TicksPerSecond), offset |-> offset]

\* The anchor of a calendar cycle is not looked at.
ParseAnchor(q) ==
    IF q.calendar THEN Parsed(Nil)
    ELSE IF q.anchor.form = "empty" THEN Bad("anchor")
    ELSE ParseTime("anchor", q.anchor)

NextOf(q) ==
    LET from   == ParseTime("from", q.from).value
        anchor == ParseAnchor(q).value
        unit   == ParseUnit(q.unit).value
    IN  IF q.calendar
        THEN Rendered(Cycles!NextCalendarBoundary(ZoneOf(from), from.at, unit), from.offset)
        ELSE Rendered(Cycles!NextBoundary(anchor.at, ZoneOf(anchor), from.at, unit),
                      anchor.offset)

HandleBoundary(q) ==
    Concluded(<<DecodeBody(q.body), ParseTime("from", q.from), ParseUnit(q.unit),
                ParseAnchor(q)>>,
              Answer([next |-> NextOf(q)]))

Handle(q) ==
    IF q.endpoint = "rate" THEN HandleRate(q)
    ELSE IF q.endpoint = "proration" THEN HandleProration(q)
    ELSE IF q.endpoint = "fraction" THEN HandleFraction(q)
    ELSE HandleBoundary(q)

=============================================================================
