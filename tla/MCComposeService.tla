-------------------------- MODULE MCComposeService --------------------------
(***************************************************************************)
(* Requests of every list of up to three steps with the arguments that     *)
(* Compose takes and refuses, of four with the telling ones, of two with   *)
(* all there are, and of one step too many; calls of the other endpoints   *)
(* with every text their fields may have.                                  *)
(***************************************************************************)
EXTENDS FrontEnds, SequencesExt

Positions == 1 .. MaxComposeSteps

Rat(num, den) == [n |-> num, d |-> den]
Text(len, exp, rat) == [len |-> len, exp |-> exp, rat |-> rat]
Empty == Text(0, Nil, Nil)
Plain(rat) == Text(3, Nil, rat)
Exp(len, value) == [len |-> len, value |-> value]

RateTexts ==
    {Empty, Plain(Rat(1, 2)), Plain(Rat(2, 1)), Plain(Rat(-1, 2)), Plain(Nil),
     Text(MaxRateLen, Nil, Rat(1, 1)), Text(MaxRateLen + 1, Nil, Rat(1, 1))}
      \cup {Text(6, e, Rat(1, 1)) :
               e \in {Exp(1, 0), Exp(4, MaxRateExp), Exp(4, MaxRateExp + 1), Exp(5, 0)}}
      \cup {Text(3, Exp(0, Nil), Nil), Text(3, Exp(1, Nil), Nil)}

Cur(rounding) == [code |-> "usd", decimals |-> "given", rounding |-> rounding]
HalfUp == Cur("half_up")
NoDecimals == [Cur("floor") EXCEPT !.decimals = Nil]
Currencies == {NoDecimals} \cup {Cur(r) : r \in {"half_up", "", "up"}}

Tier(upTo, last, text) == [upTo |-> upTo, last |-> last, rate |-> text, flat |-> 2]
Models == {"per_unit", "graduated", "volume", "package", "stairstep"}

Halves == [model |-> "per_unit", currency |-> HalfUp, rate |-> Plain(Rat(1, 2)),
           tiers |-> <<>>, size |-> 0, price |-> 0, allowance |-> 0, flatFee |-> 0]

-----------------------------------------------------------------------------
Charge(spec, quantity) == [type |-> "charge", charge |-> spec, quantity |-> quantity]
PercentOff(text)     == [type |-> "percent_off", pct |-> text]
AmountOff(minor)     == [type |-> "amount_off", minor |-> minor]
Minimum(minor)       == [type |-> "minimum", minor |-> minor]
Credit(balance)      == [type |-> "credit", balance |-> balance]
Commitment(balance)  == [type |-> "commitment", balance |-> balance]

TellingSteps ==
    {Charge(Halves, MaxInt), Charge([Halves EXCEPT !.flatFee = MaxInt], 0),
     PercentOff(Plain(Rat(1, 2))), AmountOff(MaxInt), Minimum(MaxInt), Credit(2),
     Commitment(MaxInt)}

\* What Compose refuses, wherever it stands, and a discount it takes.
OtherSteps ==
    {Charge([Halves EXCEPT !.currency.code = "eur"], 1), Charge(Halves, -1),
     PercentOff(Plain(Rat(3, 2))), PercentOff(Empty), AmountOff(1), AmountOff(MinInt),
     Minimum(-1), Credit(-1)}

\* The other ways in which a charge cannot be rated.
Tiers(upTo, last) == <<Tier(upTo, FALSE, Empty), Tier(0, last, Plain(Rat(1, 2)))>>
Unrated ==
    {[Halves EXCEPT !.rate = Empty], [Halves EXCEPT !.currency = Cur("")],
     [Halves EXCEPT !.rate = Plain(Rat(MaxInt, 1))], [Halves EXCEPT !.allowance = -1],
     [Halves EXCEPT !.flatFee = -1], [Halves EXCEPT !.model = "package"]}
      \cup {[Halves EXCEPT !.model = m, !.tiers = t] :
               m \in {"graduated", "volume", "stairstep"},
               t \in {<<>>, Tiers(0, TRUE), Tiers(2, TRUE), Tiers(2, FALSE)}}

\* What is not read as a step.
Unread ==
    {Charge(spec, 1) :
       spec \in {Nil, [Halves EXCEPT !.model = "flat"], [Halves EXCEPT !.currency = NoDecimals],
                [Halves EXCEPT !.rate = Plain(Nil)],
                [Halves EXCEPT !.tiers = <<Tier(0, TRUE, Plain(Nil))>>]}}
      \cup {PercentOff(Plain(Nil)), [type |-> "discount"]}

Request(currency, steps) == [body |-> "good", currency |-> currency, steps |-> steps]

SmallRequests ==
    UNION {
      {Request(HalfUp, s) : s \in SeqOf(TellingSteps \cup OtherSteps, 3)},
      {Request(HalfUp, s) : s \in SeqOf(TellingSteps, 4)},
      {Request(HalfUp, s) :
         s \in SeqOf(TellingSteps \cup OtherSteps \cup Unread
                     \cup {Charge(spec, 3) : spec \in Unrated}, 2)},
      {Request(c, s) : c \in Currencies \cup {Cur("floor")}, s \in SeqOf(TellingSteps, 2)},
      {[Request(c, s) EXCEPT !.body = b] :
         b \in Bodies, c \in {HalfUp, NoDecimals}, s \in SeqOf(OtherSteps \cup Unread, 1)},
      {Request(c, <<Credit(2), Credit(2), Credit(2), Credit(2), Credit(2)>>) :
         c \in {HalfUp, NoDecimals}}}

-----------------------------------------------------------------------------
RateCall == [endpoint |-> "rate", body |-> "good", quantity |-> 3] @@ Halves
RateCalls ==
    UNION {
      {[RateCall EXCEPT !.body = b, !.model = m, !.currency = c, !.quantity = q] :
         b \in Bodies, m \in Models \cup {"", "flat"}, c \in Currencies, q \in {-1, 5}},
      {[RateCall EXCEPT !.rate = x, !.quantity = q, !.body = b] :
         x \in RateTexts, q \in {1, 5}, b \in Bodies},
      {[RateCall EXCEPT !.model = m, !.tiers = <<Tier(2, FALSE, x), Tier(0, TRUE, y)>>] :
         m \in {"graduated", "volume"}, x \in RateTexts, y \in RateTexts},
      {[RateCall EXCEPT !.model = m, !.quantity = q,
                        !.tiers = <<Tier(u, FALSE, x), Tier(0, l, x)>>] :
         m \in Models, u \in {0, 2}, l \in BOOLEAN, x \in {Plain(Rat(2, 1)), Plain(Nil)},
         q \in {0, 1, 4}},
      {[RateCall EXCEPT !.model = "package", !.size = s, !.price = p, !.allowance = a,
                        !.flatFee = f] :
         s \in {0, 2}, p \in {-1, 2, 5}, a \in {-1, 0, 1}, f \in {-1, 0, 4}}}

Time(form, at, offset) == [form |-> form, at |-> at, offset |-> offset]
Stamp(at, offset) == Time("timestamp", at, offset)
Times == {Stamp(1, 0), Stamp(6, 2), Stamp(11, -2), Time("date", 4, 0), Time("junk", 0, 0),
          Time("empty", 0, 0)}
Bases == {"", "second", "day", "hour"}

ProrationCall == [endpoint |-> "proration", body |-> "good", basis |-> "day",
                  start |-> Stamp(1, 0), end |-> Stamp(11, -2), at |-> Stamp(6, 2),
                  currency |-> HalfUp, old |-> 3, new |-> 5]
ProrationCalls ==
    {[ProrationCall EXCEPT !.basis = m, !.start = s, !.end = e, !.at = t] :
       m \in Bases, s \in Times, e \in Times, t \in Times}
    \cup {[ProrationCall EXCEPT !.body = b, !.at = t, !.currency = c, !.old = o] :
       b \in Bodies, t \in Times, c \in Currencies, o \in {-1, 5}}
FractionCalls ==
    {[endpoint |-> "fraction", body |-> b, basis |-> m, start |-> s, end |-> e,
      from |-> f, to |-> t] :
       b \in {"good", "closed_twice"}, m \in {"", "day"}, s \in Times \ {Stamp(11, -2)},
       e \in Times \ {Stamp(1, 0)}, f \in Times \ {Stamp(6, 2)}, t \in Times \ {Stamp(1, 0)}}

\* Days at the ends of months, at midnight, at a whole second and between two.
Day(y, m, d) == Service!Cycles!DayOf(y, m, d) * TicksPerDay
Anchors == {Stamp(Day(2024, 1, 31) + h, o) : h \in 0 .. 2, o \in {0, 2, -2}}
             \cup {Stamp(Day(2024, 2, 29), 0), Time("date", Day(2023, 8, 30), 0),
                   Time("junk", 0, 0), Time("empty", 0, 0)}
Froms == {Stamp(Day(2023, 12, 31) + h, 0) : h \in 0 .. 3}
           \cup {Stamp(Day(2024, 2, 29), 2), Stamp(Day(9999, 10, 31), 0),
                 Time("date", Day(2025, 3, 1), 0), Time("empty", 0, 0)}
BoundaryCalls ==
    {[endpoint |-> "boundary", body |-> b, anchor |-> a, from |-> f, unit |-> u, calendar |-> c] :
       b \in {"good", "malformed", "unknown_field"}, a \in Anchors, f \in Froms,
       u \in {"", "monthly", "yearly", "weekly"}, c \in BOOLEAN}

ScenarioCalls ==
    {[endpoint |-> "scenario", argument |-> [form |-> f, name |-> n]] :
       f \in {"bare", "object", "absent"}, n \in Page!Scenarios \cup {"another"}}

SmallCalls == UNION {RateCalls, ProrationCalls, FractionCalls, BoundaryCalls, ScenarioCalls}

=============================================================================
