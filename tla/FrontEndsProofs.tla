-------------------------- MODULE FrontEndsProofs ---------------------------
(***************************************************************************)
(* The compose handler: the second pass agrees with the first.  No prefix  *)
(* fails, each effect is what its step moved the total of the invoice by,  *)
(* and a balance shown is what the effect of its draw left of it.          *)
(*                                                                         *)
(* The two front ends: whatever is asked, their answers agree, every error *)
(* has a code, the running column of the page tells the totals of the      *)
(* handler's composition, and a client that goes on from the boundary it   *)
(* was told meets every cycle once.                                        *)
(***************************************************************************)
EXTENDS FrontEnds, MoneyProofs

-----------------------------------------------------------------------------
(***************************************************************************)
(* A front end reads the parts of a call in turn and answers with the      *)
(* first that it does not understand.                                      *)
(***************************************************************************)
LEMMA OneConclusion ==
    ASSUME NEW parts, NEW last
    PROVE  Service!Concluded(parts, last) = Page!Concluded(parts, last)
  BY Zenon DEF Service!Concluded, Page!Concluded

\* The parts are read up to the first that is not understood.
LEMMA AllUnderstood ==
    ASSUME NEW parts, NEW last, \A k \in DOMAIN parts : parts[k].ok
    PROVE  Page!Concluded(parts, last) = last
<1>1. {k \in DOMAIN parts : ~parts[k].ok} = {}
  OBVIOUS
<1> QED
  BY <1>1 DEF Page!Concluded

LEMMA FirstRefusal ==
    ASSUME NEW n \in Nat, NEW parts, DOMAIN parts = 1 .. n, NEW last,
           NEW k \in 1 .. n, ~parts[k].ok, \A j \in 1 .. k - 1 : parts[j].ok
    PROVE  Page!Concluded(parts, last) = parts[k].answer
<1> DEFINE bad == {i \in DOMAIN parts : ~parts[i].ok}
           first == CHOOSE i \in bad : \A j \in bad : i <= j
<1>1. k \in bad /\ bad # {}
  OBVIOUS
<1>2. \A j \in bad : j \in 1 .. n /\ k <= j
  OBVIOUS
<1>3. first = k
  <2>1. first \in bad /\ \A j \in bad : first <= j
    <3> HIDE DEF bad
    <3> QED
      BY <1>1, <1>2
  <2>2. first <= k /\ k <= first /\ first \in 1 .. n
    BY <1>1, <1>2, <2>1
  <2> HIDE DEF first
  <2> QED
    BY <2>2
<1>4. Page!Concluded(parts, last) = IF bad = {} THEN last ELSE parts[first].answer
  BY Zenon DEF Page!Concluded
<1> QED
  BY <1>1, <1>3, <1>4

LEMMA SomeFirstRefusal ==
    ASSUME NEW n \in Nat, NEW parts, \E k \in 1 .. n : ~parts[k].ok
    PROVE  \E k \in 1 .. n : ~parts[k].ok /\ \A j \in 1 .. k - 1 : parts[j].ok
<1> DEFINE X == {k \in 1 .. n : ~parts[k].ok}
<1>1. X \in SUBSET Nat /\ X # {}
  OBVIOUS
<1>2. PICK k \in X : \A j \in X : k <= j
  <2> HIDE DEF X
  <2> QED
    BY <1>1, LeastNatural
<1>3. \A j \in 1 .. k - 1 : parts[j].ok
  <2> SUFFICES ASSUME NEW j \in 1 .. k - 1, ~parts[j].ok PROVE FALSE
    OBVIOUS
  <2>1. j \in X
    OBVIOUS
  <2>2. k <= j
    BY <1>2, <2>1
  <2> QED
    BY <2>2
<1> QED
  BY <1>2, <1>3

\* Of parts that are not all understood the first has the answer, whatever they
\* would come to.
LEMMA TheFirst ==
    ASSUME NEW n \in Nat, NEW parts, DOMAIN parts = 1 .. n, \E k \in 1 .. n : ~parts[k].ok
    PROVE  \E k \in 1 .. n : /\ ~parts[k].ok /\ \A j \in 1 .. k - 1 : parts[j].ok
                             /\ \A last : /\ Page!Concluded(parts, last) = parts[k].answer
                                          /\ Service!Concluded(parts, last) = parts[k].answer
<1>1. PICK k \in 1 .. n : ~parts[k].ok /\ \A j \in 1 .. k - 1 : parts[j].ok
  BY SomeFirstRefusal
<1>2. ASSUME NEW last
      PROVE  /\ Page!Concluded(parts, last) = parts[k].answer
             /\ Service!Concluded(parts, last) = parts[k].answer
  BY <1>1, FirstRefusal, OneConclusion
<1> QED
  BY <1>1, <1>2

LEMMA JoinedIs ==
    ASSUME NEW parts, NEW value
    PROVE  /\ Page!Joined(parts, value).ok <=> \A k \in DOMAIN parts : parts[k].ok
           /\ Service!Joined(parts, value).ok <=> \A k \in DOMAIN parts : parts[k].ok
           /\ (\A k \in DOMAIN parts : parts[k].ok) =>
                /\ Page!Joined(parts, value).value = value
                /\ Service!Joined(parts, value).value = value
           /\ ~(\A k \in DOMAIN parts : parts[k].ok) =>
                /\ Page!Joined(parts, value).answer = Page!Concluded(parts, value)
                /\ Service!Joined(parts, value).answer = Service!Concluded(parts, value)
<1>1. CASE \A k \in DOMAIN parts : parts[k].ok
  BY <1>1 DEF Page!Joined, Service!Joined, Page!Parsed, Service!Parsed
<1>2. CASE ~(\A k \in DOMAIN parts : parts[k].ok)
  BY <1>2 DEF Page!Joined, Service!Joined, Page!Refused, Service!Refused
<1> QED
  BY <1>1, <1>2

-----------------------------------------------------------------------------
(***************************************************************************)
(* The parts of a call, as each front end reads them.                      *)
(***************************************************************************)
Rejects(part) == ~part.ok /\ part.answer.code = "invalid_argument" /\ part.answer.status = 400

\* tariffd's part s and the page's part p are refused alike.
RefusedAlike(p, s) ==
    /\ p.ok <=> s.ok
    /\ ~s.ok => /\ s.answer.status = 400
                /\ s.answer.code = "invalid_argument" /\ p.answer.code = "invalid_argument"
                /\ p.answer.field = s.answer.field

\* And understood alike.
Akin(p, s) == RefusedAlike(p, s) /\ (s.ok => p.value = s.value)

LEMMA BothRefuse ==
    ASSUME NEW field
    PROVE  Akin(Page!Bad(field), Service!Bad(field))
  BY DEF Akin, RefusedAlike, Page!Bad, Service!Bad, Page!BadArg, Page!ErrObj, Page!Refused,
         Service!Refused, Service!Refusal

LEMMA BothParse ==
    ASSUME NEW value
    PROVE  Akin(Page!Parsed(value), Service!Parsed(value))
  BY DEF Akin, RefusedAlike, Page!Parsed, Service!Parsed

LEMMA RatesAkin ==
    ASSUME NEW field, NEW text, text.len \in Nat
    PROVE  Akin(Page!RatString(field, text), Service!RatString(field, text))
<1>1. text.len > MaxRateLen <=> ~(text.len <= MaxRateLen)
  BY RateLenAssumption
<1> QED
  BY <1>1, BothRefuse, BothParse DEF Page!RatString, Service!RatString, Service!ExponentFits

LEMMA CurrenciesAkin ==
    ASSUME NEW c
    PROVE  Akin(Page!ToCurrency(c), Service!ToCurrency(c))
  BY BothRefuse, BothParse
  DEF Page!ToCurrency, Service!ToCurrency, Service!ParseRounding, Page!Modes, Service!Modes

LEMMA WordsAkin ==
    ASSUME NEW text
    PROVE  /\ Akin(Page!ParseModel(text), Service!ParseModel(text))
           /\ Akin(Page!ParseBasis(text), Service!ParseBasis(text))
           /\ Akin(Page!ParseUnit(text), Service!ParseUnit(text))
  BY BothRefuse, BothParse
  DEF Page!Word, Page!ParseModel, Page!ParseBasis, Page!ParseUnit,
      Service!ParseModel, Service!ParseBasis, Service!ParseUnit

LEMMA TimesAkin ==
    ASSUME NEW field, NEW text
    PROVE  /\ text.form # "date" =>
                Akin(Page!ParseTime(field, text), Service!ParseTime(field, text))
           /\ text.form = "date" =>
                /\ Page!ParseTime(field, text).ok
                /\ Rejects(Service!ParseTime(field, text))
<1>1. text.form = "date" => /\ Page!ParseTime(field, text).ok
                            /\ Service!ParseTime(field, text) = Service!Bad(field)
  BY DEF Page!ParseTime, Service!ParseTime, Page!Parsed
<1>2. Rejects(Service!Bad(field))
  BY DEF Rejects, Service!Bad, Service!Refused, Service!Refusal
<1> QED
  BY <1>1, <1>2, BothRefuse, BothParse DEF Page!ParseTime, Service!ParseTime

\* Parts that are read as one are refused alike when each of them is.
LEMMA JoinedAlike ==
    ASSUME NEW n \in Nat, NEW ps, DOMAIN ps = 1 .. n, NEW ss, DOMAIN ss = 1 .. n,
           \A k \in 1 .. n : RefusedAlike(ps[k], ss[k]), NEW pv, NEW sv
    PROVE  RefusedAlike(Page!Joined(ps, pv), Service!Joined(ss, sv))
<1>1. \A k \in 1 .. n : ps[k].ok <=> ss[k].ok
  BY DEF RefusedAlike
<1>2. CASE \A k \in 1 .. n : ss[k].ok
  BY <1>1, <1>2, JoinedIs DEF RefusedAlike
<1>3. CASE \E k \in 1 .. n : ~ss[k].ok
  <2>1. PICK k \in 1 .. n : /\ ~ss[k].ok /\ \A j \in 1 .. k - 1 : ss[j].ok
                            /\ \A last : Service!Concluded(ss, last) = ss[k].answer
    BY <1>3, TheFirst
  <2>2. Page!Concluded(ps, pv) = ps[k].answer
    <3>1. ~ps[k].ok /\ \A j \in 1 .. k - 1 : ps[j].ok
      BY <1>1, <2>1
    <3> QED
      BY <3>1, FirstRefusal
  <2>3. /\ ~Page!Joined(ps, pv).ok /\ Page!Joined(ps, pv).answer = ps[k].answer
        /\ ~Service!Joined(ss, sv).ok /\ Service!Joined(ss, sv).answer = ss[k].answer
    BY <1>1, <2>1, <2>2, JoinedIs
  <2> QED
    BY <2>1, <2>3 DEF RefusedAlike
<1> QED
  BY <1>2, <1>3

LEMMA ChargesAkin ==
    ASSUME NEW spec, IsCharge(spec)
    PROVE  Akin(Page!ToCharge(spec), Service!ToCharge(spec))
<1> DEFINE m == Len(spec.tiers)
           model == Page!ParseModel(spec.model)
           cur   == Page!ToCurrency(spec.currency)
           rate  == Page!RatString("unitRate", spec.rate)
           rates == [k \in DOMAIN spec.tiers |->
                       Page!RatString("tiers.unitRate", spec.tiers[k].rate)]
           tiers == [k \in DOMAIN spec.tiers |->
                       [spec.tiers[k] EXCEPT !.rate = rates[k].value]]
           charge == [model |-> model.value, rounding |-> cur.value, rate |-> rate.value,
                      tiers |-> tiers, size |-> spec.size, price |-> spec.price,
                      allowance |-> spec.allowance, flatFee |-> spec.flatFee]
           pt == Page!Joined(rates, tiers)
           st == Service!Joined(Service!TierRates(spec.tiers), spec.tiers)
           ps == <<model, cur, rate, pt>>
           ss == <<Service!ParseModel(spec.model), Service!ToCurrency(spec.currency),
                   Service!RatString("unitRate", spec.rate), st>>
<1>1. /\ m \in Nat /\ DOMAIN spec.tiers = 1 .. m
      /\ spec.rate.len \in Nat /\ \A k \in 1 .. m : spec.tiers[k].rate.len \in Nat
  BY DEF IsCharge
<1>2. Page!ToCharge(spec) = Page!Joined(ps, charge)
  BY Zenon DEF Page!ToCharge
<1>3. Service!ToCharge(spec) = Service!Joined(ss, Service!Charge(spec))
  BY Zenon DEF Service!ToCharge
<1>4. /\ DOMAIN rates = 1 .. m /\ DOMAIN Service!TierRates(spec.tiers) = 1 .. m
      /\ \A k \in 1 .. m : Akin(rates[k], Service!TierRates(spec.tiers)[k])
  <2>1. Service!TierRates(spec.tiers)
          = [k \in DOMAIN spec.tiers |-> Service!RatString("tiers.unitRate", spec.tiers[k].rate)]
    BY Zenon DEF Service!TierRates
  <2> HIDE DEF m
  <2> QED
    BY <1>1, <2>1, RatesAkin
<1>5. RefusedAlike(pt, st)
  <2> HIDE DEF rates, tiers, m
  <2> QED
    BY <1>1, <1>4, JoinedAlike DEF Akin
<1>6. Akin(model, ss[1]) /\ Akin(cur, ss[2]) /\ Akin(rate, ss[3])
  <2> HIDE DEF m, pt, st
  <2> QED
    BY <1>1, WordsAkin, CurrenciesAkin, RatesAkin
<1>7. \A k \in 1 .. 4 : RefusedAlike(ps[k], ss[k])
  <2> HIDE DEF model, cur, rate, pt, st
  <2> QED
    BY <1>5, <1>6 DEF Akin
<1>8. ASSUME \A k \in 1 .. 4 : ss[k].ok
      PROVE  charge = Service!Charge(spec)
  <2>1. /\ model.value = spec.model
        /\ cur.value = Service!ToCurrency(spec.currency).value
        /\ rate.value = Service!RatString("unitRate", spec.rate).value
    <3>1. ss[1].ok /\ ss[2].ok /\ ss[3].ok
      BY <1>8
    <3>2. Service!ParseModel(spec.model).value = spec.model
      BY <3>1 DEF Service!ParseModel, Service!Parsed, Service!Bad, Service!Refused
    <3> HIDE DEF model, cur, rate, st
    <3> QED
      BY <1>6, <3>1, <3>2 DEF Akin
  <2>2. \A k \in 1 .. m : Service!TierRates(spec.tiers)[k].ok
    <3>1. st.ok
      <4>1. ss[4].ok
        BY <1>8
      <4> HIDE DEF st
      <4> QED
        BY <4>1
    <3> QED
      BY <1>4, <3>1, JoinedIs
  <2>3. tiers = [k \in DOMAIN spec.tiers |->
                   [spec.tiers[k] EXCEPT !.rate = Service!TierRates(spec.tiers)[k].value]]
    <3>1. \A k \in DOMAIN spec.tiers : rates[k].value = Service!TierRates(spec.tiers)[k].value
      <4> HIDE DEF rates, m
      <4> QED
        BY <1>1, <1>4, <2>2 DEF Akin
    <3> HIDE DEF rates
    <3> QED
      BY <3>1
  <2> HIDE DEF tiers, model, cur, rate
  <2> QED
    BY <2>1, <2>3, Zenon DEF Service!Charge, charge
<1>9. DOMAIN ps = 1 .. 4 /\ DOMAIN ss = 1 .. 4
  OBVIOUS
<1> DEFINE pc == Page!Joined(ps, charge)
           sc == Service!Joined(ss, Service!Charge(spec))
<1> HIDE DEF charge, ps, ss
<1>10. RefusedAlike(pc, sc)
  BY <1>7, <1>9, JoinedAlike
<1>11. sc.ok => pc.value = sc.value
  <2> SUFFICES ASSUME sc.ok PROVE pc.value = sc.value
    OBVIOUS
  <2>1. \A k \in 1 .. 4 : ss[k].ok
    BY <1>9, JoinedIs
  <2>2. \A k \in 1 .. 4 : ps[k].ok
    BY <1>7, <2>1 DEF RefusedAlike
  <2> QED
    BY <1>8, <1>9, <2>1, <2>2, JoinedIs
<1> HIDE DEF pc, sc
<1>12. Akin(pc, sc)
  BY <1>10, <1>11 DEF Akin
<1> QED
  BY <1>2, <1>3, <1>12 DEF pc, sc

-----------------------------------------------------------------------------
(***************************************************************************)
(* One step of a request, applied to a sound invoice on which its own      *)
(* balance has not been drawn.                                             *)
(***************************************************************************)
Ready(inv, i) == /\ Sound(inv)
                 /\ inv.rounding \in Modes
                 /\ inv.draws[i] = 0

LEMMA FreshBalances ==
    ASSUME request \in Requests
    PROVE  /\ Fresh \in [Balances -> Int64]
           /\ \A i \in 1 .. N : i \in Balances /\ request.steps[i].type \in Draws =>
                Fresh[i] = request.steps[i].balance
<1>1. N \in Nat /\ \A i \in 1 .. N : IsStep(request.steps[i])
  BY RequestsAssumption DEF N
<1>2. 0 \in Int64
  BY MaxIntAssumption DEF Int64, MinInt
<1>3. \A i \in 1 .. N : request.steps[i].type \in Draws => request.steps[i].balance \in Int64
  BY <1>1 DEF IsStep, Draws
<1>4. \A b \in Balances : b <= N => b \in 1 .. N
  BY <1>1, BalancesAssumption
<1> QED
  BY <1>1, <1>2, <1>3, <1>4 DEF Fresh

LEMMA StepAlike ==
    ASSUME NEW s, IsStep(s)
    PROVE  Akin(Page!ParseStep(s), ParseStep(s))
<1>1. CASE s.type = "charge" /\ s.charge = Nil
  BY <1>1, BothRefuse DEF Page!ParseStep, ParseStep
<1>2. CASE s.type = "charge" /\ s.charge # Nil
  <2>1. IsCharge(s.charge)
    BY <1>2 DEF IsStep, Draws
  <2>2. /\ Page!ParseStep(s) = Page!ToCharge(s.charge)
        /\ ParseStep(s) = Service!ToCharge(s.charge)
    BY <1>2, Zenon DEF Page!ParseStep, ParseStep
  <2> QED
    BY <2>1, <2>2, ChargesAkin
<1>3. CASE s.type = "percent_off"
  <2>1. s.pct.len \in Nat
    BY <1>3 DEF IsStep, Draws
  <2> QED
    BY <1>3, <2>1, RatesAkin DEF Page!ParseStep, ParseStep
<1>4. CASE s.type \in {"amount_off", "minimum"} \cup Draws
  BY <1>4, BothParse DEF Page!ParseStep, ParseStep, Draws
<1>5. CASE s.type \notin {"charge", "percent_off", "amount_off", "minimum"} \cup Draws
  BY <1>5, BothRefuse DEF Page!ParseStep, ParseStep, Draws
<1> QED
  BY <1>1, <1>2, <1>3, <1>4, <1>5

LEMMA StepsAlike ==
    ASSUME request \in Requests, NEW ps,
           ps = [i \in DOMAIN request.steps |-> Page!ParseStep(request.steps[i])]
    PROVE  RefusedAlike(Page!Joined(ps, request.steps), ParseSteps)
<1>1. /\ N \in Nat /\ DOMAIN request.steps = 1 .. N
      /\ \A i \in 1 .. N : IsStep(request.steps[i])
  BY RequestsAssumption DEF N
<1>2. PICK ss : ss = [i \in DOMAIN request.steps |-> ParseStep(request.steps[i])]
  OBVIOUS
<1>3. DOMAIN ps = 1 .. N /\ DOMAIN ss = 1 .. N
  BY <1>1, <1>2
<1>4. \A i \in 1 .. N : RefusedAlike(ps[i], ss[i])
  BY <1>1, <1>2, StepAlike DEF Akin
<1>5. ParseSteps = Service!Joined(ss, request.steps)
  BY <1>2, Zenon DEF ParseSteps
<1> QED
  BY <1>1, <1>3, <1>4, <1>5, JoinedAlike

\* What a request is read as.
LEMMA WhatParses ==
    ASSUME request \in Requests, Parses
    PROVE  /\ N \in Nat /\ N <= MaxComposeSteps
           /\ \A i \in 1 .. N : ParseStep(request.steps[i]).ok
<1>1. Parts[2].ok /\ Parts[4].ok
  BY DEF Parses, Parts
<1>2. CapSteps.ok /\ ParseSteps.ok
  BY <1>1 DEF Parts
<1>3. DOMAIN request.steps = 1 .. N /\ N \in Nat
  BY RequestsAssumption DEF N
<1>4. N <= MaxComposeSteps
  BY <1>2, <1>3, BalancesAssumption DEF CapSteps, Service!Bad, Service!Refused
<1>5. ASSUME NEW i \in 1 .. N PROVE ParseStep(request.steps[i]).ok
  <2> DEFINE read == [k \in DOMAIN request.steps |-> ParseStep(request.steps[k])]
  <2>1. \A k \in DOMAIN read : read[k].ok
    <3> HIDE DEF read
    <3> QED
      BY <1>2, JoinedIs DEF ParseSteps, read
  <2> QED
    BY <1>3, <1>5, <2>1
<1> QED
  BY <1>3, <1>4, <1>5

LEMMA StepArguments ==
    ASSUME request \in Requests, Parses, NEW i \in 1 .. N
    PROVE  LET s == request.steps[i]
           IN  /\ s.type = "charge" /\ RatingOf(s).rated => RatingOf(s).total \in 0 .. MaxInt
               /\ s.type = "percent_off" /\ PctOf(s) # Nil =>
                    PctOf(s).n \in Int /\ PctOf(s).d \in Nat \ {0}
<1> DEFINE s == request.steps[i]
<1>1. IsStep(s) /\ ParseStep(s).ok
  BY WhatParses, RequestsAssumption DEF N
<1>2. ASSUME s.type = "charge", RatingOf(s).rated
      PROVE  RatingOf(s).total \in 0 .. MaxInt
  <2>1. s.charge # Nil /\ Service!ToCharge(s.charge).ok
    BY <1>1, <1>2 DEF ParseStep, Service!Bad, Service!Refused
  <2>2. Rated(s).ok /\ RatingOf(s).total = Rated(s).total
    BY <1>2 DEF RatingOf, RatingFrom
  <2> QED
    BY <1>1, <1>2, <2>1, <2>2 DEF IsStep, Draws
<1>3. ASSUME s.type = "percent_off", PctOf(s) # Nil
      PROVE  PctOf(s).n \in Int /\ PctOf(s).d \in Nat \ {0}
  <2>1. Service!RatString("steps.pct", s.pct).ok
    BY <1>1, <1>3 DEF ParseStep
  <2>2. Service!RatString("steps.pct", s.pct).value # NoRate
    BY <1>3 DEF PctOf
  <2>3. s.pct.rat # Nil /\ Service!RatString("steps.pct", s.pct).value = s.pct.rat
    BY <2>1, <2>2 DEF Service!RatString, Service!Parsed, Service!Bad, Service!Refused
  <2>4. PctOf(s) = s.pct.rat
    BY <2>2, <2>3 DEF PctOf
  <2> QED
    BY <1>1, <1>3, <2>3, <2>4 DEF IsStep, Draws
<1> QED
  BY <1>2, <1>3

\* A charge, a discount or a top-up moves the total by an amount of the type
\* and leaves the record of draws alone.
LEMMA OtherStepMoves ==
    ASSUME request \in Requests, Parses, NEW i \in 1 .. N, NEW inv, Ready(inv, i),
           request.steps[i].type \notin Draws, Passes(inv, i, Fresh)
    PROVE  /\ Sound(Applied(inv, i, Fresh))
           /\ Applied(inv, i, Fresh).rounding = inv.rounding
           /\ Applied(inv, i, Fresh).draws = inv.draws
           /\ Applied(inv, i, Fresh).total - inv.total \in Int64
<1> DEFINE s == request.steps[i]
           r == RatingOf(s)
           p == PctOf(s)
<1>1. IsStep(s) /\ inv \in InvoiceType /\ inv.total \in Int64 /\ inv.total \in Int
  BY RequestsAssumption, MaxIntAssumption DEF N, Ready, Sound, InvoiceType, Int64, MinInt
<1>2. CASE s.type = "charge"
  <2>1. /\ ChargedPasses(inv, r)
        /\ Applied(inv, i, Fresh) = ChargedApplied(inv, r)
    BY <1>2 DEF Passes, Applied, Draws
  <2> HIDE DEF r
  <2>2. r.total \in 0 .. MaxInt
    BY <1>2, <2>1, StepArguments DEF ChargedPasses, r
  <2>3. AddLine(inv, "charge", r.total).total = inv.total + r.total
    BY <1>1, <2>1, <2>2, AddLineFields, MaxIntAssumption DEF ChargedPasses, Kinds
  <2>4. AddLine(inv, "charge", r.total) \in InvoiceType
    BY <1>1, <2>1, <2>2, AddLineFields, MaxIntAssumption DEF ChargedPasses, Kinds
  <2>5. ChargedApplied(inv, r).total = inv.total + r.total
    BY <2>3, <2>4 DEF ChargedApplied, InvoiceType
  <2>6. r.total \in Int64 /\ r.total \in Int
    BY <2>2, MaxIntAssumption DEF Int64, MinInt
  <2>7. ChargedApplied(inv, r).total - inv.total = r.total
    BY <1>1, <2>5, <2>6
  <2> QED
    BY <2>1, <2>6, <2>7, <2>2, ChargedSound DEF Ready
<1>3. CASE s.type = "percent_off"
  <2>1. /\ PercentOffPasses(inv, p)
        /\ Applied(inv, i, Fresh) = PercentOffApplied(inv, p)
    BY <1>3 DEF Passes, Applied, Draws
  <2> HIDE DEF p
  <2>2. p.n \in Int /\ p.d \in Nat \ {0}
    BY <1>3, <2>1, StepArguments DEF PercentOffPasses, p
  <2>3. PercentOffApplied(inv, p).total - inv.total \in Int64
    <3>1. CASE inv.total <= 0
      BY <1>1, <3>1, MaxIntAssumption DEF PercentOffApplied, Int64, MinInt
    <3>2. CASE ~(inv.total <= 0)
      <4> DEFINE d == Discount(inv, p)
      <4>1. inv.total \in Nat /\ inv.total <= MaxInt /\ p.n \in Nat /\ p.n <= p.d
        BY <1>1, <2>1, <2>2, <3>2, MaxIntAssumption DEF PercentOffPasses, Int64, MinInt
      <4>2. d \in Int /\ 0 <= d /\ d <= inv.total
        BY <2>2, <4>1, RoundFraction DEF Discount, Ready
      <4> HIDE DEF d
      <4>3. -d \in Int64 /\ Wrap(-d) = -d
        BY <4>1, <4>2, WrapIsExact, MaxIntAssumption DEF Int64, MinInt
      <4>4. LineFits(inv, -d)
        BY <4>1, <4>2, MaxIntAssumption DEF LineFits, IsInt64, MinInt
      <4>5. AddLine(inv, "percent", -d).total = inv.total - d
        BY <1>1, <4>2, <4>4, AddLineFields DEF Kinds
      <4>6. PercentOffApplied(inv, p).total = inv.total - d
        BY <3>2, <4>3, <4>5 DEF PercentOffApplied, d
      <4> QED
        BY <1>1, <4>2, <4>3, <4>6
    <3> QED
      BY <3>1, <3>2
  <2> QED
    BY <2>1, <2>2, <2>3, PercentOffSound DEF Ready
<1>4. CASE s.type = "amount_off"
  <2>1. /\ s.minor \in Int64
        /\ AmountOffPasses(inv, s.minor)
        /\ Applied(inv, i, Fresh) = AmountOffApplied(inv, s.minor)
    BY <1>1, <1>4 DEF IsStep, Passes, Applied, Draws
  <2>2. -s.minor \in Int64 /\ Wrap(-s.minor) = -s.minor /\ -s.minor \in Int
    BY <2>1, WrapIsExact, MaxIntAssumption DEF AmountOffPasses, Int64, MinInt
  <2>3. AddLine(inv, "amount", -s.minor).total = inv.total + (-s.minor)
    BY <1>1, <2>1, <2>2, AddLineFields DEF AmountOffPasses, Kinds
  <2>4. AmountOffApplied(inv, s.minor).total - inv.total = -s.minor
    BY <1>1, <2>2, <2>3 DEF AmountOffApplied
  <2> QED
    BY <2>1, <2>2, <2>4, AmountOffSound DEF Ready
<1>5. CASE s.type = "minimum"
  <2>1. /\ s.minor \in Int64
        /\ MinimumPasses(inv, s.minor)
        /\ Applied(inv, i, Fresh) = MinimumApplied(inv, s.minor)
    BY <1>1, <1>5 DEF IsStep, Passes, Applied, Draws
  <2>2. s.minor \in Int
    BY <2>1, MaxIntAssumption DEF Int64, MinInt
  <2>3. MinimumApplied(inv, s.minor).total - inv.total \in Int64
    <3>1. CASE inv.total >= s.minor
      BY <1>1, <3>1, MaxIntAssumption DEF MinimumApplied, Int64, MinInt
    <3>2. CASE inv.total < s.minor
      <4> DEFINE line == s.minor - inv.total
      <4>1. line \in Int /\ line \in Int64 /\ LineFits(inv, line)
        BY <1>1, <2>1, <2>2, <3>2, MaxIntAssumption DEF MinimumPasses, IsInt64, Int64, MinInt
      <4>2. MinimumApplied(inv, s.minor) = AddLine(inv, "minimum", line)
        BY <1>1, <2>2, <3>2 DEF MinimumApplied
      <4> HIDE DEF line
      <4>3. AddLine(inv, "minimum", line).total = inv.total + line
        BY <1>1, <4>1, AddLineFields DEF Kinds
      <4> QED
        BY <1>1, <4>1, <4>2, <4>3
    <3> QED
      BY <1>1, <2>2, <3>1, <3>2
  <2> QED
    BY <2>1, <2>3, MinimumSound DEF Ready
<1> QED
  BY <1>2, <1>3, <1>4, <1>5 DEF Passes, Draws

\* A draw takes off the total what it records against the step's balance.
LEMMA DrawMoves ==
    ASSUME request \in Requests, NEW i \in 1 .. N, i \in Balances, NEW inv, Ready(inv, i),
           request.steps[i].type \in Draws, Passes(inv, i, Fresh)
    PROVE  /\ Sound(Applied(inv, i, Fresh))
           /\ Applied(inv, i, Fresh).rounding = inv.rounding
           /\ \A b \in Balances \ {i} : Applied(inv, i, Fresh).draws[b] = inv.draws[b]
           /\ Applied(inv, i, Fresh).draws[i] = inv.total - Applied(inv, i, Fresh).total
           /\ Applied(inv, i, Fresh).draws[i] \in 0 .. request.steps[i].balance
<1> DEFINE bal == Fresh[i]
           draw == DrawAmount(inv, i, bal)
           new == DrawApplied(inv, i, bal)
<1>1. /\ bal = request.steps[i].balance /\ bal \in Int64 /\ bal \in Int
      /\ DrawPasses(inv, i, bal)
      /\ Applied(inv, i, Fresh) = new
  BY FreshBalances, MaxIntAssumption DEF Passes, Applied, Draws, Int64, MinInt
<1>2. /\ inv \in InvoiceType /\ inv.total \in Int64 /\ inv.total \in Int
      /\ inv.draws \in [Balances -> 0 .. MaxInt] /\ inv.draws[i] = 0 /\ bal >= 0
  BY <1>1, MaxIntAssumption DEF Ready, Sound, InvoiceType, DrawPasses, Int64, MinInt
<1> HIDE DEF bal
<1>3. Available(inv, i, bal) = bal
  BY <1>1, <1>2, WrapIsExact DEF Available
<1>4. draw \in Int64 /\ draw \in Int /\ draw <= bal /\ draw <= inv.total
  BY <1>1, <1>2, <1>3, MaxIntAssumption DEF DrawAmount, Int64, MinInt
<1>5. /\ Sound(new) /\ new.rounding = inv.rounding
      /\ \A b \in Balances \ {i} : new.draws[b] = inv.draws[b]
  BY <1>1, <1>2, DrawSound DEF Ready
<1>6. new.draws[i] = inv.total - new.total /\ new.draws[i] \in 0 .. bal
  <2>1. CASE draw <= 0
    BY <1>1, <1>2, <1>4, <2>1 DEF DrawApplied
  <2>2. CASE draw > 0
    <3> DEFINE added == AddLine(inv, "draw", -draw)
    <3>1. Wrap(-draw) = -draw /\ LineFits(inv, -draw)
      BY <1>2, <1>4, <2>2, WrapIsExact, MaxIntAssumption
      DEF LineFits, IsInt64, Int64, MinInt
    <3>2. added \in InvoiceType /\ added.total = inv.total - draw /\ added.draws = inv.draws
      BY <1>2, <1>4, <3>1, AddLineFields DEF Kinds
    <3>3. new = [added EXCEPT !.draws[i] = @ + draw]
      BY <1>4, <2>2, <3>1 DEF DrawApplied
    <3> HIDE DEF added, draw
    <3>4. new.total = inv.total - draw /\ new.draws = [inv.draws EXCEPT ![i] = @ + draw]
      BY <3>2, <3>3 DEF InvoiceType
    <3> HIDE DEF new
    <3> QED
      BY <1>1, <1>2, <1>4, <2>2, <3>4
  <2> QED
    BY <1>4, <2>1, <2>2
<1> QED
  BY <1>1, <1>5, <1>6

(***************************************************************************)
(* What the first run leaves behind, step by step.                         *)
(***************************************************************************)

\* An invoice after n steps: sound, its draws those of the draw steps so far.
Good(n) ==
    /\ Sound(After(n))
    /\ After(n).rounding = Rounding
    /\ \A b \in Balances : b > n => After(n).draws[b] = 0
    /\ \A b \in 1 .. n : request.steps[b].type \in Draws =>
         /\ After(n).draws[b] = After(b - 1).total - After(b).total
         /\ After(n).draws[b] \in 0 .. request.steps[b].balance

\* Each invoice of the first run is its step applied to the one before.
Grounded(n) ==
    /\ Passes(After(n - 1), n, Fresh)
    /\ After(n) = Applied(After(n - 1), n, Fresh)
    /\ After(n).total - After(n - 1).total \in Int64

Accepted == Parses /\ Rounding \in Modes

History ==
    /\ after \in Seq(InvoiceType) /\ Len(after) <= N
    /\ Accepted => Good(0)
    /\ \A n \in 1 .. Len(after) : Grounded(n) /\ Good(n)

Kept == /\ Accepted
        /\ Len(after) = N
        /\ invoice = After(N)
        /\ shown = [b \in Balances |-> Wrap(Fresh[b] - After(N).draws[b])]

Running(upTo) == /\ run.upTo = upTo
                 /\ run.done \in 0 .. upTo
                 /\ run.inv = After(run.done)
                 /\ run.balances = Fresh

EffectsSoFar ==
    /\ effects \in Seq(Int) /\ Len(effects) <= Len(after)
    /\ prev = After(Len(effects)).total
    /\ \A i \in 1 .. Len(effects) : effects[i] = After(i).total - After(i - 1).total

\* Why there is an error: the request is none, or a step of it does not pass.
Rejected == \/ ~Accepted
            \/ Len(after) < N /\ ~Passes(After(Len(after)), Len(after) + 1, Fresh)

\* The answer to a request that parses but is rejected.
RefusedWith ==
    IF Rounding \notin Modes THEN Service!MapError("ErrBadCurrency")
    ELSE Service!MapError(Failure(Len(after) + 1, Fresh))

\* What the handler's place says of its state.
Place ==
    \/ /\ phase = "received" /\ answer = Pending /\ after = <<>> /\ effects = <<>>
       /\ invoice.rounding = "unset"
    \/ /\ phase = "composing" /\ answer = Pending /\ effects = <<>>
       /\ invoice.rounding = "unset"
       /\ Accepted /\ Running(N) /\ run.done = Len(after)
    \/ phase = "composed" /\ answer = Pending /\ Kept
    \/ /\ phase = "recomposing" /\ answer = Pending /\ Kept
       /\ Len(effects) < N /\ Running(Len(effects) + 1)
    \/ /\ phase = "answered" /\ answer = Service!Concluded(Parts, RefusedWith)
       /\ invoice.rounding = "unset" /\ Rejected
    \/ /\ phase = "answered" /\ answer = Service!Answer(Reply)
       /\ Kept /\ Len(effects) = N

RunType == [upTo : Nat, done : Nat, inv : InvoiceType, balances : [Balances -> Int64]]

ServiceInv ==
    /\ request \in Requests
    /\ run \in RunType
    /\ History
    /\ EffectsSoFar
    /\ Place

-----------------------------------------------------------------------------
LEMMA RequestFacts ==
    ASSUME request \in Requests
    PROVE  N \in Nat /\ EmptyInvoice(Rounding).total = 0
  BY RequestsAssumption DEF N, EmptyInvoice

\* Whatever keeps the request and the history keeps all that is said of them.
LEMMA RequestUnmoved ==
    ASSUME request' = request
    PROVE  /\ N' = N /\ Fresh' = Fresh /\ Parts' = Parts /\ Rounding' = Rounding
           /\ Accepted' = Accepted
           /\ \A s : RatingOf(s)' = RatingOf(s)
<1>1. N' = N /\ Fresh' = Fresh /\ Rounding' = Rounding
  BY DEF N, Fresh, Rounding
<1>2. Parts' = Parts
  BY <1>1 DEF Parts, CapSteps, ParseSteps
<1>3. Accepted' = Accepted
  BY <1>1, <1>2 DEF Accepted, Parses
<1>4. \A s : RatingOf(s)' = RatingOf(s)
  BY DEF RatingOf
<1> QED
  BY <1>1, <1>2, <1>3, <1>4

LEMMA Unmoved ==
    ASSUME request' = request, after' = after
    PROVE  /\ N' = N /\ Fresh' = Fresh /\ Accepted' = Accepted /\ Parts' = Parts
           /\ \A n : After(n)' = After(n)
           /\ History' = History /\ Rejected' = Rejected /\ RefusedWith' = RefusedWith
<1>1. /\ N' = N /\ Fresh' = Fresh /\ Accepted' = Accepted /\ Parts' = Parts
      /\ Rounding' = Rounding
  BY RequestUnmoved
<1>2. \A n : After(n)' = After(n)
  BY <1>1 DEF After
<1>3. \A n : Passes(After(n - 1), n, Fresh)' = Passes(After(n - 1), n, Fresh)
  BY <1>1, <1>2 DEF Passes, RatingOf
<1>4. \A n : Applied(After(n - 1), n, Fresh)' = Applied(After(n - 1), n, Fresh)
  BY <1>1, <1>2 DEF Applied, RatingOf
<1>5. \A n : Grounded(n)' = Grounded(n)
  BY <1>2, <1>3, <1>4 DEF Grounded
<1>6. \A n : Good(n)' = Good(n)
  BY <1>1, <1>2 DEF Good
<1>7. History' = History
  BY <1>1, <1>5, <1>6 DEF History
<1>8. Rejected' = Rejected
  <2>1. After(Len(after))' = After(Len(after))
    BY <1>1 DEF After
  <2>2. Passes(After(Len(after)), Len(after) + 1, Fresh)'
          = Passes(After(Len(after)), Len(after) + 1, Fresh)
    BY <1>1, <2>1 DEF Passes, RatingOf
  <2> QED
    BY <1>1, <2>2 DEF Rejected
<1>9. RefusedWith' = RefusedWith
  BY <1>1 DEF RefusedWith, Failure, RatingOf
<1> QED
  BY <1>1, <1>2, <1>7, <1>8, <1>9

\* An accepted step in its turn.
LEMMA NextStep ==
    ASSUME request \in Requests, Accepted, NEW n \in 0 .. N - 1, Good(n),
           Passes(After(n), n + 1, Fresh)
    PROVE  LET i == n + 1
               old == After(n)
               new == Applied(After(n), n + 1, Fresh)
           IN  /\ Sound(new) /\ new.rounding = Rounding
               /\ new.total - old.total \in Int64
               /\ \A b \in Balances \ {i} : new.draws[b] = old.draws[b]
               /\ request.steps[i].type \in Draws =>
                    /\ new.draws[i] = old.total - new.total
                    /\ new.draws[i] \in 0 .. request.steps[i].balance
<1> DEFINE i == n + 1
           old == After(n)
           new == Applied(After(n), n + 1, Fresh)
<1>1. N \in Nat /\ i \in 1 .. N /\ i \in Balances
  BY WhatParses, BalancesAssumption DEF Accepted
<1>2. Ready(old, i)
  BY <1>1, BalancesAssumption DEF Good, Ready, Accepted
<1>3. old.rounding = Rounding
  BY DEF Good
<1>4. CASE request.steps[i].type \notin Draws
  BY <1>1, <1>2, <1>3, <1>4, OtherStepMoves DEF Accepted
<1>5. CASE request.steps[i].type \in Draws
  <2>1. /\ Sound(new) /\ new.rounding = Rounding
        /\ \A b \in Balances \ {i} : new.draws[b] = old.draws[b]
        /\ new.draws[i] = old.total - new.total
        /\ new.draws[i] \in 0 .. request.steps[i].balance
    BY <1>1, <1>2, <1>3, <1>5, DrawMoves
  <2>2. /\ old.total \in Int /\ new.total \in Int /\ new.draws[i] \in 0 .. MaxInt
    BY <1>1, <1>2, <2>1, MaxIntAssumption DEF Ready, Sound, InvoiceType, Int64, MinInt
  <2>3. new.total - old.total = -new.draws[i] /\ new.draws[i] \in Int
    BY <2>1, <2>2, MaxIntAssumption
  <2>4. new.total - old.total \in Int64
    BY <2>2, <2>3, MaxIntAssumption DEF Int64, MinInt
  <2> QED
    BY <2>1, <2>4
<1> QED
  BY <1>4, <1>5

\* The history grows by a step that passes.
LEMMA HistoryGrows ==
    ASSUME ServiceInv, Accepted, NEW m, m = Len(after), m < N,
           Passes(After(m), m + 1, Fresh),
           request' = request,
           after' = Append(after, Applied(After(m), m + 1, Fresh))
    PROVE  /\ History'
           /\ Len(after') = m + 1
           /\ N' = N /\ Fresh' = Fresh /\ Accepted' = Accepted
           /\ \A n \in 0 .. m : After(n)' = After(n)
           /\ After(m + 1)' = Applied(After(m), m + 1, Fresh)
           /\ Applied(After(m), m + 1, Fresh) \in InvoiceType
<1> DEFINE new == Applied(After(m), m + 1, Fresh)
<1>1. /\ request \in Requests /\ N \in Nat /\ m \in 0 .. N - 1 /\ m \in Nat
      /\ after \in Seq(InvoiceType) /\ History
  BY RequestFacts DEF ServiceInv, History
<1>2. Good(m)
  BY <1>1 DEF History
<1>3. /\ Sound(new) /\ new.rounding = Rounding
      /\ new.total - After(m).total \in Int64
      /\ \A b \in Balances \ {m + 1} : new.draws[b] = After(m).draws[b]
      /\ request.steps[m + 1].type \in Draws =>
           /\ new.draws[m + 1] = After(m).total - new.total
           /\ new.draws[m + 1] \in 0 .. request.steps[m + 1].balance
  BY <1>1, <1>2, NextStep
<1>4. /\ N' = N /\ Fresh' = Fresh /\ Accepted' = Accepted /\ Rounding' = Rounding
  BY RequestUnmoved
<1> HIDE DEF new
<1>5. new \in InvoiceType
  BY <1>3 DEF Sound
<1>6. /\ after' \in Seq(InvoiceType) /\ Len(after') = m + 1
      /\ \A n \in 1 .. m : after'[n] = after[n]
      /\ after'[m + 1] = new
  BY <1>1, <1>5 DEF new
<1>7. \A n \in 0 .. m : After(n)' = After(n)
  BY <1>1, <1>4, <1>6 DEF After
<1>8. After(m + 1)' = new
  BY <1>1, <1>4, <1>6 DEF After
<1>9. \A n \in 1 .. m : Grounded(n)'
  <2> SUFFICES ASSUME NEW n \in 1 .. m PROVE Grounded(n)'
    OBVIOUS
  <2>1. Grounded(n) /\ After(n)' = After(n) /\ After(n - 1)' = After(n - 1)
    BY <1>1, <1>7 DEF History
  <2>2. Passes(After(n - 1), n, Fresh)'
    BY <1>4, <2>1 DEF Grounded, Passes, RatingOf
  <2>3. Applied(After(n - 1), n, Fresh)' = Applied(After(n - 1), n, Fresh)
    BY <1>4, <2>1 DEF Applied, RatingOf
  <2> QED
    BY <2>1, <2>2, <2>3 DEF Grounded
<1>10. Grounded(m + 1)'
  <2>1. (m + 1) - 1 = m /\ After(m)' = After(m)
    BY <1>1, <1>7
  <2>2. Passes(After((m + 1) - 1), m + 1, Fresh)'
    BY <1>4, <2>1 DEF Passes, RatingOf
  <2>3. Applied(After((m + 1) - 1), m + 1, Fresh)' = new
    BY <1>4, <2>1 DEF Applied, RatingOf, new
  <2> QED
    BY <1>3, <1>8, <2>1, <2>2, <2>3 DEF Grounded
<1>11. \A n \in 0 .. m : Good(n)'
  <2> SUFFICES ASSUME NEW n \in 0 .. m PROVE Good(n)'
    OBVIOUS
  <2>1. Good(n)
    BY <1>1 DEF History
  <2>2. \A b \in 1 .. n : After(b)' = After(b) /\ After(b - 1)' = After(b - 1)
    BY <1>1, <1>7
  <2> QED
    BY <1>4, <1>7, <2>1, <2>2 DEF Good
<1>12. Good(m + 1)'
  <2>1. \A b \in Balances : b \in Nat
    BY BalancesAssumption
  <2>2. \A b \in Balances : b > m + 1 => new.draws[b] = 0
    BY <1>1, <1>2, <1>3, <2>1 DEF Good
  <2>3. \A b \in 1 .. m : b \in Balances /\ b # m + 1
    BY <1>1, WhatParses, BalancesAssumption DEF Accepted
  <2>4. \A b \in 1 .. m : request.steps[b].type \in Draws =>
          /\ new.draws[b] = After(b - 1).total - After(b).total
          /\ new.draws[b] \in 0 .. request.steps[b].balance
    BY <1>2, <1>3, <2>3 DEF Good
  <2>5. \A b \in 1 .. m : After(b)' = After(b) /\ After(b - 1)' = After(b - 1)
    BY <1>1, <1>7
  <2>6. ASSUME NEW b \in 1 .. m + 1, request.steps[b].type \in Draws
        PROVE  /\ new.draws[b] = (After(b - 1).total)' - (After(b).total)'
               /\ new.draws[b] \in 0 .. request.steps[b].balance
    <3>1. CASE b \in 1 .. m
      BY <2>4, <2>5, <2>6, <3>1
    <3>2. CASE b = m + 1
      <4>1. b - 1 = m /\ After(m)' = After(m)
        BY <1>1, <1>7, <3>2
      <4> QED
        BY <1>3, <1>8, <2>6, <3>2, <4>1
    <3> QED
      BY <1>1, <3>1, <3>2
  <2> QED
    BY <1>3, <1>4, <1>8, <2>2, <2>6 DEF Good
<1> QED
  <2>1. \A n \in 1 .. m + 1 : Grounded(n)' /\ Good(n)'
    BY <1>1, <1>9, <1>10, <1>11, <1>12
  <2>2. Good(0)'
    BY <1>1, <1>11
  <2>3. History'
    BY <1>1, <1>4, <1>6, <2>1, <2>2 DEF History
  <2> QED
    BY <1>4, <1>5, <1>6, <1>7, <1>8, <2>3 DEF new

-----------------------------------------------------------------------------
\* What the second pass has gathered stands while nothing of it moves.
LEMMA GatheredUnmoved ==
    ASSUME request' = request, after' = after
    PROVE  /\ UNCHANGED <<effects, prev>> => EffectsSoFar' = EffectsSoFar
           /\ UNCHANGED <<invoice, shown>> => Kept' = Kept
           /\ UNCHANGED <<invoice, shown, effects>> => Reply' = Reply
<1>1. UNCHANGED <<effects, prev>> => EffectsSoFar' = EffectsSoFar
  BY RequestUnmoved DEF EffectsSoFar, After
<1>2. N' = N /\ Fresh' = Fresh /\ Accepted' = Accepted /\ After(N)' = After(N)
  BY RequestUnmoved DEF After
<1>3. UNCHANGED <<invoice, shown, effects>> => Reply' = Reply
  BY <1>2 DEF Reply
<1> QED
  BY <1>1, <1>2, <1>3 DEF Kept

\* A run after one more step.
LEMMA RunAdvances ==
    ASSUME NEW r \in RunType, NEW i \in Nat, NEW inv \in InvoiceType
    PROVE  [r EXCEPT !.done = i, !.inv = inv] \in RunType
<1> DEFINE B == [Balances -> Int64]
           T == InvoiceType
<1>1. r \in [upTo : Nat, done : Nat, inv : T, balances : B] /\ inv \in T
  BY DEF RunType
<1> HIDE DEF B, T
<1>2. [r EXCEPT !.done = i, !.inv = inv] \in [upTo : Nat, done : Nat, inv : T, balances : B]
  BY <1>1
<1> QED
  BY <1>2 DEF RunType, B, T

LEMMA NewRunFacts ==
    ASSUME request \in Requests, Rounding \in Modes, NEW upTo \in Nat
    PROVE  /\ NewRun(upTo) \in RunType
           /\ NewRun(upTo).upTo = upTo /\ NewRun(upTo).done = 0
           /\ NewRun(upTo).inv = After(0) /\ NewRun(upTo).balances = Fresh
<1>1. EmptyInvoice(Rounding) \in InvoiceType
  BY EmptyIsSound DEF Sound
<1>2. Fresh \in [Balances -> Int64]
  BY FreshBalances
<1> QED
  BY <1>1, <1>2 DEF NewRun, After, RunType

LEMMA InitEstablishes == Init => ServiceInv
<1> SUFFICES ASSUME Init PROVE ServiceInv
  OBVIOUS
<1>1. request \in Requests /\ N \in Nat /\ EmptyInvoice(Rounding).total = 0
  BY RequestFacts DEF Init
<1>2. EmptyInvoice("unset") \in InvoiceType /\ 0 \in Int64
  BY EmptyIsSound, MaxIntAssumption DEF Sound, Int64, MinInt
<1>3. run \in RunType
  BY <1>2 DEF Init, RunType
<1>4. Accepted => Good(0)
  <2>1. /\ After(0) = EmptyInvoice(Rounding)
        /\ EmptyInvoice(Rounding).rounding = Rounding
        /\ \A b \in Balances : EmptyInvoice(Rounding).draws[b] = 0
    BY DEF After, EmptyInvoice
  <2> QED
    BY <2>1, EmptyIsSound DEF Good, Accepted
<1>5. History
  BY <1>1, <1>4 DEF Init, History
<1>6. EffectsSoFar
  BY <1>1 DEF Init, EffectsSoFar, After
<1>7. Place
  BY DEF Init, Place, EmptyInvoice
<1> QED
  BY <1>1, <1>3, <1>5, <1>6, <1>7 DEF ServiceInv

\* What a request is refused with is decided by its parts before its steps.
LEMMA PartsAreFour == DOMAIN Parts = 1 .. 4
  BY DEF Parts

LEMMA OnePartRefuses ==
    ASSUME ~Parses
    PROVE  \E k \in 1 .. 4 : /\ ~Parts[k].ok
                             /\ \A last : Service!Concluded(Parts, last) = Parts[k].answer
<1>1. PICK n \in Nat : n = 4
  OBVIOUS
<1>2. DOMAIN Parts = 1 .. n /\ \E k \in 1 .. n : ~Parts[k].ok
  BY <1>1, PartsAreFour DEF Parses
<1>3. \E k \in 1 .. n : /\ ~Parts[k].ok
                        /\ \A last : Service!Concluded(Parts, last) = Parts[k].answer
  BY <1>2, TheFirst
<1> QED
  BY <1>1, <1>3

LEMMA RefusesWith ==
    /\ Parses => Service!Concluded(Parts, RefusedWith) = RefusedWith
    /\ ~Parses => Service!Concluded(Parts, RefusedWith) = Service!Concluded(Parts, Pending)
<1>1. ASSUME Parses PROVE Service!Concluded(Parts, RefusedWith) = RefusedWith
  BY <1>1, AllUnderstood, OneConclusion DEF Parses
<1>2. ASSUME ~Parses
      PROVE  Service!Concluded(Parts, RefusedWith) = Service!Concluded(Parts, Pending)
  <2>1. PICK k \in 1 .. 4 : \A last : Service!Concluded(Parts, last) = Parts[k].answer
    BY <1>2, OnePartRefuses
  <2> QED
    BY <2>1
<1> QED
  BY <1>1, <1>2

LEMMA RefusePreserves ==
    ASSUME ServiceInv, Refuse PROVE ServiceInv'
<1>1. request' = request /\ UNCHANGED <<run, invoice, shown, prev, effects, after>>
      /\ phase' = "answered"
  BY DEF Refuse, Fail
<1>2. /\ History' /\ EffectsSoFar' /\ Rejected' = Rejected /\ Parts' = Parts
      /\ RefusedWith' = RefusedWith
  BY <1>1, Unmoved, GatheredUnmoved DEF ServiceInv
<1>3. Rejected
  BY DEF Refuse, Rejected, Accepted
<1>4. answer' = Service!Concluded(Parts, RefusedWith)
  <2>1. CASE ~Parses
    BY <2>1, RefusesWith DEF Refuse, Fail
  <2>2. CASE Parses
    BY <2>2, RefusesWith DEF Refuse, Fail, RefusedWith
  <2> QED
    BY <2>1, <2>2
<1>5. invoice.rounding = "unset"
  BY DEF ServiceInv, Place, Refuse
<1>6. Place'
  BY <1>1, <1>2, <1>3, <1>4, <1>5 DEF Place
<1> QED
  BY <1>1, <1>2, <1>6 DEF ServiceInv

LEMMA BeginPreserves ==
    ASSUME ServiceInv, Begin PROVE ServiceInv'
<1>1. /\ History' /\ EffectsSoFar' /\ N' = N /\ Fresh' = Fresh /\ Accepted' = Accepted
      /\ \A n : After(n)' = After(n)
  BY Unmoved, GatheredUnmoved DEF ServiceInv, Begin
<1>2. /\ Accepted /\ N \in Nat /\ request \in Requests
      /\ answer = Pending /\ after = <<>> /\ effects = <<>> /\ invoice.rounding = "unset"
  BY RequestFacts DEF ServiceInv, Place, Begin, Accepted
<1>3. /\ run' \in RunType
      /\ run'.upTo = N /\ run'.done = 0 /\ run'.inv = After(0) /\ run'.balances = Fresh
  BY <1>2, NewRunFacts DEF Begin
<1>4. Running(N)'
  <2>1. After(run.done)' = After(0)'
    BY <1>3 DEF After
  <2> QED
    BY <1>1, <1>2, <1>3, <2>1 DEF Running
<1>5. Place'
  BY <1>1, <1>2, <1>3, <1>4 DEF Place, Begin
<1> QED
  BY <1>1, <1>3, <1>5 DEF ServiceInv, Begin

\* A turn of the first run: its step enters the history, or the request fails
\* before there is an invoice.
LEMMA FirstFoldPreserves ==
    ASSUME ServiceInv, Fold, phase = "composing" PROVE ServiceInv'
<1>1. /\ answer = Pending /\ effects = <<>> /\ invoice.rounding = "unset"
      /\ Accepted /\ request \in Requests /\ after \in Seq(InvoiceType) /\ N \in Nat
      /\ run.upTo = N /\ run.done = Len(after) /\ run.done \in Nat
      /\ run.inv = After(run.done) /\ run.balances = Fresh
  BY RequestFacts DEF ServiceInv, History, Place, Running
<1>2. CASE Passes(run.inv, run.done + 1, run.balances)
  <2>1. PICK m : m = run.done
    OBVIOUS
  <2> DEFINE new == Applied(After(m), m + 1, Fresh)
  <2>2. /\ m \in Nat /\ m = Len(after) /\ m < N
        /\ Passes(After(m), m + 1, Fresh)
        /\ run' = [run EXCEPT !.done = m + 1, !.inv = new]
    BY <1>1, <1>2, <2>1 DEF Fold
  <2>3. run'.upTo = N /\ run'.done = m + 1 /\ run'.inv = new /\ run'.balances = Fresh
    BY <1>1, <2>2 DEF ServiceInv
  <2>4. /\ request' = request /\ after' = Append(after, new)
        /\ UNCHANGED <<phase, invoice, shown, prev, effects, answer>>
    BY <1>1, <1>2, <2>3 DEF Fold, Fail
  <2>5. /\ History' /\ Len(after') = m + 1
        /\ N' = N /\ Fresh' = Fresh /\ Accepted' = Accepted
        /\ \A n \in 0 .. m : After(n)' = After(n)
        /\ After(m + 1)' = new
        /\ new \in InvoiceType
    BY <1>1, <2>2, <2>4, HistoryGrows
  <2> HIDE DEF new
  <2>6. run' \in RunType
    <3>1. run \in RunType /\ m + 1 \in Nat
      BY <2>2 DEF ServiceInv
    <3> QED
      BY <2>2, <2>5, <3>1, RunAdvances
  <2>7. Running(N)'
    <3>1. After(run.done)' = After(m + 1)'
      BY <2>3 DEF After
    <3>2. (run.upTo)' = N' /\ (run.done)' \in 0 .. N' /\ (run.balances)' = Fresh'
      BY <1>1, <2>2, <2>3, <2>5
    <3> QED
      BY <2>3, <2>5, <3>1, <3>2 DEF Running
  <2>8. EffectsSoFar'
    BY <1>1, <2>2, <2>4, <2>5 DEF ServiceInv, EffectsSoFar, After
  <2>9. Place'
    BY <1>1, <2>3, <2>4, <2>5, <2>7 DEF Place
  <2> QED
    BY <2>4, <2>5, <2>6, <2>8, <2>9 DEF ServiceInv
<1>3. CASE ~Passes(run.inv, run.done + 1, run.balances)
  <2>1. Fail(Service!MapError(Failure(Len(after) + 1, Fresh)))
    BY <1>1, <1>3 DEF Fold
  <2>2. /\ History' /\ EffectsSoFar' /\ Rejected' = Rejected /\ Parts' = Parts
        /\ RefusedWith' = RefusedWith
    BY <2>1, Unmoved, GatheredUnmoved DEF ServiceInv, Fail
  <2>3. Rejected
    <3>1. run.done < N
      BY <1>1 DEF Fold
    <3> QED
      BY <1>1, <1>3, <3>1 DEF Rejected
  <2>4. answer' = Service!Concluded(Parts, RefusedWith)
    BY <1>1, <2>1, RefusesWith DEF Accepted, RefusedWith, Fail
  <2>5. Place'
    BY <1>1, <2>1, <2>2, <2>3, <2>4 DEF Place, Fail
  <2> QED
    BY <2>1, <2>2, <2>5 DEF ServiceInv, Fail
<1> QED
  BY <1>2, <1>3

\* A turn of a later run repeats a turn of the first: it passes as that did.
LEMMA LaterFoldPreserves ==
    ASSUME ServiceInv, Fold, phase = "recomposing" PROVE ServiceInv'
<1>1. /\ answer = Pending /\ Kept /\ N \in Nat /\ Len(effects) \in Nat /\ Len(effects) < N
      /\ Len(after) = N
      /\ run.upTo = Len(effects) + 1 /\ run.done \in 0 .. run.upTo
      /\ run.inv = After(run.done) /\ run.balances = Fresh
  BY RequestFacts DEF ServiceInv, EffectsSoFar, Place, Running, Kept
<1>2. PICK i : i = run.done + 1
  OBVIOUS
<1>3. /\ i \in 1 .. Len(effects) + 1 /\ i \in 1 .. Len(after) /\ i - 1 = run.done
  BY <1>1, <1>2 DEF Fold
<1>4. Passes(run.inv, i, run.balances) /\ After(i) = Applied(run.inv, i, run.balances)
  BY <1>1, <1>3 DEF ServiceInv, History, Grounded
<1>5. /\ run' = [run EXCEPT !.done = i, !.inv = After(i)]
      /\ UNCHANGED <<phase, request, invoice, shown, prev, effects, answer, after>>
  BY <1>2, <1>4 DEF Fold
<1>6. /\ History' /\ EffectsSoFar' /\ Kept' /\ N' = N /\ Fresh' = Fresh
      /\ After(i)' = After(i)
  BY <1>1, <1>5, Unmoved, GatheredUnmoved DEF ServiceInv
<1>7. After(i) \in InvoiceType
  BY <1>3 DEF ServiceInv, History, Good, Sound
<1>8. run' \in RunType
  <2>1. run \in RunType /\ i \in Nat
    BY <1>1, <1>3 DEF ServiceInv
  <2> QED
    BY <1>5, <1>7, <2>1, RunAdvances
<1>9. run'.upTo = run.upTo /\ run'.done = i /\ run'.inv = After(i) /\ run'.balances = Fresh
  BY <1>1, <1>5 DEF ServiceInv
<1>10. Running(Len(effects) + 1)'
  <2>1. After(run.done)' = After(i)'
    BY <1>9 DEF After
  <2> QED
    BY <1>1, <1>3, <1>5, <1>6, <1>9, <2>1 DEF Running
<1>11. Place'
  BY <1>1, <1>5, <1>6, <1>10 DEF Place
<1> QED
  BY <1>5, <1>6, <1>8, <1>11 DEF ServiceInv

LEMMA ComposedPreserves ==
    ASSUME ServiceInv, Composed PROVE ServiceInv'
<1>1. /\ answer = Pending /\ Accepted /\ N \in Nat
      /\ run.done = N /\ Len(after) = N
      /\ run.inv = After(N) /\ run.balances = Fresh
  BY RequestFacts DEF ServiceInv, Place, Running, Composed
<1>2. /\ History' /\ EffectsSoFar' /\ N' = N /\ Fresh' = Fresh /\ Accepted' = Accepted
      /\ After(N)' = After(N)
  <2>1. After(N)' = After(N)
    BY RequestUnmoved DEF After, Composed
  <2> QED
    BY <2>1, Unmoved, GatheredUnmoved DEF ServiceInv, Composed
<1>3. Kept'
  BY <1>1, <1>2 DEF Kept, Composed, Committed
<1>4. Place'
  BY <1>1, <1>3 DEF Place, Composed
<1> QED
  BY <1>2, <1>4 DEF ServiceInv, Composed

LEMMA RecomposePreserves ==
    ASSUME ServiceInv, Recompose PROVE ServiceInv'
<1>1. /\ answer = Pending /\ Kept /\ N \in Nat /\ request \in Requests
      /\ Rounding \in Modes /\ Len(effects) \in Nat /\ Len(effects) < N
  BY RequestFacts DEF ServiceInv, EffectsSoFar, Place, Kept, Accepted, Recompose
<1>2. /\ run' \in RunType
      /\ run'.upTo = Len(effects) + 1 /\ run'.done = 0
      /\ run'.inv = After(0) /\ run'.balances = Fresh
  BY <1>1, NewRunFacts DEF Recompose
<1>3. /\ History' /\ EffectsSoFar' /\ Kept' /\ N' = N /\ Fresh' = Fresh
      /\ After(0)' = After(0)
  BY <1>1, Unmoved, GatheredUnmoved DEF ServiceInv, Recompose
<1>4. Running(Len(effects) + 1)'
  <2>1. After(run.done)' = After(0)'
    BY <1>2 DEF After
  <2> QED
    BY <1>1, <1>2, <1>3, <2>1 DEF Running, Recompose
<1>5. Place'
  BY <1>1, <1>3, <1>4 DEF Place, Recompose
<1> QED
  BY <1>2, <1>3, <1>5 DEF ServiceInv, Recompose

\* The difference of two totals in turn is an effect of the type.
LEMMA RecomposedPreserves ==
    ASSUME ServiceInv, Recomposed PROVE ServiceInv'
<1>1. /\ answer = Pending /\ Kept /\ N \in Nat /\ effects \in Seq(Int)
      /\ Len(effects) \in Nat /\ Len(effects) < N /\ Len(after) = N
      /\ run.done = Len(effects) + 1 /\ run.inv = After(run.done)
      /\ prev = After(Len(effects)).total
  BY RequestFacts DEF ServiceInv, EffectsSoFar, Place, Running, Kept, Recomposed
<1>2. PICK k : k = run.done
  OBVIOUS
<1>3. /\ k \in Nat \ {0} /\ k \in 1 .. Len(after) /\ k - 1 = Len(effects)
      /\ run.inv = After(k) /\ prev = After(k - 1).total
  BY <1>1, <1>2
<1>4. After(k).total - After(k - 1).total \in Int64
  BY <1>3 DEF ServiceInv, History, Grounded
<1>5. /\ effects' = Append(effects, After(k).total - After(k - 1).total)
      /\ prev' = After(k).total
      /\ UNCHANGED <<request, run, invoice, shown, answer, after>> /\ phase' = "composed"
  BY <1>3, <1>4, WrapIsExact DEF Recomposed, Effect
<1>6. /\ History' /\ Kept' /\ \A n : After(n)' = After(n)
  BY <1>1, <1>5, Unmoved, GatheredUnmoved DEF ServiceInv
<1>7. After(k).total - After(k - 1).total \in Int
  BY <1>4, MaxIntAssumption DEF Int64, MinInt
<1>8. /\ effects' \in Seq(Int) /\ Len(effects') = k
      /\ \A i \in 1 .. k - 1 : effects'[i] = effects[i]
      /\ effects'[k] = After(k).total - After(k - 1).total
  BY <1>1, <1>3, <1>5, <1>7
<1>9. EffectsSoFar'
  <2>1. After(Len(effects))' = After(k)'
    BY <1>8 DEF After
  <2>2. (prev = After(Len(effects)).total)'
    BY <1>5, <1>6, <2>1
  <2>3. \A i \in 1 .. k : effects'[i] = After(i).total - After(i - 1).total
    <3> SUFFICES ASSUME NEW i \in 1 .. k PROVE effects'[i] = After(i).total - After(i - 1).total
      OBVIOUS
    <3>1. CASE i \in 1 .. k - 1
      <4>1. effects[i] = After(i).total - After(i - 1).total
        BY <1>3, <3>1 DEF ServiceInv, EffectsSoFar
      <4> QED
        BY <1>8, <3>1, <4>1
    <3>2. CASE i = k
      BY <1>8, <3>2
    <3> QED
      BY <1>3, <3>1, <3>2
  <2>4. (\A i \in 1 .. Len(effects) : effects[i] = After(i).total - After(i - 1).total)'
    BY <1>6, <1>8, <2>3
  <2> QED
    BY <1>3, <1>5, <1>8, <2>2, <2>4 DEF EffectsSoFar
<1>10. Place'
  BY <1>1, <1>5, <1>6 DEF Place
<1> QED
  BY <1>5, <1>6, <1>9, <1>10 DEF ServiceInv

LEMMA RespondPreserves ==
    ASSUME ServiceInv, Respond PROVE ServiceInv'
<1>1. Kept /\ Len(effects) = N
  BY DEF ServiceInv, Place, Respond
<1>2. History' /\ EffectsSoFar' /\ Kept' /\ N' = N /\ Reply' = Reply
  BY <1>1, Unmoved, GatheredUnmoved DEF ServiceInv, Respond
<1>3. Place'
  BY <1>1, <1>2 DEF Place, Respond
<1> QED
  BY <1>2, <1>3 DEF ServiceInv, Respond

LEMMA StepPreserves == ServiceInv /\ [Next]_vars => ServiceInv'
<1> SUFFICES ASSUME ServiceInv, [Next]_vars PROVE ServiceInv'
  OBVIOUS
<1>1. CASE Refuse
  BY <1>1, RefusePreserves
<1>2. CASE Begin
  BY <1>2, BeginPreserves
<1>3. CASE Fold
  <2>1. phase \in {"composing", "recomposing"}
    BY <1>3 DEF Fold
  <2> QED
    BY <1>3, <2>1, FirstFoldPreserves, LaterFoldPreserves
<1>4. CASE Composed
  BY <1>4, ComposedPreserves
<1>5. CASE Recompose
  BY <1>5, RecomposePreserves
<1>6. CASE Recomposed
  BY <1>6, RecomposedPreserves
<1>7. CASE Respond
  BY <1>7, RespondPreserves
<1>8. CASE UNCHANGED vars
  <2>1. History' /\ EffectsSoFar'
    BY <1>8, Unmoved, GatheredUnmoved DEF ServiceInv, vars
  <2>2. /\ Rejected' = Rejected /\ Parts' = Parts /\ RefusedWith' = RefusedWith
        /\ N' = N /\ Fresh' = Fresh /\ Accepted' = Accepted /\ Kept' = Kept
        /\ Reply' = Reply /\ After(run.done)' = After(run.done)
    BY <1>8, Unmoved, GatheredUnmoved DEF vars, After, Rounding
  <2>3. Place' = Place
    BY <1>8, <2>2 DEF vars, Place, Running
  <2> QED
    BY <1>8, <2>1, <2>3 DEF ServiceInv, vars
<1> QED
  BY <1>1, <1>2, <1>3, <1>4, <1>5, <1>6, <1>7, <1>8 DEF Next

\* The inductive invariant, of every run of the handler.
THEOREM ServiceInvHolds == Spec => []ServiceInv
<1>1. Init => ServiceInv
  BY InitEstablishes
<1>2. ServiceInv /\ [Next]_vars => ServiceInv'
  BY StepPreserves
<1> QED
  BY <1>1, <1>2, PTL DEF Spec

-----------------------------------------------------------------------------
(***************************************************************************)
(* What the handler's properties have of the invariant.                    *)
(***************************************************************************)
\* A refused part is refused for what it is.
LEMMA PartsRefuse ==
    ASSUME request \in Requests, NEW k \in 1 .. 4, ~Parts[k].ok
    PROVE  Parts[k].answer.status \in {400, 413}
<1>1. \A f : Service!Bad(f).answer.status = 400
  BY DEF Service!Bad, Service!Refused, Service!Refusal
<1>2. ~Parts[1].ok => Parts[1].answer.status \in {400, 413}
  BY DEF Parts, Service!DecodeBody, Service!Refused, Service!Refusal, Service!Parsed
<1>3. ~Parts[2].ok => Parts[2].answer.status = 400
  BY <1>1 DEF Parts, CapSteps, Service!Parsed
<1>4. ~Parts[3].ok => Parts[3].answer.status = 400
  BY <1>1 DEF Parts, Service!ToCurrency, Service!ParseRounding, Service!Parsed
<1>5. ASSUME ~ParseSteps.ok PROVE ParseSteps.answer.status = 400
  <2>1. PICK ps : ps = [i \in DOMAIN request.steps |-> Page!ParseStep(request.steps[i])]
    OBVIOUS
  <2>2. RefusedAlike(Page!Joined(ps, request.steps), ParseSteps)
    BY <2>1, StepsAlike
  <2> QED
    BY <1>5, <2>2 DEF RefusedAlike
<1> QED
  BY <1>2, <1>3, <1>4, <1>5 DEF Parts

LEMMA StatusOf ==
    ASSUME ServiceInv, phase = "answered"
    PROVE  \/ answer.status = 200 /\ answer = Service!Answer(Reply) /\ Kept /\ Len(effects) = N
           \/ /\ answer.status # 200 /\ answer = Service!Concluded(Parts, RefusedWith)
              /\ invoice.rounding = "unset" /\ Rejected
<1>1. Service!Answer(Reply).status = 200
  BY DEF Service!Answer
<1>2. Service!Concluded(Parts, RefusedWith).status # 200
  <2>1. CASE Parses
    <3>1. \A why : Service!MapError(why).status # 200
      BY DEF Service!MapError, Service!Refusal
    <3>2. RefusedWith.status # 200
      BY <3>1 DEF RefusedWith
    <3> QED
      BY <2>1, <3>2, RefusesWith
  <2>2. CASE ~Parses
    <3>1. PICK k \in 1 .. 4 : /\ ~Parts[k].ok
                              /\ \A last : Service!Concluded(Parts, last) = Parts[k].answer
      BY <2>2, OnePartRefuses
    <3> QED
      BY <3>1, PartsRefuse DEF ServiceInv
  <2> QED
    BY <2>1, <2>2
<1> QED
  BY <1>1, <1>2 DEF ServiceInv, Place

\* The status of the answer tells where the handler is.
LEMMA PlaceByStatus ==
    ASSUME ServiceInv
    PROVE  \/ answer.status = 0
           \/ phase = "answered"
  BY DEF ServiceInv, Place, Pending, Service!Refusal

LEMMA PrefixesPass == ServiceInv => NoPrefixFails
  BY PlaceByStatus, StatusOf DEF NoPrefixFails, Modes

LEMMA MovesGathered == ServiceInv => EffectsAreMoves
<1> SUFFICES ASSUME ServiceInv PROVE EffectsAreMoves
  OBVIOUS
<1>1. answer.status = 200 => Len(effects) = N /\ invoice = After(N)
  BY PlaceByStatus, StatusOf DEF Kept
<1> QED
  BY <1>1 DEF ServiceInv, EffectsSoFar, EffectsAreMoves

LEMMA DrawsShown == ServiceInv => BalancesMatchEffects
<1> SUFFICES ASSUME ServiceInv, answer.status = 200, NEW i \in 1 .. N,
                    request.steps[i].type \in Draws
             PROVE  /\ effects[i] <= 0
                    /\ shown[i] = request.steps[i].balance + effects[i]
                    /\ shown[i] >= 0
  BY DEF BalancesMatchEffects
<1> DEFINE drawn == After(N).draws[i]
           given == request.steps[i].balance
<1>1. Kept /\ Len(effects) = N /\ N \in Nat /\ request \in Requests
  BY RequestFacts, PlaceByStatus, StatusOf DEF ServiceInv
<1>2. i \in Balances /\ Fresh[i] = given /\ given \in Int64
  BY <1>1, WhatParses, FreshBalances, BalancesAssumption DEF Kept, Accepted
<1>3. /\ drawn = After(i - 1).total - After(i).total
      /\ drawn \in 0 .. given
  <2>1. N \in 1 .. Len(after)
    BY <1>1 DEF Kept
  <2> QED
    BY <2>1 DEF ServiceInv, History, Good
<1>4. effects[i] = After(i).total - After(i - 1).total
  BY <1>1 DEF ServiceInv, EffectsSoFar
<1>5. After(i).total \in Int /\ After(i - 1).total \in Int
  <2>1. Good(i) /\ Good(i - 1)
    BY <1>1 DEF ServiceInv, History, Kept
  <2> QED
    BY <2>1, MaxIntAssumption DEF Good, Sound, InvoiceType, Int64, MinInt
<1>6. shown[i] = Wrap(given - drawn)
  BY <1>1, <1>2 DEF Kept
<1> HIDE DEF drawn, given
<1>7. given - drawn \in Int64 /\ given \in Int /\ drawn \in Int
  BY <1>2, <1>3, MaxIntAssumption DEF Int64, MinInt
<1>8. shown[i] = given - drawn
  BY <1>6, <1>7, WrapIsExact
<1> QED
  BY <1>3, <1>4, <1>5, <1>7, <1>8 DEF given

\* Once the handler has an invoice it answers with it: no prefix of steps that
\* composed as a whole is refused, whatever the steps and their number.
THEOREM NoPrefixFailsHolds == Spec => []NoPrefixFails
  BY ServiceInvHolds, PrefixesPass, PTL

\* Each effect is what its step moved the total of the invoice by, although it
\* was taken from two other runs and by an unguarded subtraction.
THEOREM EffectsAreMovesHolds == Spec => []EffectsAreMoves
  BY ServiceInvHolds, MovesGathered, PTL

\* What the answer shows as left of a balance is what the effect of its draw
\* leaves of it, and is never negative.
THEOREM BalancesMatchEffectsHolds == Spec => []BalancesMatchEffects
  BY ServiceInvHolds, DrawsShown, PTL

-----------------------------------------------------------------------------
(***************************************************************************)
(* Every outcome of the library has a row in both tables of codes.         *)
(***************************************************************************)
\* An outcome of the library that both tables have a row for.
Named(outcome) == outcome.ok \/ outcome.why \in DOMAIN Service!ErrorTable

LEMMA CodesAreTheTable ==
    ASSUME NEW why \in DOMAIN Service!ErrorTable
    PROVE  /\ Page!ErrCode(why) = Service!ErrorTable[why]
           /\ Service!ErrorTable[why] \notin {"error", "ok"}
<1>1. Page!ErrCode(why) = Service!ErrorTable[why]
  BY DEF Page!ErrCode, Service!ErrorTable
<1>2. Service!ErrorTable[why] \notin {"error", "ok"}
  BY DEF Service!ErrorTable
<1> QED
  BY <1>1, <1>2

LEMMA FailsAreNamed ==
    ASSUME NEW why \in DOMAIN Service!ErrorTable
    PROVE  Named(Service!Rates!Fails(why)) /\ Named(Service!Periods!Fails(why))
  BY DEF Named, Service!Rates!Fails, Service!Periods!Fails

LEMMA SentinelsListed ==
    {"ErrBadCurrency", "ErrNegativeQuantity", "ErrBadAllowance", "ErrNoRate", "ErrEmptyTiers",
     "ErrTierOrder", "ErrUnknownModel", "ErrBadPackage", "ErrOverflow", "ErrBadPeriod",
     "ErrBadWindow", "ErrBadBasis", "ErrNegativeAmount"} \subseteq DOMAIN Service!ErrorTable
  BY DEF Service!ErrorTable

LEMMA LinesAreNamed ==
    ASSUME NEW c, NEW q, NEW rate
    PROVE  /\ Named(Service!Rates!RoundedLine(c, q, rate))
           /\ Named(Service!Rates!Nothing)
           /\ \A units, amount : Named(Service!Rates!OneLine(units, amount))
  BY FailsAreNamed, SentinelsListed
  DEF Service!Rates!RoundedLine, Service!Rates!OneLine, Service!Rates!Nothing, Named

LEMMA TierErrorNamed ==
    ASSUME NEW tiers, NEW r, NEW f
    PROVE  Named(Service!Rates!TierError(tiers, r, f))
  BY FailsAreNamed, SentinelsListed DEF Service!Rates!TierError

LEMMA ModelsAreNamed ==
    ASSUME NEW c, NEW q
    PROVE  /\ Named(Service!Rates!RatePerUnit(c, q))
           /\ Named(Service!Rates!RateGraduated(c, q))
           /\ Named(Service!Rates!RateVolume(c, q))
           /\ Named(Service!Rates!RatePackage(c, q))
           /\ Named(Service!Rates!RateStairstep(c, q))
<1>1. Named(Service!Rates!RatePerUnit(c, q))
  BY LinesAreNamed, FailsAreNamed, SentinelsListed DEF Service!Rates!RatePerUnit
<1>2. Named(Service!Rates!RateGraduated(c, q))
  BY LinesAreNamed, TierErrorNamed, FailsAreNamed, SentinelsListed
  DEF Service!Rates!RateGraduated, Named
<1>3. Named(Service!Rates!RateVolume(c, q))
  BY LinesAreNamed, TierErrorNamed DEF Service!Rates!RateVolume
<1>4. Named(Service!Rates!RatePackage(c, q))
  BY LinesAreNamed, FailsAreNamed, SentinelsListed DEF Service!Rates!RatePackage
<1>5. Named(Service!Rates!RateStairstep(c, q))
  BY LinesAreNamed, TierErrorNamed DEF Service!Rates!RateStairstep
<1> QED
  BY <1>1, <1>2, <1>3, <1>4, <1>5

LEMMA UsageNamed ==
    ASSUME NEW c, NEW q
    PROVE  Named(Service!Rates!Usage(c, q))
<1>1. Named(Service!Rates!Fails("ErrUnknownModel"))
  BY FailsAreNamed, SentinelsListed
<1> QED
  BY <1>1, ModelsAreNamed DEF Service!Rates!Usage

LEMMA RateNamed ==
    ASSUME NEW c, NEW q
    PROVE  Named(Service!Rates!Rate(c, q))
<1> DEFINE use == Service!Rates!Usage(c, q)
<1>1. Named(use)
  BY UsageNamed
<1> HIDE DEF use
<1>2. Named(Service!Rates!WithFlatFee(use, c.flatFee))
  BY <1>1, FailsAreNamed, SentinelsListed DEF Service!Rates!WithFlatFee, Named
<1> QED
  BY <1>2, FailsAreNamed, SentinelsListed DEF Service!Rates!Rate, use

LEMMA FractionNamed ==
    ASSUME NEW p, NEW from, NEW to
    PROVE  Named(Service!Periods!Fraction(p, from, to))
<1>1. \A n, d : Named(Service!Periods!Ratio(n, d))
  BY DEF Service!Periods!Ratio, Named
<1>2. \A why \in {"ErrBadPeriod", "ErrBadWindow", "ErrBadBasis"} : Named(Service!Periods!Fails(why))
  BY FailsAreNamed, SentinelsListed
<1> QED
  BY <1>1, <1>2 DEF Service!Periods!Fraction

LEMMA ProrateNamed ==
    ASSUME NEW amount, NEW mode, NEW n, NEW d
    PROVE  Named(Service!Periods!Prorate(amount, mode, n, d))
  BY FailsAreNamed, SentinelsListed DEF Service!Periods!Prorate, Named

LEMMA ChangeNamed ==
    ASSUME NEW p, NEW at
    PROVE  Named(Service!Periods!Change(p, at))
<1>1. \A why \in {"ErrNegativeAmount", "ErrOverflow"} : Named(Service!Periods!Fails(why))
  BY FailsAreNamed, SentinelsListed
<1>2. \A x, y, z : Named([ok |-> TRUE, credit |-> x, charge |-> y, net |-> z])
  BY DEF Named
<1> QED
  BY <1>1, <1>2, FractionNamed, ProrateNamed DEF Service!Periods!Change

-----------------------------------------------------------------------------
(***************************************************************************)
(* The library is one: each front end has an instance of its modules, and  *)
(* an operator means the same in both.  The provers see the twins only     *)
(* side by side, so each has a lemma, from the leaves up.                  *)
(***************************************************************************)
\* Rating.
LEMMA SameLanding ==
    ASSUME NEW c, NEW q
    PROVE  Service!Rates!Landing(c, q) = Page!Rates!Landing(c, q)
  BY Zenon DEF Service!Rates!Landing, Page!Rates!Landing

LEMMA SameTierError ==
    ASSUME NEW c, NEW q, NEW r
    PROVE  Service!Rates!TierError(c, q, r) = Page!Rates!TierError(c, q, r)
  BY Zenon
  DEF Service!Rates!ValidTiers, Page!Rates!ValidTiers, Service!Rates!TierError,
      Page!Rates!TierError, Service!Rates!Invalid, Page!Rates!Invalid, Service!Rates!Unpriced,
      Page!Rates!Unpriced, Service!Rates!Misplaced, Page!Rates!Misplaced,
      Service!Rates!ValidRate, Page!Rates!ValidRate, Service!Rates!Fails, Page!Rates!Fails

LEMMA SameValidTiers ==
    ASSUME NEW c, NEW q, NEW r
    PROVE  Service!Rates!ValidTiers(c, q, r) = Page!Rates!ValidTiers(c, q, r)
  BY Zenon
  DEF Service!Rates!ValidTiers, Page!Rates!ValidTiers, Service!Rates!TierError,
      Page!Rates!TierError, Service!Rates!Invalid, Page!Rates!Invalid, Service!Rates!Unpriced,
      Page!Rates!Unpriced, Service!Rates!Misplaced, Page!Rates!Misplaced,
      Service!Rates!ValidRate, Page!Rates!ValidRate, Service!Rates!Fails, Page!Rates!Fails

LEMMA SameBands ==
    ASSUME NEW c, NEW q
    PROVE  Service!Rates!Bands(c, q) = Page!Rates!Bands(c, q)
  BY Zenon
  DEF Service!Rates!Bands, Page!Rates!Bands, Service!Rates!UnitsIn, Page!Rates!UnitsIn,
      Service!Rates!ScaledAmount, Page!Rates!ScaledAmount, Service!Rates!Landing,
      Page!Rates!Landing, Service!Rates!FoldLeft, Page!Rates!FoldLeft,
      Service!Rates!MapThenFoldSet, Page!Rates!MapThenFoldSet, Service!Rates!Max, Page!Rates!Max

LEMMA SameWeights ==
    ASSUME NEW c
    PROVE  Service!Rates!CommonWeights(c) = Page!Rates!CommonWeights(c)
  BY Zenon
  DEF Service!Rates!CommonWeights, Page!Rates!CommonWeights, Service!Rates!FoldLeft,
      Page!Rates!FoldLeft, Service!Rates!MapThenFoldSet, Page!Rates!MapThenFoldSet,
      Service!Rates!Max, Page!Rates!Max

LEMMA SameApportion ==
    ASSUME NEW c, NEW q
    PROVE  Service!Rates!Apportion(c, q) = Page!Rates!Apportion(c, q)
  BY Zenon
  DEF Service!Rates!Apportion, Page!Rates!Apportion, Service!Rates!Remainders,
      Page!Rates!Remainders, Service!Rates!FloorShares, Page!Rates!FloorShares,
      Service!Rates!Precede, Page!Rates!Precede, Service!Rates!Effective, Page!Rates!Effective,
      Service!Rates!SumOf, Page!Rates!SumOf, Service!Rates!Abs, Page!Rates!Abs,
      Service!Rates!FoldLeft, Page!Rates!FoldLeft, Service!Rates!MapThenFoldSet,
      Page!Rates!MapThenFoldSet, Service!Rates!Max, Page!Rates!Max, Service!Rates!Cardinality,
      Page!Rates!Cardinality

LEMMA SameSum ==
    ASSUME NEW s
    PROVE  Service!Rates!FoldLeft(Service!Rates!RatPlus, Service!Rates!RatZero, s)
             = Page!Rates!FoldLeft(Page!Rates!RatPlus, Page!Rates!RatZero, s)
  BY Zenon
  DEF Service!Rates!RatPlus, Page!Rates!RatPlus, Service!Rates!RatZero, Page!Rates!RatZero,
      Service!Rates!FoldLeft, Page!Rates!FoldLeft, Service!Rates!MapThenFoldSet,
      Page!Rates!MapThenFoldSet, Service!Rates!Max, Page!Rates!Max

LEMMA SameRoundRat ==
    ASSUME NEW m, NEW x
    PROVE  Service!Rates!RoundRat(m, x) = Page!Rates!RoundRat(m, x)
  BY Zenon
  DEF Service!Rates!RoundRat, Page!Rates!RoundRat, Service!Rates!Round, Page!Rates!Round,
      Service!Rates!BreakTie, Page!Rates!BreakTie

LEMMA SameRoundedLine ==
    ASSUME NEW c, NEW q, NEW r
    PROVE  Service!Rates!RoundedLine(c, q, r) = Page!Rates!RoundedLine(c, q, r)
  BY Zenon
  DEF Service!Rates!RoundedLine, Page!Rates!RoundedLine, Service!Rates!ScaledAmount,
      Page!Rates!ScaledAmount, Service!Rates!RoundRat, Page!Rates!RoundRat, Service!Rates!Round,
      Page!Rates!Round, Service!Rates!BreakTie, Page!Rates!BreakTie, Service!Rates!OneLine,
      Page!Rates!OneLine, Service!Rates!Fails, Page!Rates!Fails, Service!Rates!IsInt64,
      Page!Rates!IsInt64, Service!Rates!MinInt, Page!Rates!MinInt

LEMMA SamePerUnit ==
    ASSUME NEW c, NEW q
    PROVE  Service!Rates!RatePerUnit(c, q) = Page!Rates!RatePerUnit(c, q)
  BY Zenon
  DEF Service!Rates!RatePerUnit, Page!Rates!RatePerUnit, Service!Rates!ValidRate,
      Page!Rates!ValidRate, Service!Rates!Fails, Page!Rates!Fails, Service!Rates!Nothing,
      Page!Rates!Nothing, Service!Rates!RoundedLine, Page!Rates!RoundedLine,
      Service!Rates!RoundRat, Page!Rates!RoundRat, Service!Rates!ScaledAmount,
      Page!Rates!ScaledAmount, Service!Rates!IsInt64, Page!Rates!IsInt64, Service!Rates!MinInt,
      Page!Rates!MinInt, Service!Rates!OneLine, Page!Rates!OneLine, Service!Rates!Round,
      Page!Rates!Round, Service!Rates!BreakTie, Page!Rates!BreakTie

LEMMA SameVolume ==
    ASSUME NEW c, NEW q
    PROVE  Service!Rates!RateVolume(c, q) = Page!Rates!RateVolume(c, q)
  BY Zenon, SameValidTiers, SameTierError, SameLanding, SameRoundedLine
  DEF Service!Rates!RateVolume, Page!Rates!RateVolume, Service!Rates!Nothing, Page!Rates!Nothing

LEMMA SamePackage ==
    ASSUME NEW c, NEW q
    PROVE  Service!Rates!RatePackage(c, q) = Page!Rates!RatePackage(c, q)
  BY Zenon
  DEF Service!Rates!RatePackage, Page!Rates!RatePackage, Service!Rates!Blocks,
      Page!Rates!Blocks, Service!Rates!Nothing, Page!Rates!Nothing, Service!Rates!OneLine,
      Page!Rates!OneLine, Service!Rates!Fails, Page!Rates!Fails, Service!Rates!IsInt64,
      Page!Rates!IsInt64, Service!Rates!MinInt, Page!Rates!MinInt

LEMMA SameStairstep ==
    ASSUME NEW c, NEW q
    PROVE  Service!Rates!RateStairstep(c, q) = Page!Rates!RateStairstep(c, q)
  BY Zenon, SameValidTiers, SameTierError, SameLanding
  DEF Service!Rates!RateStairstep, Page!Rates!RateStairstep, Service!Rates!OneLine,
      Page!Rates!OneLine, Service!Rates!Nothing, Page!Rates!Nothing

LEMMA SameGraduated ==
    ASSUME NEW c, NEW q
    PROVE  Service!Rates!RateGraduated(c, q) = Page!Rates!RateGraduated(c, q)
  BY Zenon, SameValidTiers, SameTierError, SameBands, SameSum, SameRoundRat, SameWeights,
     SameApportion
  DEF Service!Rates!RateGraduated, Page!Rates!RateGraduated, Service!Rates!Nothing,
      Page!Rates!Nothing, Service!Rates!Fails, Page!Rates!Fails, Service!Rates!IsInt64,
      Page!Rates!IsInt64, Service!Rates!MinInt, Page!Rates!MinInt

LEMMA SameWithFee ==
    ASSUME NEW c, NEW q
    PROVE  Service!Rates!WithFlatFee(c, q) = Page!Rates!WithFlatFee(c, q)
  BY Zenon
  DEF Service!Rates!WithFlatFee, Page!Rates!WithFlatFee, Service!Rates!Fails, Page!Rates!Fails,
      Service!Rates!IsInt64, Page!Rates!IsInt64, Service!Rates!MinInt, Page!Rates!MinInt

LEMMA SameUsage ==
    ASSUME NEW c, NEW q
    PROVE  Service!Rates!Usage(c, q) = Page!Rates!Usage(c, q)
  BY Zenon, SamePerUnit, SameVolume, SamePackage, SameStairstep, SameGraduated
  DEF Service!Rates!Usage, Page!Rates!Usage, Service!Rates!Chargeable, Page!Rates!Chargeable,
      Service!Rates!Fails, Page!Rates!Fails

LEMMA SameRate ==
    ASSUME NEW c, NEW q
    PROVE  Service!Rates!Rate(c, q) = Page!Rates!Rate(c, q)
  BY Zenon, SameUsage, SameWithFee
  DEF Service!Rates!Rate, Page!Rates!Rate, Service!Rates!Fails, Page!Rates!Fails,
      Service!Rates!Modes, Page!Rates!Modes

\* Periods.
LEMMA SameFraction ==
    ASSUME NEW p, NEW f, NEW t
    PROVE  Service!Periods!Fraction(p, f, t) = Page!Periods!Fraction(p, f, t)
  BY Zenon
  DEF Service!Periods!Fraction, Page!Periods!Fraction, Service!Periods!MaxTime,
      Page!Periods!MaxTime, Service!Periods!MinTime, Page!Periods!MinTime,
      Service!Periods!NanosBetween, Page!Periods!NanosBetween, Service!Periods!DaysBetween,
      Page!Periods!DaysBetween, Service!Periods!CivilDay, Page!Periods!CivilDay,
      Service!Periods!Ratio, Page!Periods!Ratio, Service!Periods!Fails, Page!Periods!Fails

LEMMA SameProrate ==
    ASSUME NEW a, NEW m, NEW n, NEW d
    PROVE  Service!Periods!Prorate(a, m, n, d) = Page!Periods!Prorate(a, m, n, d)
  BY Zenon
  DEF Service!Periods!Prorate, Page!Periods!Prorate, Service!Periods!Fails, Page!Periods!Fails,
      Service!Periods!IsInt64, Page!Periods!IsInt64, Service!Periods!MinInt,
      Page!Periods!MinInt, Service!Periods!Round, Page!Periods!Round, Service!Periods!BreakTie,
      Page!Periods!BreakTie, Service!Periods!Modes, Page!Periods!Modes

LEMMA SameChange ==
    ASSUME NEW p, NEW at
    PROVE  Service!Periods!Change(p, at) = Page!Periods!Change(p, at)
  BY Zenon, SameFraction, SameProrate
  DEF Service!Periods!Change, Page!Periods!Change, Service!Periods!Fails, Page!Periods!Fails,
      Service!Periods!IsInt64, Page!Periods!IsInt64, Service!Periods!MinInt, Page!Periods!MinInt

\* The calendar.
\* DateOf chooses a year and, in it, a month.
ServiceYear(day, years) ==
    CHOOSE y \in years : Service!Cycles!YearStart(y) <= day /\ day < Service!Cycles!YearStart(y + 1)
PageYear(day, years) ==
    CHOOSE y \in years : Page!Cycles!YearStart(y) <= day /\ day < Page!Cycles!YearStart(y + 1)

ServiceMonth(day, year) ==
    CHOOSE m \in 1 .. 12 :
      Service!Cycles!DayOf(year, m, 1) <= day /\ day < Service!Cycles!DayOf(year, m + 1, 1)
PageMonth(day, year) ==
    CHOOSE m \in 1 .. 12 :
      Page!Cycles!DayOf(year, m, 1) <= day /\ day < Page!Cycles!DayOf(year, m + 1, 1)

Near(day) == LET near == 1970 + (day * 400) \div 146097 IN near - 1 .. near + 1

LEMMA SameDayOf ==
    ASSUME NEW y, NEW m, NEW d
    PROVE  Service!Cycles!DayOf(y, m, d) = Page!Cycles!DayOf(y, m, d)
  BY ZenonT(60)
  DEF Service!Cycles!YearStart, Page!Cycles!YearStart, Service!Cycles!LeapsBefore,
      Page!Cycles!LeapsBefore, Service!Cycles!DayOf, Page!Cycles!DayOf, Service!Cycles!IsLeap,
      Page!Cycles!IsLeap, Service!Cycles!DaysBeforeMonth, Page!Cycles!DaysBeforeMonth

LEMMA SameYear ==
    ASSUME NEW day, NEW years
    PROVE  ServiceYear(day, years) = PageYear(day, years)
  BY ZenonT(60)
  DEF ServiceYear, PageYear, Service!Cycles!YearStart, Page!Cycles!YearStart,
      Service!Cycles!LeapsBefore, Page!Cycles!LeapsBefore

LEMMA SameMonth ==
    ASSUME NEW day, NEW year
    PROVE  ServiceMonth(day, year) = PageMonth(day, year)
  BY ZenonT(200)
  DEF Service!Cycles!YearStart, Page!Cycles!YearStart, Service!Cycles!LeapsBefore,
      Page!Cycles!LeapsBefore, Service!Cycles!DayOf, Page!Cycles!DayOf, Service!Cycles!IsLeap,
      Page!Cycles!IsLeap, Service!Cycles!DaysBeforeMonth, Page!Cycles!DaysBeforeMonth,
      ServiceMonth, PageMonth

LEMMA DatesChosen ==
    ASSUME NEW day
    PROVE  /\ Service!Cycles!DateOf(day)
                = LET year  == ServiceYear(day, Near(day))
                      month == ServiceMonth(day, year)
                  IN  [year |-> year, month |-> month,
                       day |-> day - Service!Cycles!DayOf(year, month, 1) + 1]
           /\ Page!Cycles!DateOf(day)
                = LET year  == PageYear(day, Near(day))
                      month == PageMonth(day, year)
                  IN  [year |-> year, month |-> month,
                       day |-> day - Page!Cycles!DayOf(year, month, 1) + 1]
  BY DEF Service!Cycles!DateOf, ServiceYear, ServiceMonth, Page!Cycles!DateOf, PageYear, PageMonth,
         Near

LEMMA SameDateOf ==
    ASSUME NEW day
    PROVE  Service!Cycles!DateOf(day) = Page!Cycles!DateOf(day)
  BY SameDayOf, SameYear, SameMonth, DatesChosen

LEMMA SameDate ==
    ASSUME NEW z, NEW t
    PROVE  Service!Cycles!Date(z, t) = Page!Cycles!Date(z, t)
  BY Zenon, SameDateOf
  DEF Service!Cycles!Offset, Page!Cycles!Offset, Service!Cycles!Local, Page!Cycles!Local,
      Service!Cycles!Date, Page!Cycles!Date

LEMMA SameInstant ==
    ASSUME NEW z, NEW d, NEW c
    PROVE  Service!Cycles!Instant(z, d, c) = Page!Cycles!Instant(z, d, c)
  BY Zenon
  DEF Service!Cycles!Offset, Page!Cycles!Offset, Service!Cycles!Instant, Page!Cycles!Instant,
      Service!Cycles!Cardinality, Page!Cycles!Cardinality

LEMMA SameDaysInMonth ==
    ASSUME NEW y, NEW m
    PROVE  Service!Cycles!DaysInMonth(y, m) = Page!Cycles!DaysInMonth(y, m)
  BY Zenon, SameDayOf, SameDateOf DEF Service!Cycles!DaysInMonth, Page!Cycles!DaysInMonth

LEMMA SameFloorDiv ==
    ASSUME NEW a, NEW b
    PROVE  /\ Service!Cycles!FloorDiv(a, b) = Page!Cycles!FloorDiv(a, b)
           /\ Service!Cycles!FloorMod(a, b) = Page!Cycles!FloorMod(a, b)
  BY Zenon
  DEF Service!Cycles!GoDiv, Page!Cycles!GoDiv, Service!Cycles!GoRem, Page!Cycles!GoRem,
      Service!Cycles!FloorDiv, Page!Cycles!FloorDiv, Service!Cycles!FloorMod,
      Page!Cycles!FloorMod

LEMMA SameClock ==
    ASSUME NEW a, NEW b
    PROVE  Service!Cycles!Clock(a, b) = Page!Cycles!Clock(a, b)
  BY Zenon
  DEF Service!Cycles!Clock, Page!Cycles!Clock, Service!Cycles!Local, Page!Cycles!Local,
      Service!Cycles!Offset, Page!Cycles!Offset

LEMMA SameAddCycles ==
    ASSUME NEW a, NEW z, NEW k, NEW u
    PROVE  Service!Cycles!AddCycles(a, z, k, u) = Page!Cycles!AddCycles(a, z, k, u)
  BY Zenon, SameDate, SameDaysInMonth, SameInstant, SameDayOf, SameFloorDiv, SameClock
  DEF Service!Cycles!AddCycles, Page!Cycles!AddCycles

LEMMA SameEstimate ==
    ASSUME NEW a, NEW z, NEW k, NEW u
    PROVE  Service!Cycles!EstimateSteps(a, z, k, u) = Page!Cycles!EstimateSteps(a, z, k, u)
  BY Zenon, SameDate DEF Service!Cycles!EstimateSteps, Page!Cycles!EstimateSteps

LEMMA SameStepAfter ==
    ASSUME NEW a, NEW z, NEW f, NEW u
    PROVE  Service!Cycles!StepAfter(a, z, f, u) = Page!Cycles!StepAfter(a, z, f, u)
  BY SameEstimate, SameAddCycles DEF Service!Cycles!StepAfter, Page!Cycles!StepAfter

LEMMA SameNext ==
    ASSUME NEW a, NEW z, NEW f, NEW u
    PROVE  Service!Cycles!NextBoundary(a, z, f, u) = Page!Cycles!NextBoundary(a, z, f, u)
  BY Zenon, SameStepAfter, SameAddCycles
  DEF Service!Cycles!NextBoundary, Page!Cycles!NextBoundary

LEMMA SameCalendarNext ==
    ASSUME NEW z, NEW f, NEW u
    PROVE  Service!Cycles!NextCalendarBoundary(z, f, u) = Page!Cycles!NextCalendarBoundary(z, f, u)
  BY Zenon, SameDate, SameInstant, SameNext, SameDayOf
  DEF Service!Cycles!NextCalendarBoundary, Page!Cycles!NextCalendarBoundary,
      Service!Cycles!Local, Page!Cycles!Local, Service!Cycles!Offset, Page!Cycles!Offset

-----------------------------------------------------------------------------
(***************************************************************************)
(* A call whose parts pair: its answers agree, and each has a code.        *)
(***************************************************************************)
DatedIn(q) == \E f \in DOMAIN q : f \in {"start", "end", "at", "from", "to", "anchor"}
                                  /\ q[f].form = "date"

\* A call read by both, part by part: the page's parts and what it comes to, and
\* tariffd's.
Paired(q, n, ps, pl, ss, sl) ==
    /\ n \in Nat \ {0} /\ DOMAIN ps = 1 .. n /\ DOMAIN ss = 1 .. n
    /\ ps[1] = Page!Unmarshal(q.body) /\ ss[1] = Service!DecodeBody(q.body)
    /\ \A k \in 2 .. n : /\ ~ps[k].ok => ps[k].answer.code = "invalid_argument"
                         /\ ~ss[k].ok => Rejects(ss[k])
                         /\ (\A j \in 1 .. k - 1 : ss[j].ok) =>
                              \/ RefusedAlike(ps[k], ss[k])
                              \/ DatedIn(q) /\ Rejects(ss[k])
    /\ pl.code # "error" /\ sl.status # 500
    /\ (\A k \in 1 .. n : ps[k].ok /\ ss[k].ok) =>
         /\ pl.code = sl.code /\ pl.field = sl.field
         /\ pl.code = "ok" => Tells(pl.value, sl.value)

\* The answers p and s to a call agree as AnswersAgree has it.
AgreeOn(q, p, s) ==
    /\ p.code = "ok" /\ s.code = "ok" => Tells(p.value, s.value)
    /\ \/ p.code = s.code /\ p.field = s.field
       \/ DatedIn(q) /\ s.code = "invalid_argument"
       \/ q.body # "good" /\ (s.code = "ok" => q.body = "closed_twice")

LEMMA BodiesRead ==
    ASSUME NEW body \in Bodies
    PROVE  /\ body = "good" => Page!Unmarshal(body).ok /\ Service!DecodeBody(body).ok
           /\ ~Page!Unmarshal(body).ok <=> body \in {"malformed", "second_value", "closed_twice"}
           /\ ~Page!Unmarshal(body).ok => Page!Unmarshal(body).answer.code = "error"
           /\ body \notin {"good", "closed_twice"} => ~Service!DecodeBody(body).ok
           /\ ~Service!DecodeBody(body).ok =>
                /\ Service!DecodeBody(body).answer.code \in {"invalid_body", "body_too_large"}
                /\ Service!DecodeBody(body).answer.status \in {400, 413}
<1>1. /\ body \in {"malformed", "second_value", "closed_twice"} =>
           /\ ~Page!Unmarshal(body).ok
           /\ Page!Unmarshal(body).answer.code = "error"
      /\ body \notin {"malformed", "second_value", "closed_twice"} => Page!Unmarshal(body).ok
  BY DEF Page!Unmarshal, Page!Parsed, Page!Refused, Page!ErrObj
<1>2. /\ body \in {"oversized", "malformed", "unknown_field", "second_value"} =>
           /\ ~Service!DecodeBody(body).ok
           /\ Service!DecodeBody(body).answer.code \in {"invalid_body", "body_too_large"}
           /\ Service!DecodeBody(body).answer.status \in {400, 413}
      /\ body \in {"good", "closed_twice"} => Service!DecodeBody(body).ok
  BY DEF Service!DecodeBody, Service!Parsed, Service!Refused, Service!Refusal
<1> QED
  BY <1>1, <1>2 DEF Bodies

LEMMA PairedAgree ==
    ASSUME NEW q, q.body \in Bodies, NEW n, NEW ps, NEW pl, NEW ss, NEW sl,
           Paired(q, n, ps, pl, ss, sl)
    PROVE  AgreeOn(q, Page!Concluded(ps, pl), Service!Concluded(ss, sl))
<1> DEFINE p == Page!Concluded(ps, pl)
           s == Service!Concluded(ss, sl)
<1>1. /\ n \in Nat \ {0} /\ DOMAIN ps = 1 .. n /\ DOMAIN ss = 1 .. n /\ 1 \in 1 .. n
      /\ ps[1] = Page!Unmarshal(q.body) /\ ss[1] = Service!DecodeBody(q.body)
  BY DEF Paired
<1>2. s = Page!Concluded(ss, sl)
  BY OneConclusion
<1>3. ~ss[1].ok => s = ss[1].answer
  BY <1>1, <1>2, FirstRefusal
<1>4. ~ps[1].ok => p = ps[1].answer
  BY <1>1, FirstRefusal
<1>5. CASE q.body # "good"
  <2>1. s.code = "ok" => q.body = "closed_twice"
    BY <1>1, <1>3, <1>5, BodiesRead
  <2>2. q.body = "closed_twice" => p.code = "error"
    BY <1>1, <1>4, BodiesRead
  <2> QED
    BY <1>5, <2>1, <2>2 DEF AgreeOn
<1>6. CASE q.body = "good"
  <2>1. ps[1].ok /\ ss[1].ok
    BY <1>1, <1>6, BodiesRead
  <2>2. CASE \A k \in 1 .. n : ss[k].ok
    <3>1. \A k \in 1 .. n : ps[k].ok
      <4> SUFFICES ASSUME NEW k \in 2 .. n PROVE ps[k].ok
        BY <1>1, <2>1
      <4>1. RefusedAlike(ps[k], ss[k]) \/ Rejects(ss[k])
        BY <2>2 DEF Paired
      <4>2. ss[k].ok
        BY <2>2
      <4> QED
        BY <4>1, <4>2 DEF RefusedAlike, Rejects
    <3>2. p = pl /\ s = sl
      BY <1>1, <1>2, <2>2, <3>1, AllUnderstood
    <3> QED
      BY <2>2, <3>1, <3>2 DEF Paired, AgreeOn
  <2>3. CASE \E k \in 1 .. n : ~ss[k].ok
    <3>1. PICK k \in 1 .. n : ~ss[k].ok /\ \A j \in 1 .. k - 1 : ss[j].ok
      BY <1>1, <2>3, SomeFirstRefusal
    <3>2. k \in 2 .. n
      BY <1>1, <2>1, <3>1
    <3>3. s = ss[k].answer
      BY <1>1, <1>2, <3>1, FirstRefusal
    <3>4. Rejects(ss[k])
      BY <3>1, <3>2 DEF Paired
    <3>5. \A j \in 1 .. k - 1 : ps[j].ok
      <4> SUFFICES ASSUME NEW j \in 2 .. k - 1 PROVE ps[j].ok
        BY <2>1, <3>2
      <4>1. j \in 2 .. n /\ \A i \in 1 .. j - 1 : i \in 1 .. k - 1
        BY <1>1, <3>2
      <4>2. RefusedAlike(ps[j], ss[j]) \/ Rejects(ss[j])
        BY <3>1, <4>1 DEF Paired
      <4>3. ss[j].ok
        BY <3>1
      <4> QED
        BY <4>2, <4>3 DEF RefusedAlike, Rejects
    <3>6. CASE DatedIn(q)
      BY <3>3, <3>4, <3>6 DEF Rejects, AgreeOn
    <3>7. CASE RefusedAlike(ps[k], ss[k])
      <4>1. p = ps[k].answer
        BY <1>1, <3>1, <3>5, <3>7, FirstRefusal DEF RefusedAlike
      <4> QED
        BY <3>1, <3>3, <3>4, <3>7, <4>1 DEF RefusedAlike, Rejects, AgreeOn
    <3> QED
      BY <3>1, <3>2, <3>6, <3>7 DEF Paired
  <2> QED
    BY <2>2, <2>3
<1> QED
  BY <1>5, <1>6

LEMMA PairedNamed ==
    ASSUME NEW q, q.body \in Bodies, NEW n, NEW ps, NEW pl, NEW ss, NEW sl,
           Paired(q, n, ps, pl, ss, sl)
    PROVE  /\ Service!Concluded(ss, sl).status # 500
           /\ Page!Concluded(ps, pl).code = "error" =>
                q.body \in {"malformed", "second_value", "closed_twice"}
<1>1. /\ n \in Nat \ {0} /\ DOMAIN ps = 1 .. n /\ DOMAIN ss = 1 .. n /\ 1 \in 1 .. n
      /\ ps[1] = Page!Unmarshal(q.body) /\ ss[1] = Service!DecodeBody(q.body)
      /\ pl.code # "error" /\ sl.status # 500
  BY DEF Paired
<1>2. Service!Concluded(ss, sl).status # 500
  <2>1. CASE \A k \in 1 .. n : ss[k].ok
    BY <1>1, <2>1, OneConclusion, AllUnderstood
  <2>2. CASE \E k \in 1 .. n : ~ss[k].ok
    <3>1. PICK k \in 1 .. n : ~ss[k].ok /\ \A j \in 1 .. k - 1 : ss[j].ok
      BY <1>1, <2>2, SomeFirstRefusal
    <3>2. Service!Concluded(ss, sl) = ss[k].answer
      BY <1>1, <3>1, OneConclusion, FirstRefusal
    <3>3. ss[k].answer.status \in {400, 413}
      <4>1. CASE k = 1
        BY <1>1, <3>1, <4>1, BodiesRead
      <4>2. CASE k \in 2 .. n
        BY <3>1, <4>2 DEF Paired, Rejects
      <4> QED
        BY <1>1, <4>1, <4>2
    <3> QED
      BY <3>2, <3>3
  <2> QED
    BY <2>1, <2>2
<1>3. Page!Concluded(ps, pl).code = "error" =>
        q.body \in {"malformed", "second_value", "closed_twice"}
  <2>1. CASE \A k \in 1 .. n : ps[k].ok
    BY <1>1, <2>1, AllUnderstood
  <2>2. CASE \E k \in 1 .. n : ~ps[k].ok
    <3>1. PICK k \in 1 .. n : ~ps[k].ok /\ \A j \in 1 .. k - 1 : ps[j].ok
      BY <1>1, <2>2, SomeFirstRefusal
    <3>2. Page!Concluded(ps, pl) = ps[k].answer
      BY <1>1, <3>1, FirstRefusal
    <3>3. CASE k = 1
      BY <1>1, <3>1, <3>3, BodiesRead
    <3>4. CASE k \in 2 .. n
      <4>1. ps[k].answer.code = "invalid_argument"
        BY <3>1, <3>4 DEF Paired
      <4> QED
        BY <3>2, <4>1
    <3> QED
      BY <1>1, <3>3, <3>4
  <2> QED
    BY <2>1, <2>2
<1> QED
  BY <1>2, <1>3

-----------------------------------------------------------------------------
(***************************************************************************)
(* The endpoints: the parts of each pair, and what it comes to is told     *)
(* alike.                                                                  *)
(***************************************************************************)
LEMMA ToldAlike ==
    ASSUME NEW outcome, Named(outcome), NEW pv, NEW sv
    PROVE  /\ Page!Told(outcome, pv).code # "error"
           /\ Service!Told(outcome, sv).status # 500
           /\ Page!Told(outcome, pv).code = Service!Told(outcome, sv).code
           /\ Page!Told(outcome, pv).field = Service!Told(outcome, sv).field
           /\ Page!Told(outcome, pv).code = "ok" =>
                /\ outcome.ok
                /\ Page!Told(outcome, pv).value = pv
                /\ Service!Told(outcome, sv).value = sv
<1>1. CASE outcome.ok
  BY <1>1 DEF Page!Told, Service!Told, Page!Answer, Service!Answer
<1>2. CASE ~outcome.ok
  <2>1. outcome.why \in DOMAIN Service!ErrorTable
    BY <1>2 DEF Named
  <2>2. /\ Page!ErrCode(outcome.why) = Service!ErrorTable[outcome.why]
        /\ Service!ErrorTable[outcome.why] \notin {"error", "ok"}
    BY <2>1, CodesAreTheTable
  <2>3. /\ Page!Told(outcome, pv).code = Page!ErrCode(outcome.why)
        /\ Page!Told(outcome, pv).field = "none"
    BY <1>2 DEF Page!Told, Page!ErrObj
  <2>4. /\ Service!Told(outcome, sv).code = Service!ErrorTable[outcome.why]
        /\ Service!Told(outcome, sv).status = 400
        /\ Service!Told(outcome, sv).field = "none"
    BY <1>2, <2>1 DEF Service!Told, Service!MapError, Service!Refusal
  <2> QED
    BY <2>2, <2>3, <2>4
<1> QED
  BY <1>1, <1>2

\* The call q read by both front ends.
Compared(q) ==
    \E n, ps, pl, ss, sl : /\ Paired(q, n, ps, pl, ss, sl)
                           /\ Page!Handle(q) = Page!Concluded(ps, pl)
                           /\ Service!Handle(q) = Service!Concluded(ss, sl)

\* A part of the call q that both read, but that tariffd takes no date for a time.
Read(q, p, s) ==
    /\ ~p.ok => p.answer.code = "invalid_argument"
    /\ ~s.ok => Rejects(s)
    /\ \/ Akin(p, s)
       \/ DatedIn(q) /\ Rejects(s)

LEMMA AkinIsRead ==
    ASSUME NEW q, NEW p, NEW s, Akin(p, s)
    PROVE  Read(q, p, s)
  BY DEF Read, Akin, RefusedAlike, Rejects

LEMMA TimesRead ==
    ASSUME NEW q, NEW f \in DOMAIN q \cap {"start", "end", "at", "from", "to", "anchor"}, NEW field
    PROVE  Read(q, Page!ParseTime(field, q[f]), Service!ParseTime(field, q[f]))
<1>1. CASE q[f].form # "date"
  BY <1>1, TimesAkin, AkinIsRead
<1>2. CASE q[f].form = "date"
  <2>1. DatedIn(q)
    BY <1>2 DEF DatedIn
  <2> QED
    BY <1>2, <2>1, TimesAkin DEF Read, Rejects
<1> QED
  BY <1>1, <1>2

LEMMA ReadValues ==
    ASSUME NEW q, NEW p, NEW s, Read(q, p, s), s.ok
    PROVE  p.value = s.value
  BY DEF Read, Akin, Rejects

\* Parts that are all read make a pair, when what the call comes to is told alike.
LEMMA ReadsPair ==
    ASSUME NEW q, NEW n \in Nat \ {0}, NEW ps, NEW ss, DOMAIN ps = 1 .. n, DOMAIN ss = 1 .. n,
           ps[1] = Page!Unmarshal(q.body), ss[1] = Service!DecodeBody(q.body),
           \A k \in 2 .. n : Read(q, ps[k], ss[k]),
           NEW po, NEW so, NEW pv, NEW sv, Named(po), Named(so),
           (\A k \in 1 .. n : ps[k].ok /\ ss[k].ok) =>
             po = so /\ Tells(pv, sv)
    PROVE  Paired(q, n, ps, Page!Told(po, pv), ss, Service!Told(so, sv))
<1> DEFINE pl == Page!Told(po, pv)
           sl == Service!Told(so, sv)
<1>1. \A k \in 2 .. n : /\ ~ps[k].ok => ps[k].answer.code = "invalid_argument"
                        /\ ~ss[k].ok => Rejects(ss[k])
                        /\ RefusedAlike(ps[k], ss[k]) \/ (DatedIn(q) /\ Rejects(ss[k]))
  BY DEF Read, Akin
<1>2. pl.code # "error" /\ sl.status # 500
  BY ToldAlike
<1>3. ASSUME \A k \in 1 .. n : ps[k].ok /\ ss[k].ok
      PROVE  /\ pl.code = sl.code /\ pl.field = sl.field
             /\ pl.code = "ok" => Tells(pl.value, sl.value)
  BY <1>3, ToldAlike
<1>4. Paired(q, n, ps, pl, ss, sl)
  <2> HIDE DEF pl, sl
  <2> QED
    BY <1>1, <1>2, <1>3 DEF Paired
<1> QED
  BY <1>4

\* What is told of an amount and of the lines of a rating.
LEMMA OneFormat == \A m : Page!Format(m, Scale) = Service!Format(m, Scale)
  BY Zenon DEF Page!Format, Service!Format, Page!Quo, Service!Quo, Page!Mod, Service!Mod,
               Page!Wrap, Service!Wrap, Page!MinInt, Service!MinInt

LEMMA NumbersAlike == \A m : SameNumber(Page!Number(m), m)
  BY DEF SameNumber, Page!Number

LEMMA AmountsAlike == \A m : SameAmount(Page!Amount(m), Service!Amount(m))
  BY OneFormat, NumbersAlike DEF SameAmount, Page!Amount, Service!Amount

LEMMA LinesAlike ==
    ASSUME NEW lines
    PROVE  SameLines([k \in DOMAIN lines |-> Page!ToLineDTO(lines[k])],
                     Service!ToLineDTOs(lines))
<1>1. PICK told : told = Service!ToLineDTOs(lines)
  OBVIOUS
<1>2. PICK seen : seen = [k \in DOMAIN lines |-> Page!ToLineDTO(lines[k])]
  OBVIOUS
<1>3. DOMAIN seen = DOMAIN lines /\ DOMAIN told = DOMAIN lines
  BY <1>1, <1>2 DEF Service!ToLineDTOs
<1>4. ASSUME NEW k \in DOMAIN lines
      PROVE  /\ SameNumber(seen[k].units, told[k].units)
             /\ SameAmount(seen[k].subtotal, told[k].subtotal)
  <2>1. /\ told[k].units = lines[k].units
        /\ told[k].subtotal = Service!Amount(lines[k].subtotal)
    BY <1>1 DEF Service!ToLineDTOs
  <2>2. /\ seen[k].units = Page!Number(lines[k].units)
        /\ seen[k].subtotal = Page!Amount(lines[k].subtotal)
    BY <1>2 DEF Page!ToLineDTO
  <2> QED
    BY <2>1, <2>2, NumbersAlike, AmountsAlike
<1> QED
  BY <1>1, <1>2, <1>3, <1>4 DEF SameLines

LEMMA RateCompared ==
    ASSUME NEW q, IsCall(q), q.endpoint = "rate"
    PROVE  Compared(q)
<1> DEFINE pc == Page!ToCharge(q)
           sc == Service!ToCharge(q)
           ps == <<Page!Unmarshal(q.body), pc>>
           ss == <<Service!DecodeBody(q.body), sc>>
           po == Page!Rates!Rate(pc.value, q.quantity)
           so == Service!Rates!Rate(sc.value, q.quantity)
           pv == [total |-> Page!Amount(po.total),
                  lines |-> [k \in DOMAIN po.lines |-> Page!ToLineDTO(po.lines[k])]]
           sv == [total |-> Service!Amount(so.total), lines |-> Service!ToLineDTOs(so.lines)]
<1>1. Page!Handle(q) = Page!Concluded(ps, Page!Told(po, pv))
  BY Zenon DEF Page!Handle, Page!HandleRate
<1>2. Service!Handle(q) = Service!Concluded(ss, Service!Told(so, sv))
  BY Zenon DEF Service!Handle, Service!HandleRate
<1>3. Akin(pc, sc)
  BY ChargesAkin DEF IsCall
<1>4. Named(po) /\ Named(so)
  <2> HIDE DEF pc, sc
  <2> QED
    BY RateNamed, SameRate
<1>5. ASSUME sc.ok PROVE po = so
  <2> HIDE DEF pc, sc
  <2> QED
    BY <1>3, <1>5, SameRate DEF Akin
<1>6. ASSUME po = so PROVE Tells(pv, sv)
  <2> HIDE DEF po, so
  <2> QED
    BY <1>6, AmountsAlike, LinesAlike DEF Tells
<1>7. /\ DOMAIN ps = 1 .. 2 /\ DOMAIN ss = 1 .. 2
      /\ ps[1] = Page!Unmarshal(q.body) /\ ss[1] = Service!DecodeBody(q.body)
      /\ ps[2] = pc /\ ss[2] = sc
  OBVIOUS
<1> HIDE DEF pc, sc, ps, ss, po, so, pv, sv
<1>8. Paired(q, 2, ps, Page!Told(po, pv), ss, Service!Told(so, sv))
  <2>1. \A k \in 2 .. 2 : Read(q, ps[k], ss[k])
    BY <1>3, <1>7, AkinIsRead
  <2>2. (\A k \in 1 .. 2 : ps[k].ok /\ ss[k].ok) => po = so /\ Tells(pv, sv)
    BY <1>5, <1>6, <1>7
  <2>3. 2 \in Nat \ {0}
    OBVIOUS
  <2> QED
    BY <1>4, <1>7, <2>1, <2>2, <2>3, ReadsPair, Zenon
<1> QED
  BY <1>1, <1>2, <1>8 DEF Compared

LEMMA OneCanonical ==
    ASSUME NEW ratio PROVE Service!Canonical(ratio) = Page!Canonical(ratio)
  BY Zenon DEF Service!Canonical, Page!Canonical

LEMMA FractionCompared ==
    ASSUME NEW q, IsCall(q), q.endpoint = "fraction"
    PROVE  Compared(q)
<1> DEFINE pt(g, t) == Page!ParseTime(g, t)
           st(g, t) == Service!ParseTime(g, t)
           ps == <<Page!Unmarshal(q.body), Page!ToPeriod(q)[1], Page!ToPeriod(q)[2],
                   pt("from", q.from), pt("to", q.to), Page!ParseBasis(q.basis)>>
           ss == <<Service!DecodeBody(q.body), Service!ToPeriod(q)[1], Service!ToPeriod(q)[2],
                   st("from", q.from), st("to", q.to), Service!ParseBasis(q.basis)>>
           po == Page!Periods!Fraction(Page!Measured(q), pt("from", q.from).value.at,
                                       pt("to", q.to).value.at)
           so == Service!Periods!Fraction(Service!PeriodOf(q), st("from", q.from).value.at,
                                          st("to", q.to).value.at)
           pv == [fraction |-> Page!Canonical(po)]
           sv == [fraction |-> Service!Canonical(so)]
<1>1. {"start", "end", "from", "to"} \subseteq DOMAIN q
  BY DEF IsCall, TimesOf
<1>2. Page!Handle(q) = Page!Concluded(ps, Page!Told(po, pv))
  BY DEF Page!Handle, Page!HandleFraction
<1>3. Service!Handle(q) = Service!Concluded(ss, Service!Told(so, sv))
  BY DEF Service!Handle, Service!HandleFraction
<1>4. ps = <<Page!Unmarshal(q.body), pt("period.start", q.start), pt("period.end", q.end),
             pt("from", q.from), pt("to", q.to), Page!ParseBasis(q.basis)>>
  BY DEF Page!ToPeriod
<1>5. ss = <<Service!DecodeBody(q.body), st("period.start", q.start), st("period.end", q.end),
             st("from", q.from), st("to", q.to), Service!ParseBasis(q.basis)>>
  BY DEF Service!ToPeriod
<1>6. /\ Read(q, pt("period.start", q.start), st("period.start", q.start))
      /\ Read(q, pt("period.end", q.end), st("period.end", q.end))
      /\ Read(q, pt("from", q.from), st("from", q.from))
      /\ Read(q, pt("to", q.to), st("to", q.to))
      /\ Read(q, Page!ParseBasis(q.basis), Service!ParseBasis(q.basis))
  BY <1>1, TimesRead, WordsAkin, AkinIsRead
<1>7. DOMAIN ps = 1 .. 6 /\ DOMAIN ss = 1 .. 6 /\ \A k \in 2 .. 6 : Read(q, ps[k], ss[k])
  <2> HIDE DEF ps, ss, pt, st
  <2> QED
    BY <1>4, <1>5, <1>6
<1>8. ASSUME \A k \in 1 .. 6 : ps[k].ok /\ ss[k].ok
      PROVE  po = so /\ Tells(pv, sv)
  <2>1. /\ pt("period.start", q.start).value = st("period.start", q.start).value
        /\ pt("period.end", q.end).value = st("period.end", q.end).value
        /\ pt("from", q.from).value = st("from", q.from).value
        /\ pt("to", q.to).value = st("to", q.to).value
        /\ Page!ParseBasis(q.basis).value = Service!ParseBasis(q.basis).value
    <3> HIDE DEF ps, ss, pt, st
    <3> QED
      BY <1>5, <1>6, <1>8, ReadValues
  <2>2. Page!Measured(q) = Service!PeriodOf(q)
    BY <2>1 DEF Page!Measured, Page!ToPeriod, Service!PeriodOf, Page!ZoneOf, Service!ZoneOf
  <2>3. po = so
    BY <2>1, <2>2, SameFraction
  <2> HIDE DEF po, so
  <2> QED
    BY <2>3, OneCanonical DEF Tells
<1>9. Named(so) /\ Named(po)
  BY FractionNamed, SameFraction
<1> HIDE DEF ps, ss, po, so, pv, sv
<1>10. Paired(q, 6, ps, Page!Told(po, pv), ss, Service!Told(so, sv))
  <2>1. ps[1] = Page!Unmarshal(q.body) /\ ss[1] = Service!DecodeBody(q.body)
    BY <1>4, <1>5
  <2>2. 6 \in Nat \ {0}
    OBVIOUS
  <2> QED
    BY <1>7, <1>8, <1>9, <2>1, <2>2, ReadsPair, Zenon
<1> QED
  BY <1>2, <1>3, <1>10 DEF Compared

LEMMA OnePlan ==
    ASSUME NEW q, Page!Measured(q) = Service!PeriodOf(q),
           Page!ToCurrency(q.currency).value = Service!ToCurrency(q.currency).value
    PROVE  Service!Plan(q) = [start |-> Page!Measured(q).start, end |-> Page!Measured(q).end,
                              zone |-> Page!Measured(q).zone, basis |-> Page!Measured(q).basis,
                              mode |-> Page!ToCurrency(q.currency).value,
                              old |-> q.old, new |-> q.new]
  BY DEF Service!Plan

LEMMA ProrationCompared ==
    ASSUME NEW q, IsCall(q), q.endpoint = "proration"
    PROVE  Compared(q)
<1> DEFINE pt(g, t) == Page!ParseTime(g, t)
           st(g, t) == Service!ParseTime(g, t)
           pc == Page!ToCurrency(q.currency)
           sc == Service!ToCurrency(q.currency)
           ps == <<Page!Unmarshal(q.body), pc, Page!ToPeriod(q)[1], Page!ToPeriod(q)[2],
                   pt("at", q.at), Page!ParseBasis(q.basis)>>
           ss == <<Service!DecodeBody(q.body), sc, Service!ToPeriod(q)[1], Service!ToPeriod(q)[2],
                   st("at", q.at), Service!ParseBasis(q.basis)>>
           period == Page!Measured(q)
           plan == [start |-> period.start, end |-> period.end, zone |-> period.zone,
                    basis |-> period.basis, mode |-> pc.value, old |-> q.old, new |-> q.new]
           po == Page!Periods!Change(plan, pt("at", q.at).value.at)
           so == Service!Periods!Change(Service!Plan(q), st("at", q.at).value.at)
           echo == Page!Canonical(Page!Periods!Fraction(period, pt("at", q.at).value.at,
                                                        period.end))
           pv == [credit |-> Page!Amount(po.credit), charge |-> Page!Amount(po.charge),
                  net |-> Page!Amount(po.net), fraction |-> echo]
           sv == [credit |-> Service!Amount(so.credit), charge |-> Service!Amount(so.charge),
                  net |-> Service!Amount(so.net)]
<1>1. {"start", "end", "at"} \subseteq DOMAIN q
  BY DEF IsCall, TimesOf
<1>2. Page!Handle(q) = Page!Concluded(ps, Page!Told(po, pv))
  BY DEF Page!Handle, Page!HandleProration
<1>3. Service!Handle(q) = Service!Concluded(ss, Service!Told(so, sv))
  BY DEF Service!Handle, Service!HandleProration
<1>4. ps = <<Page!Unmarshal(q.body), pc, pt("period.start", q.start), pt("period.end", q.end),
             pt("at", q.at), Page!ParseBasis(q.basis)>>
  BY DEF Page!ToPeriod
<1>5. ss = <<Service!DecodeBody(q.body), sc, st("period.start", q.start),
             st("period.end", q.end), st("at", q.at), Service!ParseBasis(q.basis)>>
  BY DEF Service!ToPeriod
<1>6. /\ Read(q, pc, sc)
      /\ Read(q, pt("period.start", q.start), st("period.start", q.start))
      /\ Read(q, pt("period.end", q.end), st("period.end", q.end))
      /\ Read(q, pt("at", q.at), st("at", q.at))
      /\ Read(q, Page!ParseBasis(q.basis), Service!ParseBasis(q.basis))
  BY <1>1, TimesRead, WordsAkin, CurrenciesAkin, AkinIsRead
<1>7. DOMAIN ps = 1 .. 6 /\ DOMAIN ss = 1 .. 6 /\ \A k \in 2 .. 6 : Read(q, ps[k], ss[k])
  <2> HIDE DEF ps, ss, pt, st, pc, sc
  <2> QED
    BY <1>4, <1>5, <1>6
<1>8. ASSUME \A k \in 1 .. 6 : ps[k].ok /\ ss[k].ok
      PROVE  po = so /\ Tells(pv, sv)
  <2>1. /\ pc.value = sc.value
        /\ pt("period.start", q.start).value = st("period.start", q.start).value
        /\ pt("period.end", q.end).value = st("period.end", q.end).value
        /\ pt("at", q.at).value = st("at", q.at).value
        /\ Page!ParseBasis(q.basis).value = Service!ParseBasis(q.basis).value
    <3> HIDE DEF ps, ss, pt, st, pc, sc
    <3> QED
      BY <1>5, <1>6, <1>8, ReadValues
  <2>2. period = Service!PeriodOf(q)
    BY <2>1 DEF Page!Measured, Page!ToPeriod, Service!PeriodOf, Page!ZoneOf, Service!ZoneOf
  <2>3. plan = Service!Plan(q)
    BY <2>1, <2>2, OnePlan
  <2>4. po = so
    <3> HIDE DEF plan
    <3> QED
      BY <2>1, <2>3, SameChange
  <2> HIDE DEF po, so, echo
  <2> QED
    BY <2>4, AmountsAlike DEF Tells
<1>9. Named(so) /\ Named(po)
  <2> HIDE DEF plan
  <2> QED
    BY ChangeNamed, SameChange
<1> HIDE DEF ps, ss, po, so, pv, sv
<1>10. Paired(q, 6, ps, Page!Told(po, pv), ss, Service!Told(so, sv))
  <2>1. ps[1] = Page!Unmarshal(q.body) /\ ss[1] = Service!DecodeBody(q.body)
    BY <1>4, <1>5
  <2>2. 6 \in Nat \ {0}
    OBVIOUS
  <2> QED
    BY <1>7, <1>8, <1>9, <2>1, <2>2, ReadsPair, Zenon
<1> QED
  BY <1>2, <1>3, <1>10 DEF Compared

LEMMA OneRendered ==
    ASSUME NEW t, NEW offset
    PROVE  Page!Formatted(t, offset) = Service!Rendered(t, offset)
<1> DEFINE told(form) == [form |-> form, at |-> t - (t % TicksPerSecond), offset |-> offset]
           legible(d) == IF d.year \in 0 .. 9999 THEN "timestamp" ELSE "unreadable"
           dp == Page!Cycles!DateOf((t + offset) \div TicksPerDay)
           ds == Service!Cycles!DateOf((t + offset) \div TicksPerDay)
<1>1. Service!Rendered(t, offset) = told(legible(ds))
  BY DEF Service!Rendered
<1>2. Page!Formatted(t, offset) = told(legible(dp))
  BY DEF Page!Formatted
<1>3. dp = ds
  BY SameDateOf
<1> HIDE DEF dp, ds, told, legible
<1> QED
  BY <1>1, <1>2, <1>3

LEMMA BoundaryCompared ==
    ASSUME NEW q, IsCall(q), q.endpoint = "boundary"
    PROVE  Compared(q)
<1> DEFINE pf == Page!ParseTime("from", q.from)
           sf == Service!ParseTime("from", q.from)
           pu == Page!ParseUnit(q.unit)
           su == Service!ParseUnit(q.unit)
           pa == IF q.calendar THEN pf
                 ELSE IF q.anchor.form = "empty" THEN Page!Bad("anchor")
                 ELSE Page!ParseTime("anchor", q.anchor)
           sa == Service!ParseAnchor(q)
           zone == Page!ZoneOf(pa.value)
           next == IF q.calendar
                   THEN Page!Cycles!NextCalendarBoundary(zone, pf.value.at, pu.value)
                   ELSE Page!Cycles!NextBoundary(pa.value.at, zone, pf.value.at, pu.value)
           ps == <<Page!Unmarshal(q.body), pf, pu, pa>>
           ss == <<Service!DecodeBody(q.body), sf, su, sa>>
           pl == Page!Answer([next |-> Page!Formatted(next, pa.value.offset)])
           sl == Service!Answer([next |-> Service!NextOf(q)])
<1>1. {"from", "anchor"} \subseteq DOMAIN q
  BY DEF IsCall, TimesOf
<1>2. Page!Handle(q) = Page!Concluded(ps, pl)
  BY DEF Page!Handle, Page!HandleBoundary
<1>3. Service!Handle(q) = Service!Concluded(ss, sl)
  BY DEF Service!Handle, Service!HandleBoundary
<1>4. Read(q, pf, sf) /\ Read(q, pu, su) /\ Akin(pu, su)
  BY <1>1, TimesRead, WordsAkin, AkinIsRead
<1>5. q.calendar => pa = pf /\ sa = Service!Parsed(Nil)
  BY DEF Service!ParseAnchor
<1>6. ~q.calendar => Read(q, pa, sa)
  <2>1. CASE ~q.calendar /\ q.anchor.form = "empty"
    BY <2>1, BothRefuse, AkinIsRead DEF Service!ParseAnchor
  <2>2. CASE ~q.calendar /\ q.anchor.form # "empty"
    BY <1>1, <2>2, TimesRead DEF Service!ParseAnchor
  <2> QED
    BY <2>1, <2>2
<1>7. /\ ~pa.ok => pa.answer.code = "invalid_argument"
      /\ ~sa.ok => Rejects(sa)
      /\ sf.ok => RefusedAlike(pa, sa) \/ (DatedIn(q) /\ Rejects(sa))
  <2> HIDE DEF pf, sf, pa, sa
  <2> QED
    BY <1>4, <1>5, <1>6 DEF Read, Akin, RefusedAlike, Rejects, Service!Parsed
<1>8. ASSUME pf.ok /\ pu.ok /\ pa.ok /\ sf.ok /\ su.ok /\ sa.ok
      PROVE  Page!Formatted(next, pa.value.offset) = Service!NextOf(q)
  <2>1. pf.value = sf.value /\ pu.value = su.value
    <3> HIDE DEF pf, sf, pu, su
    <3> QED
      BY <1>4, <1>8, ReadValues
  <2>2. CASE q.calendar
    <3> HIDE DEF pf, pu, pa
    <3> QED
      BY <1>5, <2>1, <2>2, SameCalendarNext, OneRendered
      DEF Service!NextOf, Page!ZoneOf, Service!ZoneOf
  <2>3. CASE ~q.calendar
    <3>1. pa.value = sa.value
      <4> HIDE DEF pa, sa
      <4> QED
        BY <1>6, <1>8, <2>3, ReadValues
    <3> HIDE DEF pf, pu, pa
    <3> QED
      BY <2>1, <2>3, <3>1, SameNext, OneRendered
      DEF Service!NextOf, Page!ZoneOf, Service!ZoneOf
  <2> QED
    BY <2>2, <2>3
<1>9. /\ pl.code = "ok" /\ sl.code = "ok" /\ sl.status = 200 /\ pl.field = sl.field
      /\ pl.value = [next |-> Page!Formatted(next, pa.value.offset)]
      /\ sl.value = [next |-> Service!NextOf(q)]
  BY DEF Page!Answer, Service!Answer
<1>10. Paired(q, 4, ps, pl, ss, sl)
  <2>1. /\ DOMAIN ps = 1 .. 4 /\ ps[1] = Page!Unmarshal(q.body)
        /\ ps[2] = pf /\ ps[3] = pu /\ ps[4] = pa
        /\ DOMAIN ss = 1 .. 4 /\ ss[1] = Service!DecodeBody(q.body)
        /\ ss[2] = sf /\ ss[3] = su /\ ss[4] = sa
    OBVIOUS
  <2>2. (\A k \in 1 .. 4 : ps[k].ok /\ ss[k].ok) => Tells(pl.value, sl.value)
    <3> HIDE DEF ps, ss, pf, pu, pa, sf, su, sa, pl, sl, next
    <3> QED
      BY <1>8, <1>9, <2>1 DEF Tells
  <2>3. \A k \in 2 .. 4 :
          /\ ~ps[k].ok => ps[k].answer.code = "invalid_argument"
          /\ ~ss[k].ok => Rejects(ss[k])
          /\ (\A j \in 1 .. k - 1 : ss[j].ok) =>
               \/ RefusedAlike(ps[k], ss[k])
               \/ DatedIn(q) /\ Rejects(ss[k])
    <3> HIDE DEF ps, ss, pf, pu, pa, sf, su, sa
    <3> SUFFICES ASSUME NEW k \in 2 .. 4
                 PROVE  /\ ~ps[k].ok => ps[k].answer.code = "invalid_argument"
                        /\ ~ss[k].ok => Rejects(ss[k])
                        /\ (\A j \in 1 .. k - 1 : ss[j].ok) =>
                             \/ RefusedAlike(ps[k], ss[k])
                             \/ DatedIn(q) /\ Rejects(ss[k])
      OBVIOUS
    <3>1. CASE k = 2
      BY <1>4, <2>1, <3>1 DEF Read, Akin
    <3>2. CASE k = 3
      BY <1>4, <2>1, <3>2 DEF Read, Akin
    <3>3. CASE k = 4
      <4>1. (\A j \in 1 .. k - 1 : ss[j].ok) => sf.ok
        BY <2>1, <3>3
      <4> QED
        BY <1>7, <2>1, <3>3, <4>1
    <3> QED
      BY <3>1, <3>2, <3>3
  <2> HIDE DEF ps, ss, pl, sl
  <2> QED
    BY <1>9, <2>1, <2>2, <2>3 DEF Paired
<1> HIDE DEF ps, ss, pl, sl
<1> QED
  BY <1>2, <1>3, <1>10 DEF Compared

LEMMA AllCompared ==
    ASSUME NEW q, IsCall(q), q.endpoint # "scenario"
    PROVE  Compared(q)
<1>1. q.endpoint \in {"rate", "proration", "fraction", "boundary"}
  BY DEF IsCall, TimesOf
<1> QED
  BY <1>1, RateCompared, ProrationCompared, FractionCompared, BoundaryCompared

\* What is asked of a front end that does not compose.
LEMMA AnswersToCalls ==
    ASSUME NEW q, IsCall(q), q.endpoint # "scenario"
    PROVE  /\ AgreeOn(q, Page!Handle(q), Service!Handle(q))
           /\ Service!Handle(q).status # 500
           /\ Page!Handle(q).code = "error" =>
                q.body \in {"malformed", "second_value", "closed_twice"}
<1>1. q.body \in Bodies
  BY DEF IsCall
<1>2. PICK n, ps, pl, ss, sl : /\ Paired(q, n, ps, pl, ss, sl)
                               /\ Page!Handle(q) = Page!Concluded(ps, pl)
                               /\ Service!Handle(q) = Service!Concluded(ss, sl)
  BY AllCompared DEF Compared
<1>3. AgreeOn(q, Page!Concluded(ps, pl), Service!Concluded(ss, sl))
  BY <1>1, <1>2, PairedAgree
<1>4. /\ Service!Concluded(ss, sl).status # 500
      /\ Page!Concluded(ps, pl).code = "error" =>
                q.body \in {"malformed", "second_value", "closed_twice"}
  BY <1>1, <1>2, PairedNamed
<1> QED
  BY <1>2, <1>3, <1>4

LEMMA ScenarioIsTold ==
    ASSUME NEW q, q.endpoint = "scenario"
    PROVE  Page!Handle(q).code \in {"ok", "unknown_scenario"}
  BY DEF Page!Handle, Page!HandleLoadScenario, Page!Answer, Page!ErrObj

\* The fraction that the page echoes with a proration.
LEMMA EchoIsTheFraction ==
    ASSUME NEW q, IsCall(q), q.endpoint = "proration", Page!Handle(q).code = "ok",
           NEW left, left = [endpoint |-> "fraction", body |-> q.body, basis |-> q.basis,
                             start |-> q.start, end |-> q.end, from |-> q.at, to |-> q.end]
    PROVE  Page!Handle(q).value.fraction = Page!HandleFraction(left).value.fraction
<1> DEFINE pt(g, t) == Page!ParseTime(g, t)
           pc == Page!ToCurrency(q.currency)
           ps == <<Page!Unmarshal(q.body), pc, Page!ToPeriod(q)[1], Page!ToPeriod(q)[2],
                   pt("at", q.at), Page!ParseBasis(q.basis)>>
           ls == <<Page!Unmarshal(left.body), Page!ToPeriod(left)[1], Page!ToPeriod(left)[2],
                   pt("from", left.from), pt("to", left.to), Page!ParseBasis(left.basis)>>
           period == Page!Measured(q)
           plan == [start |-> period.start, end |-> period.end, zone |-> period.zone,
                    basis |-> period.basis, mode |-> pc.value, old |-> q.old, new |-> q.new]
           at == pt("at", q.at).value.at
           po == Page!Periods!Change(plan, at)
           fraction == Page!Periods!Fraction(period, at, period.end)
           lo == Page!Periods!Fraction(Page!Measured(left), pt("from", left.from).value.at,
                                       pt("to", left.to).value.at)
           pv == [credit |-> Page!Amount(po.credit), charge |-> Page!Amount(po.charge),
                  net |-> Page!Amount(po.net), fraction |-> Page!Canonical(fraction)]
           lv == [fraction |-> Page!Canonical(lo)]
<1>1. Page!Handle(q) = Page!Concluded(ps, Page!Told(po, pv))
  BY DEF Page!Handle, Page!HandleProration
<1>2. Page!HandleFraction(left) = Page!Concluded(ls, Page!Told(lo, lv))
  BY DEF Page!HandleFraction
<1>3. \A k \in 1 .. 6 : ps[k].ok
  <2> SUFFICES ASSUME \E k \in 1 .. 6 : ~ps[k].ok PROVE FALSE
    OBVIOUS
  <2>1. DOMAIN ps = 1 .. 6 /\ ps[1] = Page!Unmarshal(q.body) /\ ps[2] = pc
        /\ ps[3] = pt("period.start", q.start) /\ ps[4] = pt("period.end", q.end)
        /\ ps[5] = pt("at", q.at) /\ ps[6] = Page!ParseBasis(q.basis)
    BY DEF Page!ToPeriod
  <2>2. \A k \in 1 .. 6 : ~ps[k].ok => ps[k].answer.code # "ok"
    <3>1. ~ps[1].ok => ps[1].answer.code = "error"
      BY <2>1, BodiesRead DEF IsCall
    <3>2. {"start", "end", "at"} \subseteq DOMAIN q
      BY DEF IsCall, TimesOf
    <3>3. /\ \E s : Read(q, pc, s)
          /\ \E s : Read(q, pt("period.start", q.start), s)
          /\ \E s : Read(q, pt("period.end", q.end), s)
          /\ \E s : Read(q, pt("at", q.at), s)
          /\ \E s : Read(q, Page!ParseBasis(q.basis), s)
      BY <3>2, TimesRead, WordsAkin, CurrenciesAkin, AkinIsRead
    <3> HIDE DEF ps, pc, pt
    <3>4. \A k \in 2 .. 6 : ~ps[k].ok => ps[k].answer.code = "invalid_argument"
      BY <2>1, <3>3 DEF Read
    <3> QED
      BY <3>1, <3>4
  <2>3. PICK k \in 1 .. 6 : ~ps[k].ok /\ \A j \in 1 .. k - 1 : ps[j].ok
    <3> HIDE DEF ps
    <3> QED
      BY SomeFirstRefusal
  <2>4. Page!Handle(q) = ps[k].answer
    <3> HIDE DEF ps, pv, po
    <3> QED
      BY <1>1, <2>1, <2>3, FirstRefusal, 6 \in Nat
  <2> HIDE DEF ps
  <2> QED
    BY <2>2, <2>3, <2>4
<1>4. Page!Handle(q) = Page!Told(po, pv)
  <2>1. DOMAIN ps = 1 .. 6
    OBVIOUS
  <2> HIDE DEF ps, pv, po
  <2> QED
    BY <1>1, <1>3, <2>1, AllUnderstood
<1>5. po.ok /\ Page!Handle(q).value = pv
  <2>1. Named(po)
    <3> HIDE DEF plan
    <3> QED
      BY ChangeNamed, SameChange
  <2> HIDE DEF po, pv
  <2> QED
    BY <1>4, <2>1, ToldAlike
<1>6. pt("from", left.from).value = pt("at", q.at).value
      /\ pt("to", left.to).value = pt("period.end", q.end).value
      /\ pt("from", left.from).ok = pt("at", q.at).ok
      /\ pt("to", left.to).ok = pt("period.end", q.end).ok
  BY <1>3 DEF Page!ParseTime, Page!Parsed, Page!Bad, Page!Refused, Page!ToPeriod
<1>7. Page!Measured(left) = period /\ period.end = pt("period.end", q.end).value.at
  BY DEF Page!Measured, Page!ToPeriod
<1>8. lo = fraction
  <2> HIDE DEF period, pt
  <2> QED
    BY <1>6, <1>7
<1>9. \A k \in DOMAIN ls : ls[k].ok
  BY <1>3, <1>6 DEF Page!ToPeriod
<1>10. fraction.ok
  <2>1. /\ plan.start = period.start /\ plan.end = period.end /\ plan.zone = period.zone
        /\ plan.basis = period.basis
    OBVIOUS
  <2>2. Page!Periods!Fraction(plan, at, plan.end) = fraction
    <3> HIDE DEF plan, period, at
    <3> QED
      BY <2>1, Zenon DEF Page!Periods!Fraction
  <2>3. \A why : ~Page!Periods!Fails(why).ok
    BY DEF Page!Periods!Fails
  <2> HIDE DEF plan, fraction, at
  <2> QED
    BY <1>5, <2>2, <2>3 DEF Page!Periods!Change
<1>11. Page!HandleFraction(left) = Page!Told(lo, lv)
  <2> HIDE DEF ls, lv, lo
  <2> QED
    BY <1>2, <1>9, AllUnderstood
<1>12. Page!HandleFraction(left).value = lv
  <2> HIDE DEF lv, lo, fraction
  <2> QED
    BY <1>8, <1>10, <1>11 DEF Page!Told, Page!Answer
<1> HIDE DEF lo, fraction, po
<1> QED
  BY <1>5, <1>8, <1>12

-----------------------------------------------------------------------------
(***************************************************************************)
(* What the two front ends have answered is what they make of the call;    *)
(* the handler is at rest, or composes what is asked of the page.          *)
(***************************************************************************)
Asked == [endpoint |-> "compose", body |-> request.body,
          currency |-> request.currency, steps |-> request.steps]

FrontInv ==
    /\ \/ Idle /\ IsCall(call)
       \/ ServiceInv /\ call = Asked
    /\ played # Pending => /\ played = Page!Handle(call)
                           /\ call.endpoint = "compose" => phase = "answered"
    /\ served # Pending => /\ call.endpoint # "scenario"
                           /\ IF call.endpoint = "compose"
                              THEN phase = "answered" /\ served = answer
                              ELSE served = Service!Handle(call)

LEMMA EndpointOf ==
    ASSUME IsCall(call)
    PROVE  call.endpoint \in {"rate", "proration", "fraction", "boundary", "scenario"}
BY DEF IsCall, TimesOf

\* A handler that is not asked takes no step.
LEMMA IdleRests == ~(Idle /\ Next)
BY DEF Idle, Next, Refuse, Begin, Fold, Composed, Recompose, Recomposed, Respond

LEMMA FrontInitEstablishes == FrontInit => FrontInv
<1> SUFFICES ASSUME FrontInit PROVE FrontInv
  OBVIOUS
<1>1. CASE Idle /\ call \in Calls
  BY <1>1, CallsAssumption DEF FrontInit, FrontInv
<1>2. CASE Init /\ call = Asked
  BY <1>2, InitEstablishes DEF FrontInit, FrontInv
<1> QED
  BY <1>1, <1>2 DEF FrontInit, Asked

LEMMA RequestStays == Next \/ UNCHANGED vars => request' = request
BY DEF Next, vars, Refuse, Begin, Fold, Fail, Composed, Recompose, Recomposed, Respond

LEMMA AskPreserves ==
    ASSUME FrontInv, Ask PROVE FrontInv'
<1>1. \/ Idle' /\ IsCall(call)'
      \/ ServiceInv' /\ (call = Asked)'
  <2>1. CASE Idle /\ IsCall(call)
    BY <2>1 DEF Ask, Idle, vars, EmptyInvoice
  <2>2. CASE ServiceInv /\ call = Asked
    BY <2>2, StepPreserves DEF Ask, Asked, vars
  <2> QED
    BY <2>1, <2>2 DEF FrontInv
<1>2. played' = Page!Handle(call)' /\ (call.endpoint = "compose" => phase = "answered")'
  BY DEF Ask, vars
<1>3. served' # Pending =>
        /\ (call.endpoint # "scenario")'
        /\ IF (call.endpoint = "compose")'
           THEN (phase = "answered" /\ served = answer)'
           ELSE served' = Service!Handle(call)'
  BY DEF Ask, vars
<1> QED
  BY <1>1, <1>2, <1>3 DEF FrontInv, Pending

LEMMA HandlerPreserves ==
    ASSUME FrontInv, Next, UNCHANGED fronts PROVE FrontInv'
<1>1. ServiceInv /\ call = Asked /\ ServiceInv' /\ (call = Asked)'
  BY IdleRests, StepPreserves, RequestStays DEF FrontInv, Asked, fronts
<1>2. phase # "answered"
  BY DEF Next, Refuse, Begin, Fold, Composed, Recompose, Recomposed, Respond
<1>3. played = Pending /\ served = Pending
  BY <1>1, <1>2 DEF FrontInv, Asked
<1>4. played' = Pending' /\ served' = Pending'
  BY <1>3 DEF fronts, Pending
<1> QED
  BY <1>1, <1>4 DEF FrontInv, Pending

-----------------------------------------------------------------------------
(***************************************************************************)
(* compose: the page folds the steps of the request that the handler took  *)
(* one by one.                                                             *)
(***************************************************************************)
LEMMA OneWrap == \A x : Page!Wrap(x) = Wrap(x)
  BY Zenon DEF Page!Wrap, Wrap, Page!MinInt, MinInt

LEMMA OneEmpty == \A c : Page!EmptyInvoice(c) = EmptyInvoice(c)
  BY Zenon DEF Page!EmptyInvoice, EmptyInvoice, Page!Kinds, Kinds

LEMMA OneFit == \A inv, x : Page!LineFits(inv, x) = LineFits(inv, x)
  BY Zenon DEF Page!LineFits, LineFits, Page!IsInt64, IsInt64, Page!MinInt, MinInt

LEMMA OneLine == \A inv, k, x : Page!AddLine(inv, k, x) = AddLine(inv, k, x)
  BY Zenon DEF Page!AddLine, AddLine

LEMMA OneCharged ==
    ASSUME NEW inv, NEW r
    PROVE  /\ Page!ChargedPasses(inv, r) = ChargedPasses(inv, r)
           /\ Page!ChargedApplied(inv, r) = ChargedApplied(inv, r)
           /\ Page!ChargedFailure(r) = ChargedFailure(r)
  BY OneFit, OneLine, Zenon
  DEF Page!ChargedPasses, ChargedPasses, Page!ChargedApplied, ChargedApplied,
      Page!ChargedFailure, ChargedFailure,
      Page!IsInt64, IsInt64, Page!MinInt, MinInt

LEMMA OneDiscount == \A inv, p : Page!Discount(inv, p) = Discount(inv, p)
  BY Zenon DEF Page!Discount, Discount, Page!Round, Round, Page!BreakTie, BreakTie

LEMMA OnePercentOff ==
    ASSUME NEW inv, NEW p
    PROVE  /\ Page!PercentOffPasses(inv, p) = PercentOffPasses(inv, p)
           /\ Page!PercentOffApplied(inv, p) = PercentOffApplied(inv, p)
           /\ Page!PercentOffFailure(p) = PercentOffFailure(p)
  BY OneFit, OneLine, OneDiscount, OneWrap, Zenon
  DEF Page!PercentOffPasses, PercentOffPasses, Page!PercentOffApplied, PercentOffApplied,
      Page!PercentOffFailure, PercentOffFailure,
      Page!IsInt64, IsInt64, Page!MinInt, MinInt

LEMMA OneAmountOff ==
    ASSUME NEW inv, NEW m
    PROVE  /\ Page!AmountOffPasses(inv, m) = AmountOffPasses(inv, m)
           /\ Page!AmountOffApplied(inv, m) = AmountOffApplied(inv, m)
           /\ Page!AmountOffFailure(m) = AmountOffFailure(m)
  BY OneFit, OneLine, OneWrap, Zenon
  DEF Page!AmountOffPasses, AmountOffPasses, Page!AmountOffApplied, AmountOffApplied,
      Page!AmountOffFailure, AmountOffFailure

LEMMA OneMinimum ==
    ASSUME NEW inv, NEW m
    PROVE  /\ Page!MinimumPasses(inv, m) = MinimumPasses(inv, m)
           /\ Page!MinimumApplied(inv, m) = MinimumApplied(inv, m)
           /\ Page!MinimumFailure(m) = MinimumFailure(m)
  BY OneFit, OneLine, Zenon
  DEF Page!MinimumPasses, MinimumPasses, Page!MinimumApplied, MinimumApplied,
      Page!MinimumFailure, MinimumFailure,
      Page!IsInt64, IsInt64, Page!MinInt, MinInt

LEMMA OneDraw ==
    ASSUME NEW inv, NEW b, NEW m
    PROVE  /\ Page!DrawPasses(inv, b, m) = DrawPasses(inv, b, m)
           /\ Page!DrawApplied(inv, b, m) = DrawApplied(inv, b, m)
           /\ Page!DrawFailure(m) = DrawFailure(m)
  BY OneFit, OneLine, OneWrap, Zenon
  DEF Page!DrawPasses, DrawPasses, Page!DrawApplied, DrawApplied, Page!DrawAmount, DrawAmount,
      Page!Available, Available, Page!DrawFailure, DrawFailure

LEMMA OneRating ==
    ASSUME request \in Requests, Parses, NEW i \in 1 .. N
    PROVE  LET s == request.steps[i]
           IN  /\ s.type = "charge" => Page!RatingOf(Asked, s) = RatingOf(s)
               /\ s.type = "percent_off" => Page!PctOf(s) = PctOf(s)
<1> DEFINE s == request.steps[i]
<1>1. IsStep(s) /\ ParseStep(s).ok
  BY WhatParses, RequestsAssumption DEF N
<1> HIDE DEF s
<1>2. ASSUME s.type = "charge" PROVE Page!RatingOf(Asked, s) = RatingOf(s)
  <2>1. s.charge # Nil /\ IsCharge(s.charge) /\ Service!ToCharge(s.charge).ok
    BY <1>1, <1>2 DEF ParseStep, IsStep, Draws, Service!Bad, Service!Refused
  <2>2. Page!ToCharge(s.charge).value = Service!ToCharge(s.charge).value
    BY <2>1, ChargesAkin DEF Akin
  <2>3. Page!Rates!Rate(Page!ToCharge(s.charge).value, s.quantity) = Rated(s)
    BY <2>2, SameRate DEF Rated
  <2>4. Asked.currency = request.currency
    BY DEF Asked
  <2> HIDE DEF Asked
  <2> QED
    BY <2>3, <2>4, Zenon DEF Page!RatingOf, RatingOf, Page!RatingFrom, RatingFrom
<1>3. ASSUME s.type = "percent_off" PROVE Page!PctOf(s) = PctOf(s)
  <2>1. s.pct.len \in Nat /\ Service!RatString("steps.pct", s.pct).ok
    BY <1>1, <1>3 DEF ParseStep, IsStep, Draws
  <2>2. Page!RatString("steps.pct", s.pct).value = Service!RatString("steps.pct", s.pct).value
    BY <2>1, RatesAkin DEF Akin
  <2> QED
    BY <2>2, Zenon DEF Page!PctOf, PctOf
<1> QED
  BY <1>2, <1>3 DEF s

LEMMA OneStep ==
    ASSUME request \in Requests, Parses, NEW i \in 1 .. N, i \in Balances, NEW inv
    PROVE  /\ Page!StepPasses(inv, Asked, i) <=> Passes(inv, i, Fresh)
           /\ Page!StepApplied(inv, Asked, i) = Applied(inv, i, Fresh)
           /\ Page!StepFailure(Asked, request.steps[i]) = Failure(i, Fresh)
<1> DEFINE s == request.steps[i]
<1>1. s.type \in Draws => Fresh[i] = s.balance
  BY FreshBalances
<1>2. /\ s.type = "charge" => Page!RatingOf(Asked, s) = RatingOf(s)
      /\ s.type = "percent_off" => Page!PctOf(s) = PctOf(s)
  BY OneRating
<1>3. Asked.steps[i] = s
  BY DEF Asked
<1>4. s.type \in {"charge", "percent_off", "amount_off", "minimum"} \cup Draws
  <2>1. ParseStep(s).ok
    BY WhatParses
  <2> QED
    BY <2>1 DEF ParseStep, Service!Bad, Service!Refused
<1>5. Page!StepPasses(inv, Asked, i) <=> Passes(inv, i, Fresh)
  <2> HIDE DEF Asked
  <2> QED
    BY <1>1, <1>2, <1>3, OneCharged, OnePercentOff, OneAmountOff, OneMinimum, OneDraw
    DEF Page!StepPasses, Passes, Draws
<1>6. Page!StepApplied(inv, Asked, i) = Applied(inv, i, Fresh)
  <2> HIDE DEF Asked
  <2> QED
    BY <1>1, <1>2, <1>3, <1>4, OneCharged, OnePercentOff, OneAmountOff, OneMinimum, OneDraw
    DEF Page!StepApplied, Applied, Draws
<1>7. Page!StepFailure(Asked, s) = Failure(i, Fresh)
  <2> HIDE DEF Asked
  <2> QED
    BY <1>1, <1>2, <1>4, OneCharged, OnePercentOff, OneAmountOff, OneMinimum, OneDraw
    DEF Page!StepFailure, Failure, Draws
<1> QED
  BY <1>5, <1>6, <1>7

\* Whatever a step fails with has a row in both tables.
LEMMA FailuresAreNamed ==
    ASSUME NEW r, ~r.rated => r.why \in DOMAIN Service!ErrorTable, NEW p, NEW m
    PROVE  {ChargedFailure(r), PercentOffFailure(p), AmountOffFailure(m), MinimumFailure(m),
            DrawFailure(m)} \subseteq DOMAIN Service!ErrorTable
<1>1. {"ErrCurrencyMismatch", "ErrBadDiscount", "ErrBadFloor", "ErrBadBalance", "ErrOverflow"}
        \subseteq DOMAIN Service!ErrorTable
  BY DEF Service!ErrorTable
<1> QED
  BY <1>1
  DEF ChargedFailure, PercentOffFailure, AmountOffFailure, MinimumFailure, DrawFailure

LEMMA FailureNamed ==
    ASSUME NEW i
    PROVE  Failure(i, Fresh) \in DOMAIN Service!ErrorTable
<1> DEFINE s == request.steps[i]
<1>1. Named(Rated(s))
  BY RateNamed DEF Rated
<1>2. ~RatingOf(s).rated => RatingOf(s).why \in DOMAIN Service!ErrorTable
  BY <1>1 DEF RatingOf, RatingFrom, Named
<1> QED
  BY <1>2, FailuresAreNamed DEF Failure

LEMMA PageFailureNamed ==
    ASSUME NEW q, NEW s
    PROVE  Page!StepFailure(q, s) \in DOMAIN Service!ErrorTable
<1> DEFINE r == Page!RatingOf(q, s)
<1>1. PICK outcome : outcome = Page!Rates!Rate(Page!ToCharge(s.charge).value, s.quantity)
  OBVIOUS
<1>2. Named(outcome)
  BY <1>1, RateNamed, SameRate
<1>3. r.rated = outcome.ok /\ (~outcome.ok => r.why = outcome.why)
  BY <1>1 DEF Page!RatingOf, Page!RatingFrom
<1> HIDE DEF r
<1>4. ~r.rated => r.why \in DOMAIN Service!ErrorTable
  BY <1>2, <1>3 DEF Named
<1> QED
  BY <1>4, FailuresAreNamed, OneCharged, OnePercentOff, OneAmountOff, OneMinimum, OneDraw
  DEF Page!StepFailure, r

(***************************************************************************)
(* The fold of Page!Composed.                                              *)
(***************************************************************************)
FoldBase(q) ==
    [ok  |-> Page!ToCurrency(q.currency).value \in Page!Modes, why |-> "ErrBadCurrency",
     inv |-> Page!EmptyInvoice(Page!ToCurrency(q.currency).value)]

FoldStep(q, acc, i) ==
    IF ~acc.ok THEN acc
    ELSE IF Page!StepPasses(acc.inv, q, i)
         THEN [acc EXCEPT !.inv = Page!StepApplied(@, q, i)]
         ELSE [acc EXCEPT !.ok = FALSE, !.why = Page!StepFailure(q, q.steps[i])]

\* A function that folds the steps of q over sets of positions up to n.
FoldsSteps(f, q, n) ==
    f = [s \in SUBSET (1 .. n) |->
           IF s = {} THEN FoldBase(q) ELSE FoldStep(q, f[s \ {Max(s)}], Max(s))]

LEMMA StepsFoldDefined ==
    ASSUME NEW q, NEW n \in Nat
    PROVE  \E f : FoldsSteps(f, q, n)
<1> DEFINE X == {m \in 0 .. n : \E f : FoldsSteps(f, q, m)}
<1>1. 0 \in X
  <2> DEFINE h == [s \in SUBSET (1 .. 0) |-> FoldBase(q)]
  <2>1. \A s \in SUBSET (1 .. 0) : s = {}
    OBVIOUS
  <2>2. FoldsSteps(h, q, 0)
    BY <2>1 DEF FoldsSteps
  <2> HIDE DEF h
  <2> QED
    BY <2>2
<1>2. ASSUME NEW m \in 0 .. n, m < n, m \in X PROVE m + 1 \in X
  <2>1. PICK f : FoldsSteps(f, q, m)
    BY <1>2
  <2> DEFINE g == [s \in SUBSET (1 .. m + 1) |->
                     IF m + 1 \in s THEN FoldStep(q, f[s \ {m + 1}], m + 1) ELSE f[s]]
  <2>2. \A s \in SUBSET (1 .. m + 1) : m + 1 \notin s => s \in SUBSET (1 .. m)
    OBVIOUS
  <2>3. \A s \in SUBSET (1 .. m + 1) : s \ {m + 1} \in SUBSET (1 .. m)
    OBVIOUS
  <2>4. \A t \in SUBSET (1 .. m) : g[t] = f[t]
    <3>1. \A t \in SUBSET (1 .. m) : t \in SUBSET (1 .. m + 1) /\ m + 1 \notin t
      OBVIOUS
    <3> QED
      BY <3>1
  <2>5. ASSUME NEW s \in SUBSET (1 .. m + 1)
        PROVE  g[s] = IF s = {} THEN FoldBase(q) ELSE FoldStep(q, g[s \ {Max(s)}], Max(s))
    <3>1. CASE m + 1 \in s
      <4>1. Max(s) = m + 1
        BY <3>1, MaxOfUpTo
      <4>2. g[s \ {m + 1}] = f[s \ {m + 1}]
        BY <2>3
      <4> QED
        BY <3>1, <4>1, <4>2
    <3>2. CASE m + 1 \notin s
      <4>1. s \in SUBSET (1 .. m) /\ g[s] = f[s]
        BY <2>2, <3>2
      <4>2. f[s] = IF s = {} THEN FoldBase(q) ELSE FoldStep(q, f[s \ {Max(s)}], Max(s))
        BY <2>1, <4>1 DEF FoldsSteps
      <4>3. g[s \ {Max(s)}] = f[s \ {Max(s)}]
        BY <2>4, <4>1
      <4> QED
        BY <4>1, <4>2, <4>3
    <3> QED
      BY <3>1, <3>2
  <2>6. FoldsSteps(g, q, m + 1)
    <3>1. DOMAIN g = SUBSET (1 .. m + 1) /\ g = [s \in DOMAIN g |-> g[s]]
      OBVIOUS
    <3> HIDE DEF g
    <3> QED
      BY <2>5, <3>1 DEF FoldsSteps
  <2>7. m + 1 \in 0 .. n
    BY <1>2
  <2> HIDE DEF g
  <2> QED
    BY <2>6, <2>7
<1> HIDE DEF X
<1>3. 0 .. n \subseteq X
  BY <1>1, <1>2, UpTo
<1>4. n \in X
  BY <1>3
<1> QED
  BY <1>4 DEF X

\* What the fold comes to, step by step, is what Page!Composed answers.
LEMMA ComposedIs ==
    ASSUME NEW q, NEW n \in Nat, NEW c, c[0] = FoldBase(q),
           \A k \in 1 .. n : c[k] = FoldStep(q, c[k - 1], k)
    PROVE  Page!Composed(q, n) = c[n]
<1> DEFINE seq == [i \in 1 .. n |-> i]
           Body(f) == [s \in SUBSET (1 .. n) |->
                         IF s = {} THEN FoldBase(q)
                         ELSE FoldStep(q, f[s \ {Max(s)}], seq[Max(s)])]
           iter == CHOOSE f : f = Body(f)
<1>1. DOMAIN seq = 1 .. n
  OBVIOUS
<1>2. Page!Composed(q, n) = iter[1 .. n]
  BY <1>1, Zenon
  DEF Page!Composed, Page!FoldLeft, Page!MapThenFoldSet, Page!Max, Max, FoldBase, FoldStep
<1>3. PICK f : FoldsSteps(f, q, n)
  BY StepsFoldDefined
<1>4. f = Body(f)
  <2>1. ASSUME NEW s \in SUBSET (1 .. n), s # {} PROVE seq[Max(s)] = Max(s)
    BY <2>1, MaxIn
  <2> HIDE DEF seq
  <2>2. \A s \in SUBSET (1 .. n) : (IF s = {} THEN FoldBase(q)
                                    ELSE FoldStep(q, f[s \ {Max(s)}], Max(s)))
                                 = (IF s = {} THEN FoldBase(q)
                                    ELSE FoldStep(q, f[s \ {Max(s)}], seq[Max(s)]))
    BY <2>1
  <2> QED
    BY <1>3, <2>2 DEF FoldsSteps
<1>5. iter = Body(iter)
  <2> HIDE DEF Body
  <2> QED
    BY <1>4
<1> HIDE DEF iter
<1> DEFINE X == {k \in 0 .. n : iter[1 .. k] = c[k]}
<1>6. 0 \in X
  <2>1. 1 .. 0 = {} /\ {} \in SUBSET (1 .. n)
    OBVIOUS
  <2> QED
    BY <1>5, <2>1
<1>7. ASSUME NEW k \in 0 .. n, k < n, k \in X PROVE k + 1 \in X
  <2>1. k + 1 \in 1 .. n /\ k + 1 \in 0 .. n /\ (k + 1) - 1 = k /\ k + 1 \in Nat \ {0}
    BY <1>7
  <2>2. Max(1 .. k + 1) = k + 1
    BY <2>1, MaxOfPrefix
  <2>3. (1 .. k + 1) \ {k + 1} = 1 .. k /\ 1 .. k + 1 # {}
    BY <2>1
  <2>4. 1 .. k + 1 \in SUBSET (1 .. n)
    BY <2>1, PrefixIn
  <2>5. iter[1 .. k + 1] = FoldStep(q, iter[1 .. k], k + 1)
    <3>1. seq[k + 1] = k + 1
      BY <2>1
    <3> HIDE DEF seq
    <3>2. \A s \in SUBSET (1 .. n) :
            s # {} => iter[s] = FoldStep(q, iter[s \ {Max(s)}], seq[Max(s)])
      BY <1>5
    <3>3. iter[1 .. k + 1] = FoldStep(q, iter[(1 .. k + 1) \ {Max(1 .. k + 1)}],
                                      seq[Max(1 .. k + 1)])
      BY <2>3, <2>4, <3>2
    <3> QED
      BY <2>2, <2>3, <3>1, <3>3
  <2> QED
    BY <1>7, <2>1, <2>5
<1> HIDE DEF X
<1>8. 0 .. n \subseteq X
  BY <1>6, <1>7, UpTo
<1>9. n \in X
  BY <1>8
<1> QED
  BY <1>2, <1>9 DEF X

-----------------------------------------------------------------------------
\* The positions up to one more, without it.
LEMMA OneMore ==
    ASSUME NEW j \in Nat
    PROVE  (1 .. j + 1) \ {j + 1} = 1 .. j /\ 1 .. j + 1 # {}
<1>1. j + 1 \in 1 .. j + 1
  OBVIOUS
<1> QED
  BY <1>1

\* The page composes one step at a time.
LEMMA ComposedInTurn ==
    ASSUME NEW q, NEW n \in Nat
    PROVE  /\ Page!Composed(q, 0) = FoldBase(q)
           /\ Page!Composed(q, n + 1) = FoldStep(q, Page!Composed(q, n), n + 1)
<1>1. n + 1 \in Nat /\ n \in 0 .. n + 1 /\ n + 1 \in 0 .. n + 1 /\ 0 \in 0 .. n + 1
      /\ (n + 1) - 1 = n /\ n + 1 \in 1 .. n + 1
  OBVIOUS
<1>2. PICK f : FoldsSteps(f, q, n + 1)
  BY <1>1, StepsFoldDefined
<1>3. PICK c : c = [k \in 0 .. n + 1 |-> f[1 .. k]]
  OBVIOUS
<1>4. c[0] = FoldBase(q)
  <2>1. 1 .. 0 = {} /\ {} \in SUBSET (1 .. n + 1)
    OBVIOUS
  <2>2. f[{}] = FoldBase(q)
    BY <1>2, <2>1 DEF FoldsSteps
  <2> QED
    BY <1>1, <1>3, <2>1, <2>2
<1>5. ASSUME NEW k \in 1 .. n + 1 PROVE c[k] = FoldStep(q, c[k - 1], k)
  <2>1. k \in Nat \ {0} /\ k - 1 \in Nat /\ k \in 0 .. n + 1 /\ k - 1 \in 0 .. n + 1
        /\ (k - 1) + 1 = k
    OBVIOUS
  <2>2. Max(1 .. k) = k
    BY <2>1, MaxOfPrefix
  <2>3. (1 .. k) \ {k} = 1 .. k - 1 /\ 1 .. k # {}
    <3>1. PICK j \in Nat : j = k - 1
      BY <2>1
    <3>2. k = j + 1
      BY <2>1, <3>1
    <3> QED
      BY <3>1, <3>2, OneMore
  <2>4. 1 .. k \in SUBSET (1 .. n + 1)
    BY <1>1, <2>1
  <2>5. \A s \in SUBSET (1 .. n + 1) : s # {} => f[s] = FoldStep(q, f[s \ {Max(s)}], Max(s))
    BY <1>2 DEF FoldsSteps
  <2>6. f[1 .. k] = FoldStep(q, f[(1 .. k) \ {Max(1 .. k)}], Max(1 .. k))
    BY <2>3, <2>4, <2>5
  <2> QED
    BY <1>3, <2>1, <2>2, <2>3, <2>6
<1>6. Page!Composed(q, 0) = c[0]
  <2>1. \A k \in 1 .. 0 : c[k] = FoldStep(q, c[k - 1], k)
    OBVIOUS
  <2>2. PICK none \in Nat : none = 0
    OBVIOUS
  <2>3. Page!Composed(q, none) = c[none]
    BY <1>4, <2>1, <2>2, ComposedIs
  <2> QED
    BY <2>2, <2>3
<1>7. Page!Composed(q, n) = c[n]
  <2>1. \A k \in 1 .. n : c[k] = FoldStep(q, c[k - 1], k)
    BY <1>5
  <2> QED
    BY <1>4, <2>1, ComposedIs
<1>8. Page!Composed(q, n + 1) = c[n + 1]
  BY <1>1, <1>4, <1>5, ComposedIs
<1>9. c[n + 1] = FoldStep(q, c[n], n + 1)
  BY <1>1, <1>5
<1> QED
  BY <1>4, <1>6, <1>7, <1>8, <1>9

\* What is folded has a row in both tables for why it fails, if it does.
Folded(acc) == /\ acc = [ok |-> acc.ok, why |-> acc.why, inv |-> acc.inv]
               /\ acc.ok \in BOOLEAN
               /\ acc.why \in DOMAIN Service!ErrorTable

LEMMA FoldedInTurn ==
    ASSUME NEW q, NEW i, NEW acc, Folded(acc)
    PROVE  Folded(FoldStep(q, acc, i))
<1>1. CASE ~acc.ok
  BY <1>1 DEF FoldStep
<1>2. CASE acc.ok /\ Page!StepPasses(acc.inv, q, i)
  <2>1. FoldStep(q, acc, i)
          = [ok |-> acc.ok, why |-> acc.why, inv |-> Page!StepApplied(acc.inv, q, i)]
    BY <1>2 DEF FoldStep, Folded
  <2> QED
    BY <2>1 DEF Folded
<1>3. CASE acc.ok /\ ~Page!StepPasses(acc.inv, q, i)
  <2>1. FoldStep(q, acc, i)
          = [ok |-> FALSE, why |-> Page!StepFailure(q, q.steps[i]), inv |-> acc.inv]
    BY <1>3 DEF FoldStep, Folded
  <2>2. Page!StepFailure(q, q.steps[i]) \in DOMAIN Service!ErrorTable
    BY PageFailureNamed
  <2> QED
    BY <2>1, <2>2 DEF Folded
<1> QED
  BY <1>1, <1>2, <1>3

LEMMA ComposedIsFolded ==
    ASSUME NEW q, NEW n \in Nat
    PROVE  Folded(Page!Composed(q, n))
<1> DEFINE X == {k \in 0 .. n : Folded(Page!Composed(q, k))}
<1>1. 0 \in X
  <2>1. "ErrBadCurrency" \in DOMAIN Service!ErrorTable
    BY SentinelsListed
  <2>2. Folded(FoldBase(q))
    BY <2>1 DEF Folded, FoldBase
  <2> QED
    BY <2>2, ComposedInTurn
<1>2. ASSUME NEW k \in 0 .. n, k < n, k \in X PROVE k + 1 \in X
  <2>1. k \in Nat /\ k + 1 \in 0 .. n
    BY <1>2
  <2> QED
    BY <1>2, <2>1, ComposedInTurn, FoldedInTurn
<1> HIDE DEF X
<1>3. 0 .. n \subseteq X
  BY <1>1, <1>2, UpTo
<1>4. n \in X
  BY <1>3
<1> QED
  BY <1>4 DEF X

\* A composition that has failed stays as it is.
LEMMA ComposedStays ==
    ASSUME NEW q, NEW m \in Nat, ~Page!Composed(q, m).ok, NEW n \in Nat, m <= n
    PROVE  Page!Composed(q, n) = Page!Composed(q, m)
<1> DEFINE X == {k \in 0 .. n : m <= k => Page!Composed(q, k) = Page!Composed(q, m)}
<1>1. 0 \in X
  BY SMT
<1>2. ASSUME NEW k \in 0 .. n, k < n, k \in X PROVE k + 1 \in X
  <2>1. k \in Nat /\ k + 1 \in 0 .. n
    BY <1>2
  <2>2. CASE m <= k
    BY <1>2, <2>1, <2>2, ComposedInTurn DEF FoldStep
  <2>3. CASE m = k + 1
    BY <2>1, <2>3
  <2>4. CASE k + 1 < m
    BY <2>1, <2>4
  <2> QED
    BY <2>1, <2>2, <2>3, <2>4
<1> HIDE DEF X
<1>3. 0 .. n \subseteq X
  BY <1>1, <1>2, UpTo
<1>4. n \in X
  BY <1>3
<1> QED
  BY <1>4 DEF X

-----------------------------------------------------------------------------
(***************************************************************************)
(* What the page has after n steps of the request, when they pass, and     *)
(* after one that does not.                                                *)
(***************************************************************************)
LEMMA AskedFields ==
    /\ Asked.endpoint = "compose" /\ Asked.body = request.body
    /\ Asked.currency = request.currency
    /\ Asked.steps = request.steps /\ Len(Asked.steps) = N
  BY DEF Asked, N

LEMMA BaseOfAsked ==
    ASSUME Parses
    PROVE  FoldBase(Asked) = [ok |-> Rounding \in Modes, why |-> "ErrBadCurrency",
                              inv |-> After(0)]
<1>1. Parts[3].ok /\ Parts[3] = Service!ToCurrency(request.currency)
  BY DEF Parses, Parts
<1>2. Page!ToCurrency(request.currency).value = Rounding
  BY <1>1, CurrenciesAkin DEF Akin, Rounding
<1>3. Page!Modes = Modes
  BY DEF Page!Modes, Modes
<1>4. After(0) = EmptyInvoice(Rounding)
  BY DEF After
<1> HIDE DEF Asked
<1> QED
  BY <1>2, <1>3, <1>4, AskedFields, OneEmpty DEF FoldBase

LEMMA FoldStepPasses ==
    ASSUME request \in Requests, Parses, NEW i \in 1 .. N, NEW inv, NEW acc,
           acc = [ok |-> TRUE, why |-> "ErrBadCurrency", inv |-> inv]
    PROVE  /\ Passes(inv, i, Fresh) =>
                FoldStep(Asked, acc, i)
                  = [ok |-> TRUE, why |-> "ErrBadCurrency", inv |-> Applied(inv, i, Fresh)]
           /\ ~Passes(inv, i, Fresh) =>
                FoldStep(Asked, acc, i)
                  = [ok |-> FALSE, why |-> Failure(i, Fresh), inv |-> inv]
<1>1. acc.ok /\ acc.inv = inv /\ Asked.steps[i] = request.steps[i]
  BY AskedFields
<1>2. i \in Balances
  BY WhatParses, BalancesAssumption
<1>3. /\ Page!StepPasses(inv, Asked, i) <=> Passes(inv, i, Fresh)
      /\ Page!StepApplied(inv, Asked, i) = Applied(inv, i, Fresh)
      /\ Page!StepFailure(Asked, Asked.steps[i]) = Failure(i, Fresh)
  BY <1>1, <1>2, OneStep
<1> HIDE DEF Asked
<1>4. CASE Passes(inv, i, Fresh)
  BY <1>1, <1>3, <1>4 DEF FoldStep
<1>5. CASE ~Passes(inv, i, Fresh)
  BY <1>1, <1>3, <1>5 DEF FoldStep
<1> QED
  BY <1>4, <1>5

LEMMA ComposedAfter ==
    ASSUME request \in Requests, History, Accepted, NEW n \in 0 .. Len(after)
    PROVE  Page!Composed(Asked, n)
             = [ok |-> TRUE, why |-> "ErrBadCurrency", inv |-> After(n)]
<1> DEFINE X == {k \in 0 .. n : Page!Composed(Asked, k)
                                  = [ok |-> TRUE, why |-> "ErrBadCurrency", inv |-> After(k)]}
<1>1. N \in Nat /\ Len(after) \in Nat /\ Len(after) <= N /\ n \in Nat
  BY RequestFacts DEF History
<1>2. 0 \in X
  <2>1. (Rounding \in Modes) = TRUE
    BY DEF Accepted
  <2>2. FoldBase(Asked) = [ok |-> TRUE, why |-> "ErrBadCurrency", inv |-> After(0)]
    BY <2>1, BaseOfAsked DEF Accepted
  <2>3. 0 \in 0 .. n /\ 0 \in Nat
    BY <1>1
  <2> HIDE DEF Asked
  <2> QED
    BY <2>2, <2>3, ComposedInTurn
<1>3. ASSUME NEW k \in 0 .. n, k < n, k \in X PROVE k + 1 \in X
  <2>1. /\ k \in Nat /\ k + 1 \in 0 .. n /\ (k + 1) - 1 = k
        /\ k + 1 \in 1 .. N /\ k + 1 \in 1 .. Len(after)
    BY <1>1, <1>3
  <2>2. Passes(After(k), k + 1, Fresh) /\ After(k + 1) = Applied(After(k), k + 1, Fresh)
    BY <2>1 DEF History, Grounded
  <2>3. Page!Composed(Asked, k) = [ok |-> TRUE, why |-> "ErrBadCurrency", inv |-> After(k)]
    BY <1>3
  <2>4. FoldStep(Asked, Page!Composed(Asked, k), k + 1)
          = [ok |-> TRUE, why |-> "ErrBadCurrency", inv |-> After(k + 1)]
    BY <2>1, <2>2, <2>3, FoldStepPasses DEF Accepted
  <2>5. Page!Composed(Asked, k + 1) = FoldStep(Asked, Page!Composed(Asked, k), k + 1)
    BY <2>1, ComposedInTurn
  <2> QED
    BY <2>1, <2>4, <2>5
<1> HIDE DEF X
<1>4. 0 .. n \subseteq X
  BY <1>1, <1>2, <1>3, UpTo
<1>5. n \in X
  BY <1>1, <1>4
<1> QED
  BY <1>5 DEF X

\* A request that parses but is rejected fails on the page for the same reason.
LEMMA ComposedFails ==
    ASSUME request \in Requests, History, Parses, Rejected
    PROVE  /\ ~Page!Composed(Asked, N).ok
           /\ RefusedWith = Service!MapError(Page!Composed(Asked, N).why)
<1>1. N \in Nat
  BY RequestFacts
<1>2. CASE Rounding \notin Modes
  <2>1. (Rounding \in Modes) = FALSE
    BY <1>2
  <2>2. Page!Composed(Asked, 0) = [ok |-> FALSE, why |-> "ErrBadCurrency", inv |-> After(0)]
    <3>1. 0 \in Nat
      OBVIOUS
    <3> HIDE DEF Asked
    <3> QED
      BY <2>1, <3>1, BaseOfAsked, ComposedInTurn
  <2>3. ~Page!Composed(Asked, 0).ok /\ Page!Composed(Asked, 0).why = "ErrBadCurrency"
    BY <2>2
  <2>4. Page!Composed(Asked, N) = Page!Composed(Asked, 0)
    <3>1. 0 \in Nat /\ 0 <= N
      BY <1>1
    <3> HIDE DEF Asked
    <3> QED
      BY <1>1, <2>3, <3>1, ComposedStays
  <2> QED
    BY <1>2, <2>3, <2>4 DEF RefusedWith
<1>3. CASE Rounding \in Modes
  <2> DEFINE m == Len(after)
  <2>1. m \in Nat /\ m < N /\ ~Passes(After(m), m + 1, Fresh) /\ Accepted
    BY <1>3 DEF Rejected, Accepted, History
  <2>2. m + 1 \in 1 .. N /\ m + 1 \in Nat /\ m \in 0 .. m /\ m + 1 <= N
    BY <1>1, <2>1
  <2>3. Page!Composed(Asked, m) = [ok |-> TRUE, why |-> "ErrBadCurrency", inv |-> After(m)]
    BY <2>1, <2>2, ComposedAfter
  <2> HIDE DEF m
  <2>4. Page!Composed(Asked, m + 1)
          = [ok |-> FALSE, why |-> Failure(m + 1, Fresh), inv |-> After(m)]
    <3>1. FoldStep(Asked, Page!Composed(Asked, m), m + 1)
            = [ok |-> FALSE, why |-> Failure(m + 1, Fresh), inv |-> After(m)]
      BY <2>1, <2>2, <2>3, FoldStepPasses
    <3>2. Page!Composed(Asked, m + 1) = FoldStep(Asked, Page!Composed(Asked, m), m + 1)
      BY <2>1, ComposedInTurn
    <3> QED
      BY <3>1, <3>2
  <2>5. ~Page!Composed(Asked, m + 1).ok /\ Page!Composed(Asked, m + 1).why = Failure(m + 1, Fresh)
    BY <2>4
  <2>6. Page!Composed(Asked, N) = Page!Composed(Asked, m + 1)
    BY <1>1, <2>2, <2>5, ComposedStays
  <2> QED
    BY <1>3, <2>5, <2>6 DEF RefusedWith, m
<1> QED
  BY <1>2, <1>3

-----------------------------------------------------------------------------
(***************************************************************************)
(* What the page tells of each step: its effect and the running total.     *)
(***************************************************************************)
LEMMA TotalsAfter ==
    ASSUME request \in Requests, History, Accepted, NEW n \in 0 .. Len(after)
    PROVE  After(n).total \in Int64 /\ After(n).total \in Int
<1>1. Good(n)
  <2>1. Len(after) \in Nat
    BY DEF History
  <2> QED
    BY <2>1 DEF History
<1> QED
  BY <1>1, MaxIntAssumption DEF Good, Sound, InvoiceType, Int64, MinInt

\* A completed request: what the handler told is known of every step.
Completed == /\ request \in Requests /\ History /\ Kept /\ EffectsSoFar
             /\ Len(effects) = N

\* The page's compositions, over each prefix and the whole, and its effects.
CompositionOf(q, n) == Page!Invoiced(Page!Composed(q, n))
EffectsOn(q)        == Page!StepEffects(q, Page!Outcomes(q))

LEMMA OutcomesAre ==
    ASSUME NEW q, NEW n \in 0 .. Len(q.steps)
    PROVE  Page!Outcomes(q)[n] = Page!Composed(q, n)
BY DEF Page!Outcomes

LEMMA EffectsOnThePage ==
    ASSUME Completed
    PROVE  EffectsOn(Asked) = effects
<1> DEFINE total(n) == IF n = 0 THEN 0 ELSE Page!Outcomes(Asked)[n].inv.total
<1>1. /\ N \in Nat /\ Len(after) = N /\ effects \in Seq(Int) /\ Len(effects) = N
      /\ \A i \in 1 .. N : effects[i] = After(i).total - After(i - 1).total
  BY RequestFacts DEF Completed, Kept, EffectsSoFar
<1>2. ASSUME NEW n \in 0 .. N PROVE total(n) = After(n).total
  <2>1. CASE n = 0
    BY <2>1, RequestFacts DEF Completed, After
  <2>2. CASE n # 0
    <3>1. Page!Composed(Asked, n) = [ok |-> TRUE, why |-> "ErrBadCurrency", inv |-> After(n)]
      BY <1>1, ComposedAfter DEF Completed, Kept
    <3>2. Page!Outcomes(Asked)[n] = Page!Composed(Asked, n)
      BY <1>1, AskedFields, OutcomesAre
    <3> HIDE DEF Asked
    <3> QED
      BY <2>2, <3>1, <3>2
  <2> QED
    BY <2>1, <2>2
<1>3. ASSUME NEW k \in 1 .. N PROVE Page!Wrap(total(k) - total(k - 1)) = effects[k]
  <2>1. k \in 0 .. N /\ k - 1 \in 0 .. N
    BY <1>1
  <2>2. After(k).total - After(k - 1).total \in Int64
    BY <1>1 DEF Completed, History, Grounded
  <2>3. total(k) - total(k - 1) = After(k).total - After(k - 1).total
    <3> HIDE DEF total
    <3> QED
      BY <1>2, <2>1
  <2>4. Page!Wrap(After(k).total - After(k - 1).total) = After(k).total - After(k - 1).total
    BY <2>2, OneWrap, WrapIsExact
  <2> HIDE DEF total
  <2> QED
    BY <1>1, <2>3, <2>4
<1>4. EffectsOn(Asked) = [k \in 1 .. Len(Asked.steps) |-> Page!Wrap(total(k) - total(k - 1))]
  BY DEF EffectsOn, Page!StepEffects
<1>5. effects = [k \in 1 .. N |-> effects[k]]
  BY <1>1
<1> HIDE DEF total
<1> QED
  BY <1>3, <1>4, <1>5, AskedFields

UpToOf(e, k) == SubSeq(e, 1, k)

\* A sum that wraps, of effects that are those of totals in range.
LEMMA RunningIs ==
    ASSUME NEW k \in Nat, NEW e, NEW seq, seq = UpToOf(e, k), seq \in [1 .. k -> Int],
           NEW t \in [0 .. k -> Int64], t[0] = 0,
           \A j \in 1 .. k : seq[j] = t[j] - t[j - 1]
    PROVE  Page!Running(e, k) = t[k]
<1> DEFINE Body(f) == [s \in SUBSET (1 .. k) |->
                        IF s = {} THEN 0 ELSE Wrap(f[s \ {Max(s)}] + seq[Max(s)])]
           iter == CHOOSE f : f = Body(f)
           step == [x \in (1 .. k) \X Int |-> Wrap(x[2] + seq[x[1]])]
<1>1. DOMAIN seq = 1 .. k
  OBVIOUS
<1>2. Page!Running(e, k) = iter[1 .. k]
  <2> DEFINE sub == UpToOf(e, k)
  <2>1. DOMAIN sub = 1 .. k
    BY <1>1
  <2>2. Page!Running(e, k)
          = LET it == CHOOSE f : f = [s \in SUBSET (1 .. k) |->
                         IF s = {} THEN 0 ELSE Wrap(f[s \ {Max(s)}] + sub[Max(s)])]
            IN  it[1 .. k]
    BY <2>1, Zenon DEF UpToOf, Page!Running, Page!FoldLeft, Page!MapThenFoldSet, Page!Max, Max,
                       Page!Wrap, Wrap, Page!MinInt, MinInt
  <2>3. sub = seq
    OBVIOUS
  <2> HIDE DEF sub
  <2> QED
    BY <2>2, <2>3
<1>3. \A x \in Int : Wrap(x) \in Int
  BY MaxIntAssumption DEF Wrap, MinInt
<1>4. step \in [(1 .. k) \X Int -> Int] /\ 0 \in Int
  <2>1. ASSUME NEW x \in (1 .. k) \X Int PROVE Wrap(x[2] + seq[x[1]]) \in Int
    <3>1. x[1] \in 1 .. k /\ x[2] \in Int /\ seq[x[1]] \in Int
      OBVIOUS
    <3> QED
      BY <1>3, <3>1
  <2> QED
    BY <2>1
<1>5. PICK f \in [SUBSET (1 .. k) -> Int] : FoldsBy(f, k, 0, step)
  <2> HIDE DEF step
  <2> QED
    BY <1>4, FoldDefined
<1>6. f = Body(f)
  <2> SUFFICES ASSUME NEW s \in SUBSET (1 .. k), s # {}
               PROVE f[s] = Wrap(f[s \ {Max(s)}] + seq[Max(s)])
    BY <1>5 DEF FoldsBy
  <2>1. Max(s) \in 1 .. k
    BY MaxIn
  <2>2. <<Max(s), f[s \ {Max(s)}]>> \in (1 .. k) \X Int
    BY <2>1
  <2> QED
    BY <1>5, <2>2 DEF FoldsBy
<1>7. iter = Body(iter)
  <2> HIDE DEF Body
  <2> QED
    BY <1>6
<1> HIDE DEF iter
<1> DEFINE X == {j \in 0 .. k : iter[1 .. j] = t[j]}
<1>8. 0 \in X
  <2>1. 1 .. 0 = {} /\ {} \in SUBSET (1 .. k)
    OBVIOUS
  <2> QED
    BY <1>7, <2>1
<1>9. ASSUME NEW j \in 0 .. k, j < k, j \in X PROVE j + 1 \in X
  <2>1. j + 1 \in 1 .. k /\ j + 1 \in 0 .. k /\ (j + 1) - 1 = j /\ j + 1 \in Nat \ {0}
    BY <1>9
  <2>2. Max(1 .. j + 1) = j + 1
    BY <2>1, MaxOfPrefix
  <2>3. (1 .. j + 1) \ {j + 1} = 1 .. j /\ 1 .. j + 1 # {}
    <3>1. j \in Nat
      OBVIOUS
    <3> QED
      BY <3>1, OneMore
  <2>4. 1 .. j + 1 \in SUBSET (1 .. k)
    BY <2>1, PrefixIn
  <2>5. iter[1 .. j + 1] = Wrap(iter[1 .. j] + seq[j + 1])
    <3>1. \A s \in SUBSET (1 .. k) : s # {} => iter[s] = Wrap(iter[s \ {Max(s)}] + seq[Max(s)])
      BY <1>7
    <3>2. iter[1 .. j + 1] = Wrap(iter[(1 .. j + 1) \ {Max(1 .. j + 1)}] + seq[Max(1 .. j + 1)])
      BY <2>3, <2>4, <3>1
    <3> QED
      BY <2>2, <2>3, <3>2
  <2>6. t[j] + seq[j + 1] = t[j + 1] /\ t[j + 1] \in Int64
    <3>1. t[j] \in Int64 /\ t[j + 1] \in Int64 /\ seq[j + 1] = t[j + 1] - t[j]
      BY <2>1
    <3>2. t[j] \in Int /\ t[j + 1] \in Int
      BY <3>1, MaxIntAssumption DEF Int64, MinInt
    <3> QED
      BY <3>1, <3>2
  <2>7. Wrap(t[j + 1]) = t[j + 1]
    BY <2>6, WrapIsExact
  <2> QED
    BY <1>9, <2>1, <2>5, <2>6, <2>7
<1> HIDE DEF X
<1>10. 0 .. k \subseteq X
  BY <1>8, <1>9, UpTo
<1>11. k \in X
  BY <1>10
<1> QED
  BY <1>2, <1>11 DEF X

LEMMA RunningIsTheTotal ==
    ASSUME Completed, NEW k \in 1 .. N
    PROVE  Page!Running(effects, k) = After(k).total
<1> DEFINE seq == SubSeq(effects, 1, k)
           t == [j \in 0 .. k |-> After(j).total]
<1>1. /\ N \in Nat /\ Len(after) = N /\ effects \in Seq(Int) /\ Len(effects) = N /\ k \in Nat
      /\ \A i \in 1 .. N : effects[i] = After(i).total - After(i - 1).total
  BY RequestFacts DEF Completed, Kept, EffectsSoFar
<1>2. seq \in [1 .. k -> Int] /\ \A j \in 1 .. k : seq[j] = effects[j]
  <2>1. k <= N
    BY <1>1
  <2>2. seq = [j \in 1 .. k |-> effects[j]]
    BY <1>1, <2>1
  <2>3. \A j \in 1 .. k : effects[j] \in Int
    BY <1>1, <2>1
  <2> HIDE DEF seq
  <2> QED
    BY <2>2, <2>3
<1>3. \A j \in 0 .. k : j \in 0 .. Len(after)
  BY <1>1
<1>4. t \in [0 .. k -> Int64]
  BY <1>3, TotalsAfter DEF Completed, Kept
<1>5. t[0] = 0
  BY <1>1, RequestFacts DEF Completed, After
<1>6. \A j \in 1 .. k : seq[j] = t[j] - t[j - 1]
  <2> SUFFICES ASSUME NEW j \in 1 .. k PROVE seq[j] = t[j] - t[j - 1]
    OBVIOUS
  <2>1. j \in 0 .. k /\ j - 1 \in 0 .. k /\ j \in 1 .. N
    BY <1>1
  <2>2. t[j] = After(j).total /\ t[j - 1] = After(j - 1).total
    BY <2>1
  <2> HIDE DEF seq, t
  <2> QED
    BY <1>1, <1>2, <2>1, <2>2
<1>7. Page!Running(effects, k) = t[k]
  <2>1. seq = UpToOf(effects, k)
    BY DEF UpToOf
  <2>2. k \in Nat /\ seq \in [1 .. k -> Int]
    BY <1>1, <1>2
  <2> HIDE DEF seq, t
  <2> QED
    BY <1>4, <1>5, <1>6, <2>1, <2>2, RunningIs
<1>8. t[k] = After(k).total
  BY <1>1
<1> QED
  BY <1>7, <1>8

LEMMA RunningTextIs ==
    ASSUME Completed, NEW k \in 1 .. N
    PROVE  Page!Amount(Page!Running(effects, k)).text = Format(After(k).total, Scale)
<1>1. \A m : Page!Amount(m).text = Format(m, Scale)
  BY Zenon DEF Page!Amount, Page!Format, Format, Page!Quo, Quo, Page!Mod, Mod,
               Page!Wrap, Wrap, Page!MinInt, MinInt
<1> QED
  BY <1>1, RunningIsTheTotal

\* What the page tells of a composition.
PageTold(q) ==
    [total |-> Page!Amount(Page!Composed(q, Len(q.steps)).inv.total),
     subtotal |-> Page!Amount(Page!Composed(q, Len(q.steps)).inv.subtotal),
     steps |-> [k \in 1 .. Len(q.steps) |->
                  [effect  |-> Page!Amount(EffectsOn(q)[k]),
                   running |-> Page!Amount(Page!Running(EffectsOn(q), k)),
                   balance |-> Page!BalanceLeft(q, Page!Composed(q, Len(q.steps)).inv, k)]]]

\* The calls of Compose, over all steps and over each prefix.
Compositions(q) ==
    <<CompositionOf(q, Len(q.steps)),
      Page!Joined([n \in 1 .. Len(q.steps) |-> CompositionOf(q, n)], EffectsOn(q))>>

ComposedOn(q) == Page!Concluded(Compositions(q), Page!Answer(PageTold(q)))

PageParts(q) == <<Page!Unmarshal(q.body), Page!CapSteps(q.steps),
                  Page!ToCurrency(q.currency), Page!ParseSteps(q.steps)>>

LEMMA PageComposes ==
    ASSUME NEW q, q.endpoint = "compose", Len(q.steps) \in Nat
    PROVE  Page!Handle(q) = Page!Concluded(PageParts(q), ComposedOn(q))
<1> DEFINE number   == Len(q.steps)
           outcomes == Page!Outcomes(q)
           whole    == Page!Composed(q, number)
           prefixes == [n \in 1 .. number |-> CompositionOf(q, n)]
           effects_ == EffectsOn(q)
<1>1. Page!Handle(q) = Page!HandleCompose(q)
  BY DEF Page!Handle
<1>2. Page!HandleCompose(q) = Page!Concluded(PageParts(q), Page!Responded(q, outcomes))
  BY Zenon DEF Page!HandleCompose, PageParts
<1>3. outcomes[number] = whole
  BY OutcomesAre
<1>4. [n \in 1 .. number |-> Page!Invoiced(outcomes[n])] = prefixes
  <2>1. ASSUME NEW n \in 1 .. number PROVE Page!Invoiced(outcomes[n]) = CompositionOf(q, n)
    BY OutcomesAre DEF CompositionOf
  <2> HIDE DEF outcomes
  <2> QED
    BY <2>1
<1>5. Page!Responded(q, outcomes)
        = Page!Concluded(<<Page!Invoiced(outcomes[number]),
                           Page!Joined([n \in 1 .. number |-> Page!Invoiced(outcomes[n])],
                                       effects_)>>,
            Page!Answer(Page!ComposeResponse(q, outcomes[number].inv, effects_)))
  BY Zenon DEF Page!Responded, EffectsOn
<1>6. Page!Responded(q, outcomes)
        = Page!Concluded(<<Page!Invoiced(whole), Page!Joined(prefixes, effects_)>>,
            Page!Answer(Page!ComposeResponse(q, whole.inv, effects_)))
  <2> HIDE DEF outcomes, number, whole, prefixes, effects_
  <2> QED
    BY <1>3, <1>4, <1>5, Zenon
<1>7. Page!ComposeResponse(q, whole.inv, effects_) = PageTold(q)
  BY Zenon DEF Page!ComposeResponse, PageTold
<1>8. <<Page!Invoiced(whole), Page!Joined(prefixes, effects_)>> = Compositions(q)
  BY Zenon DEF Compositions, CompositionOf
<1>9. Page!Responded(q, outcomes) = ComposedOn(q)
  <2> HIDE DEF outcomes, number, whole, prefixes, effects_
  <2> QED
    BY <1>6, <1>7, <1>8, Zenon DEF ComposedOn
<1> QED
  BY <1>1, <1>2, <1>9

\* A composition is refused by the name of what it fails with.
LEMMA CompositionRefuses ==
    ASSUME NEW q, NEW n \in Nat, ~CompositionOf(q, n).ok
    PROVE  /\ CompositionOf(q, n).answer = Page!ErrObj(Page!ErrCode(Page!Composed(q, n).why))
           /\ CompositionOf(q, n).answer.code
                = Service!ErrorTable[Page!Composed(q, n).why]
           /\ CompositionOf(q, n).answer.field = "none"
           /\ CompositionOf(q, n).answer.code \notin {"error", "ok"}
<1>1. CompositionOf(q, n) = Page!Refused(Page!ErrObj(Page!ErrCode(Page!Composed(q, n).why)))
  BY DEF CompositionOf, Page!Invoiced, Page!Parsed
<1>2. Page!Composed(q, n).why \in DOMAIN Service!ErrorTable
  BY ComposedIsFolded DEF Folded
<1>3. CompositionOf(q, n).answer = Page!ErrObj(Page!ErrCode(Page!Composed(q, n).why))
  BY <1>1 DEF Page!Refused
<1> QED
  BY <1>2, <1>3, CodesAreTheTable DEF Page!ErrObj

LEMMA CompositionsConclude ==
    ASSUME NEW q, Len(q.steps) \in Nat
    PROVE  ComposedOn(q).code # "error"
<1>1. PICK parts : parts = Compositions(q)
  OBVIOUS
<1>2. PICK number \in Nat : number = Len(q.steps)
  OBVIOUS
<1>3. PICK prefixes : prefixes = [n \in 1 .. number |-> CompositionOf(q, n)]
  OBVIOUS
<1>4. /\ DOMAIN parts = 1 .. 2 /\ parts[1] = CompositionOf(q, number)
      /\ parts[2] = Page!Joined(prefixes, EffectsOn(q))
  BY <1>1, <1>2, <1>3 DEF Compositions
<1>5. CASE \A k \in 1 .. 2 : parts[k].ok
  <2>1. ComposedOn(q) = Page!Answer(PageTold(q))
    BY <1>1, <1>4, <1>5, AllUnderstood DEF ComposedOn
  <2> QED
    BY <2>1 DEF Page!Answer
<1>6. CASE \E k \in 1 .. 2 : ~parts[k].ok
  <2>1. PICK two \in Nat : two = 2 /\ DOMAIN parts = 1 .. two /\ \E k \in 1 .. two : ~parts[k].ok
    BY <1>4, <1>6
  <2>2. PICK k \in 1 .. two : /\ ~parts[k].ok
                              /\ \A last : Page!Concluded(parts, last) = parts[k].answer
    BY <2>1, TheFirst
  <2>3. ComposedOn(q) = parts[k].answer
    BY <1>1, <2>2 DEF ComposedOn
  <2>4. CASE k = 1
    BY <1>4, <2>2, <2>3, <2>4, CompositionRefuses
  <2>5. CASE k = 2
    <3>1. ~\A n \in DOMAIN prefixes : prefixes[n].ok
      BY <1>4, <2>2, <2>5, JoinedIs
    <3>2. DOMAIN prefixes = 1 .. number
      BY <1>3
    <3>3. PICK n \in 1 .. number :
            /\ ~prefixes[n].ok
            /\ \A last : Page!Concluded(prefixes, last) = prefixes[n].answer
      BY <3>1, <3>2, TheFirst
    <3>4. parts[2].answer = prefixes[n].answer
      BY <1>4, <3>1, <3>3, JoinedIs
    <3>5. prefixes[n] = CompositionOf(q, n) /\ n \in Nat
      BY <1>3
    <3> QED
      BY <2>3, <2>5, <3>3, <3>4, <3>5, CompositionRefuses
  <2> QED
    BY <2>1, <2>4, <2>5
<1> QED
  BY <1>5, <1>6

\* The page refuses what the handler refuses, by the same name.
LEMMA RefusedByBoth ==
    ASSUME request \in Requests, History, Parses, Rejected
    PROVE  /\ ComposedOn(Asked).code = RefusedWith.code
           /\ ComposedOn(Asked).field = RefusedWith.field
           /\ RefusedWith.status # 500
           /\ RefusedWith.code # "ok"
<1>1. PICK why : why = Page!Composed(Asked, N).why
  OBVIOUS
<1>2. N \in Nat /\ Len(Asked.steps) = N
  BY RequestFacts, AskedFields
<1> HIDE DEF Asked
<1>3. ~Page!Composed(Asked, N).ok /\ RefusedWith = Service!MapError(why)
  BY <1>1, ComposedFails
<1>4. why \in DOMAIN Service!ErrorTable
  BY <1>1, <1>2, ComposedIsFolded DEF Folded
<1>5. /\ RefusedWith.code = Service!ErrorTable[why] /\ RefusedWith.field = "none"
      /\ RefusedWith.status = 400
  BY <1>3, <1>4 DEF Service!MapError, Service!Refusal
<1>6. ~CompositionOf(Asked, N).ok
  BY <1>3 DEF CompositionOf, Page!Invoiced, Page!Refused
<1>7. ComposedOn(Asked) = CompositionOf(Asked, N).answer
  <2>1. PICK parts : parts = Compositions(Asked)
    OBVIOUS
  <2>2. DOMAIN parts = 1 .. 2 /\ parts[1] = CompositionOf(Asked, N)
    BY <1>2, <2>1 DEF Compositions
  <2>3. PICK two \in Nat : two = 2 /\ DOMAIN parts = 1 .. two
    BY <2>2
  <2>4. PICK one \in 1 .. two : one = 1
    BY <2>3
  <2>5. ~parts[one].ok /\ \A j \in 1 .. one - 1 : parts[j].ok
    BY <1>6, <2>2, <2>4
  <2>6. \A last : Page!Concluded(parts, last) = parts[one].answer
    BY <2>3, <2>5, FirstRefusal
  <2> QED
    BY <2>1, <2>2, <2>4, <2>6 DEF ComposedOn
<1> QED
  BY <1>1, <1>2, <1>4, <1>5, <1>6, <1>7, CompositionRefuses, CodesAreTheTable

\* What the page tells of the request that the handler has completed.
LEMMA ToldByBoth ==
    ASSUME Completed
    PROVE  /\ ComposedOn(Asked) = Page!Answer(PageTold(Asked))
           /\ PageTold(Asked)
                = [total |-> Page!Amount(invoice.total),
                   subtotal |-> Page!Amount(invoice.subtotal),
                   steps |-> [k \in 1 .. N |->
                     [effect  |-> Page!Amount(effects[k]),
                      running |-> Page!Amount(Page!Running(effects, k)),
                      balance |-> IF request.steps[k].type \in Draws
                                  THEN Page!Amount(shown[k]) ELSE Nil]]]
<1>1. /\ N \in Nat /\ Len(after) = N /\ invoice = After(N) /\ Parses
      /\ shown = [b \in Balances |-> Wrap(Fresh[b] - After(N).draws[b])]
  BY RequestFacts DEF Completed, Kept, Accepted
<1>2. \A n \in 0 .. N : Page!Composed(Asked, n).ok /\ Page!Composed(Asked, n).inv = After(n)
  <2> SUFFICES ASSUME NEW n \in 0 .. N
               PROVE  Page!Composed(Asked, n).ok /\ Page!Composed(Asked, n).inv = After(n)
    OBVIOUS
  <2>1. Page!Composed(Asked, n) = [ok |-> TRUE, why |-> "ErrBadCurrency", inv |-> After(n)]
    BY <1>1, ComposedAfter DEF Completed, Kept
  <2> HIDE DEF Asked
  <2> QED
    BY <2>1
<1>3. Len(Asked.steps) = N /\ Asked.steps = request.steps
  BY AskedFields
<1>4. EffectsOn(Asked) = effects
  BY EffectsOnThePage
<1>5. ASSUME NEW k \in 1 .. N
      PROVE  Page!BalanceLeft(Asked, After(N), k)
               = IF request.steps[k].type \in Draws THEN Page!Amount(shown[k]) ELSE Nil
  <2>1. k \in Balances
    BY <1>1, WhatParses, BalancesAssumption DEF Completed
  <2>2. request.steps[k].type \in Draws => Fresh[k] = request.steps[k].balance
    BY <2>1, FreshBalances DEF Completed
  <2>3. shown[k] = Wrap(Fresh[k] - After(N).draws[k])
    BY <1>1, <2>1
  <2> HIDE DEF Asked
  <2> QED
    BY <1>3, <2>2, <2>3, OneWrap DEF Page!BalanceLeft, Draws
<1> HIDE DEF Asked
<1>6. ComposedOn(Asked) = Page!Answer(PageTold(Asked))
  <2>1. PICK parts : parts = Compositions(Asked)
    OBVIOUS
  <2>2. PICK prefixes : prefixes = [n \in 1 .. N |-> CompositionOf(Asked, n)]
    OBVIOUS
  <2>3. /\ DOMAIN parts = 1 .. 2 /\ parts[1] = CompositionOf(Asked, N)
        /\ parts[2] = Page!Joined(prefixes, EffectsOn(Asked))
    <3>1. Compositions(Asked)
            = <<CompositionOf(Asked, N),
                Page!Joined([n \in 1 .. N |-> CompositionOf(Asked, n)],
                            EffectsOn(Asked))>>
      BY <1>3, Zenon DEF Compositions
    <3> QED
      BY <2>1, <2>2, <3>1
  <2>4. \A n \in 0 .. N : CompositionOf(Asked, n).ok
    BY <1>2 DEF CompositionOf, Page!Invoiced, Page!Parsed
  <2>5. \A n \in DOMAIN prefixes : prefixes[n].ok
    BY <1>1, <2>2, <2>4
  <2>6. parts[1].ok /\ parts[2].ok
    BY <1>1, <2>3, <2>4, <2>5, JoinedIs
  <2>7. \A k \in DOMAIN parts : parts[k].ok
    BY <2>3, <2>6
  <2> QED
    BY <2>1, <2>7, AllUnderstood DEF ComposedOn
<1>7. PageTold(Asked)
        = [total |-> Page!Amount(After(N).total), subtotal |-> Page!Amount(After(N).subtotal),
           steps |-> [k \in 1 .. N |->
             [effect  |-> Page!Amount(effects[k]),
              running |-> Page!Amount(Page!Running(effects, k)),
              balance |-> Page!BalanceLeft(Asked, After(N), k)]]]
  <2>1. Page!Composed(Asked, N).inv = After(N)
    BY <1>1, <1>2
  <2> QED
    BY <1>3, <1>4, <2>1, Zenon DEF PageTold
<1> QED
  BY <1>1, <1>5, <1>6, <1>7

-----------------------------------------------------------------------------
(***************************************************************************)
(* The two answers to a composition.                                       *)
(***************************************************************************)
\* The parts of a request are read alike.
LEMMA RequestsPair ==
    ASSUME request \in Requests, NEW ps, ps = PageParts(Asked)
    PROVE  /\ DOMAIN ps = 1 .. 4 /\ DOMAIN Parts = 1 .. 4
           /\ ps[1] = Page!Unmarshal(Asked.body) /\ Parts[1] = Service!DecodeBody(Asked.body)
           /\ \A k \in 2 .. 4 : RefusedAlike(ps[k], Parts[k])
<1>1. /\ DOMAIN ps = 1 .. 4 /\ ps[1] = Page!Unmarshal(Asked.body)
      /\ ps[2] = Page!CapSteps(request.steps) /\ ps[3] = Page!ToCurrency(request.currency)
      /\ ps[4] = Page!ParseSteps(request.steps)
  <2> HIDE DEF Asked
  <2> QED
    BY AskedFields DEF PageParts
<1>2. /\ DOMAIN Parts = 1 .. 4 /\ Parts[1] = Service!DecodeBody(Asked.body)
      /\ Parts[2] = CapSteps /\ Parts[3] = Service!ToCurrency(request.currency)
      /\ Parts[4] = ParseSteps
  <2> HIDE DEF Asked
  <2> QED
    BY AskedFields DEF Parts
<1>3. RefusedAlike(Page!CapSteps(request.steps), CapSteps)
  BY BothRefuse, BothParse
  DEF Page!CapSteps, CapSteps, N, RefusedAlike, Akin, Page!Parsed, Service!Parsed
<1>4. RefusedAlike(Page!ToCurrency(request.currency), Service!ToCurrency(request.currency))
  BY CurrenciesAkin DEF Akin
<1>5. RefusedAlike(Page!ParseSteps(request.steps), ParseSteps)
  <2>1. PICK steps : steps = [i \in DOMAIN request.steps |-> Page!ParseStep(request.steps[i])]
    OBVIOUS
  <2>2. Page!ParseSteps(request.steps) = Page!Joined(steps, request.steps)
    BY <2>1, Zenon DEF Page!ParseSteps
  <2> QED
    BY <2>1, <2>2, StepsAlike
<1> QED
  BY <1>1, <1>2, <1>3, <1>4, <1>5

LEMMA RepliesTell ==
    ASSUME Completed, call = Asked
    PROVE  Tells(PageTold(Asked), Reply)
<1>1. PICK seen : seen = [k \in 1 .. N |->
                     [effect  |-> Page!Amount(effects[k]),
                      running |-> Page!Amount(Page!Running(effects, k)),
                      balance |-> IF request.steps[k].type \in Draws
                                  THEN Page!Amount(shown[k]) ELSE Nil]]
  OBVIOUS
<1>2. PICK told : told = [k \in 1 .. N |->
                     [effect  |-> Service!Amount(effects[k]),
                      balance |-> IF request.steps[k].type \in Draws
                                  THEN Service!Amount(shown[k]) ELSE Nil]]
  OBVIOUS
<1>3. SameSteps(seen, told)
  <2>1. call.steps = request.steps
    BY AskedFields
  <2> QED
    BY <1>1, <1>2, <2>1, AmountsAlike DEF SameSteps
<1>4. PageTold(Asked) = [total |-> Page!Amount(invoice.total),
                         subtotal |-> Page!Amount(invoice.subtotal), steps |-> seen]
  BY <1>1, ToldByBoth
<1>5. Reply = [subtotal |-> Service!Amount(invoice.subtotal),
               total |-> Service!Amount(invoice.total), steps |-> told]
  BY <1>2, Zenon DEF Reply
<1>6. PICK page : page = PageTold(Asked)
  OBVIOUS
<1>7. page.total = Page!Amount(invoice.total) /\ page.subtotal = Page!Amount(invoice.subtotal)
      /\ page.steps = seen
  BY <1>4, <1>6
<1>8. /\ DOMAIN Reply = {"subtotal", "total", "steps"}
      /\ Reply.total = Service!Amount(invoice.total)
      /\ Reply.subtotal = Service!Amount(invoice.subtotal) /\ Reply.steps = told
  BY <1>5
<1>9. Tells(page, Reply)
  BY <1>3, <1>7, <1>8, AmountsAlike DEF Tells
<1> QED
  BY <1>6, <1>9

\* A request that is answered, as both read it part by part; tariffd's answer
\* is "ok" of a completed one alone.
LEMMA ComposeIsPaired ==
    ASSUME ServiceInv, phase = "answered", call = Asked
    PROVE  \E sl : /\ Paired(Asked, 4, PageParts(Asked), ComposedOn(Asked), Parts, sl)
                   /\ answer = Service!Concluded(Parts, sl)
                   /\ answer.code = "ok" => Completed
<1>1. PICK ps : ps = PageParts(Asked)
  OBVIOUS
<1>2. request \in Requests /\ History /\ EffectsSoFar
  BY DEF ServiceInv
<1>3. /\ DOMAIN ps = 1 .. 4 /\ DOMAIN Parts = 1 .. 4
      /\ ps[1] = Page!Unmarshal(Asked.body) /\ Parts[1] = Service!DecodeBody(Asked.body)
      /\ \A k \in 2 .. 4 : RefusedAlike(ps[k], Parts[k])
  BY <1>1, <1>2, RequestsPair
<1>4. ComposedOn(Asked).code # "error"
  BY <1>2, RequestFacts, AskedFields, CompositionsConclude
<1>5. (\A k \in 1 .. 4 : ps[k].ok /\ Parts[k].ok) => Parses
  BY <1>3 DEF Parses
<1>6. \A k \in 2 .. 4 : /\ ~ps[k].ok => ps[k].answer.code = "invalid_argument"
                        /\ ~Parts[k].ok => Rejects(Parts[k])
  BY <1>3 DEF RefusedAlike, Rejects
<1>7. ASSUME NEW sl, sl.status # 500,
             Parses => /\ ComposedOn(Asked).code = sl.code /\ ComposedOn(Asked).field = sl.field
                       /\ ComposedOn(Asked).code = "ok" => Tells(ComposedOn(Asked).value, sl.value)
      PROVE  Paired(Asked, 4, ps, ComposedOn(Asked), Parts, sl)
  <2>1. PICK pl : pl = ComposedOn(Asked)
    OBVIOUS
  <2> HIDE DEF Asked
  <2> QED
    BY <1>3, <1>4, <1>5, <1>6, <1>7, <2>1 DEF Paired
<1>8. CASE answer.status # 200
  <2>1. answer = Service!Concluded(Parts, RefusedWith) /\ Rejected
    BY <1>8, StatusOf
  <2>2. RefusedWith.status # 500
    BY FailureNamed, SentinelsListed DEF RefusedWith, Service!MapError, Service!Refusal
  <2>3. Parses => /\ ComposedOn(Asked).code = RefusedWith.code
                  /\ ComposedOn(Asked).field = RefusedWith.field
                  /\ RefusedWith.code # "ok"
    BY <1>2, <2>1, RefusedByBoth
  <2>4. Paired(Asked, 4, ps, ComposedOn(Asked), Parts, RefusedWith)
    BY <1>7, <2>2, <2>3
  <2>5. answer.code # "ok"
    <3>1. CASE Parses
      BY <2>1, <2>3, <3>1, RefusesWith
    <3>2. CASE ~Parses
      <4>1. PICK k \in 1 .. 4 : /\ ~Parts[k].ok
                                /\ \A last : Service!Concluded(Parts, last) = Parts[k].answer
        BY <3>2, OnePartRefuses
      <4>2. CASE k = 1
        <5>1. Asked.body \in Bodies
          BY <1>2, BodiesAssumption, AskedFields
        <5>2. Parts[1].answer.code \in {"invalid_body", "body_too_large"}
          BY <1>3, <4>1, <4>2, <5>1, BodiesRead
        <5> QED
          BY <2>1, <4>1, <4>2, <5>2
      <4>3. CASE k \in 2 .. 4
        BY <1>6, <2>1, <4>1, <4>3 DEF Rejects
      <4> QED
        BY <4>2, <4>3
    <3> QED
      BY <3>1, <3>2
  <2> QED
    BY <1>1, <2>1, <2>4, <2>5
<1>9. CASE answer.status = 200
  <2>1. answer = Service!Answer(Reply) /\ Kept /\ Len(effects) = N
    BY <1>9, StatusOf
  <2>2. Completed
    BY <1>2, <2>1 DEF Completed
  <2>3. ComposedOn(Asked) = Page!Answer(PageTold(Asked))
    BY <2>2, ToldByBoth
  <2>4. Tells(PageTold(Asked), Reply)
    BY <2>2, RepliesTell
  <2>5. Paired(Asked, 4, ps, ComposedOn(Asked), Parts, Service!Answer(Reply))
    BY <1>7, <2>3, <2>4 DEF Page!Answer, Service!Answer
  <2>6. \A k \in DOMAIN Parts : Parts[k].ok
    BY <2>1 DEF Kept, Accepted, Parses
  <2>7. answer = Service!Concluded(Parts, Service!Answer(Reply))
    BY <2>1, <2>6, AllUnderstood, OneConclusion
  <2> QED
    BY <1>1, <2>2, <2>5, <2>7
<1> QED
  BY <1>8, <1>9

\* Compose as it stands when the page has answered.
LEMMA ComposeAnswered ==
    ASSUME FrontInv, played # Pending, call.endpoint = "compose"
    PROVE  /\ ServiceInv /\ phase = "answered" /\ call = Asked
           /\ played = Page!Concluded(PageParts(Asked), ComposedOn(Asked))
           /\ call.body \in Bodies
           /\ served # Pending => served = answer
<1>1. ServiceInv /\ call = Asked
  BY EndpointOf DEF FrontInv
<1>2. played = Page!Handle(call) /\ phase = "answered"
  BY DEF FrontInv
<1>3. call.body \in Bodies
  BY <1>1, BodiesAssumption, AskedFields DEF ServiceInv
<1>4. served # Pending => served = answer
  BY DEF FrontInv
<1>5. Asked.endpoint = "compose"
  BY AskedFields
<1>6. Len(Asked.steps) \in Nat
  BY <1>1, RequestFacts, AskedFields DEF ServiceInv
<1> HIDE DEF Asked
<1> QED
  BY <1>1, <1>2, <1>3, <1>4, <1>5, <1>6, PageComposes

LEMMA ComposeIsCompared ==
    ASSUME FrontInv, played # Pending, call.endpoint = "compose"
    PROVE  /\ AgreeOn(call, played, answer)
           /\ answer.status # 500
           /\ played.code = "error" => call.body \in {"malformed", "second_value", "closed_twice"}
           /\ answer.code = "ok" => Completed
<1>1. /\ ServiceInv /\ phase = "answered" /\ call = Asked
      /\ played = Page!Concluded(PageParts(Asked), ComposedOn(Asked))
      /\ Asked.body \in Bodies
  BY ComposeAnswered
<1>2. PICK sl : /\ Paired(Asked, 4, PageParts(Asked), ComposedOn(Asked), Parts, sl)
                /\ answer = Service!Concluded(Parts, sl)
                /\ answer.code = "ok" => Completed
  BY <1>1, ComposeIsPaired
<1> HIDE DEF Asked
<1>3. AgreeOn(Asked, played, answer)
  BY <1>1, <1>2, PairedAgree
<1>4. /\ answer.status # 500
      /\ played.code = "error" => Asked.body \in {"malformed", "second_value", "closed_twice"}
  BY <1>1, <1>2, PairedNamed
<1> QED
  BY <1>1, <1>2, <1>3, <1>4

LEMMA FrontInvRuns == FrontInv => RunningTellsTheTotal
<1> SUFFICES ASSUME FrontInv, call.endpoint = "compose", played.code = "ok", served.code = "ok",
                    NEW i \in 1 .. N
             PROVE  played.value.steps[i].running.text = Format(After(i).total, Scale)
  BY DEF RunningTellsTheTotal
<1>1. played # Pending /\ served # Pending
  BY DEF Pending, Service!Refusal
<1>2. served = answer /\ Completed
  BY <1>1, ComposeAnswered, ComposeIsCompared
<1>3. played = Page!Answer(PageTold(Asked))
  <2>1. played = Page!Concluded(PageParts(Asked), ComposedOn(Asked))
    BY <1>1, ComposeAnswered
  <2>2. ComposedOn(Asked) = Page!Answer(PageTold(Asked))
    BY <1>2, ToldByBoth
  <2>3. PICK ps : ps = PageParts(Asked)
    OBVIOUS
  <2>4. \A k \in DOMAIN ps : ps[k].ok
    <3>1. /\ DOMAIN ps = 1 .. 4 /\ ps[1] = Page!Unmarshal(Asked.body)
          /\ \A k \in 2 .. 4 : RefusedAlike(ps[k], Parts[k])
      BY <1>2, <2>3, RequestsPair DEF Completed
    <3>2. \A k \in 1 .. 4 : Parts[k].ok
      BY <1>2, PartsAreFour DEF Completed, Kept, Accepted, Parses
    <3>3. ps[1].ok
      <4>1. Asked.body \in Bodies
        BY <1>1, ComposeAnswered
      <4>2. PICK k \in 1 .. 4 : k = 1
        OBVIOUS
      <4>3. \A last : ~ps[1].ok => Page!Concluded(ps, last) = ps[1].answer
        <5>1. PICK n \in Nat : n = 4 /\ DOMAIN ps = 1 .. n
          BY <3>1
        <5>2. PICK one \in 1 .. n : one = 1
          BY <5>1
        <5>3. \A j \in 1 .. one - 1 : ps[j].ok
          BY <5>2
        <5>4. ASSUME ~ps[one].ok, NEW last PROVE Page!Concluded(ps, last) = ps[one].answer
          BY <5>1, <5>3, <5>4, FirstRefusal
        <5> QED
          BY <5>2, <5>4
      <4>4. ~ps[1].ok => ps[1].answer.code = "error"
        BY <3>1, <4>1, BodiesRead
      <4> QED
        BY <2>1, <2>3, <4>3, <4>4
    <3> QED
      BY <3>1, <3>2, <3>3 DEF RefusedAlike
  <2> QED
    BY <2>1, <2>2, <2>3, <2>4, AllUnderstood
<1>4. PageTold(Asked).steps[i].running = Page!Amount(Page!Running(effects, i))
  <2>1. PICK steps : steps = [k \in 1 .. N |->
                      [effect  |-> Page!Amount(effects[k]),
                       running |-> Page!Amount(Page!Running(effects, k)),
                       balance |-> IF request.steps[k].type \in Draws
                                   THEN Page!Amount(shown[k]) ELSE Nil]]
    OBVIOUS
  <2>2. PageTold(Asked) = [total |-> Page!Amount(invoice.total),
                           subtotal |-> Page!Amount(invoice.subtotal), steps |-> steps]
    BY <1>2, <2>1, ToldByBoth
  <2>3. PageTold(Asked).steps = steps
    BY <2>2
  <2>4. steps[i].running = Page!Amount(Page!Running(effects, i))
    BY <2>1
  <2> QED
    BY <2>3, <2>4
<1> HIDE DEF Asked
<1>5. played.value = PageTold(Asked)
  BY <1>3 DEF Page!Answer
<1> QED
  BY <1>2, <1>4, <1>5, RunningTextIs

LEMMA FrontInvAgrees == FrontInv => FrontEndsAgree
<1> SUFFICES ASSUME FrontInv, played # Pending PROVE FrontEndsAgree
  BY DEF FrontEndsAgree
<1>1. played = Page!Handle(call)
  BY DEF FrontInv
<1>2. ASSUME served # Pending PROVE AgreeOn(call, played, served)
  <2>1. CASE call.endpoint = "compose"
    BY <1>2, <2>1, ComposeAnswered, ComposeIsCompared
  <2>2. CASE call.endpoint # "compose"
    <3>1. call.endpoint # "scenario" /\ served = Service!Handle(call)
      BY <1>2, <2>2 DEF FrontInv
    <3>2. IsCall(call)
      BY <2>2 DEF FrontInv, Asked
    <3> QED
      BY <1>1, <3>1, <3>2, AnswersToCalls
  <2> QED
    BY <2>1, <2>2
<1>3. served # Pending => AnswersAgree
  BY <1>2 DEF AgreeOn, AnswersAgree, Alike, Dated, DatedIn
<1>4. ASSUME call.endpoint = "proration", played.code = "ok"
      PROVE  played.value.fraction = Page!HandleFraction(Left).value.fraction
  <2>1. IsCall(call)
    BY <1>4 DEF FrontInv, Asked
  <2> QED
    BY <1>1, <1>4, <2>1, EchoIsTheFraction DEF Left
<1> QED
  BY <1>3, <1>4 DEF FrontEndsAgree

LEMMA FrontInvNames == FrontInv => EveryErrorIsNamed
<1> SUFFICES ASSUME FrontInv, played # Pending PROVE EveryErrorIsNamed
  BY DEF EveryErrorIsNamed
<1>1. played = Page!Handle(call)
  BY DEF FrontInv
<1>2. CASE call.endpoint = "compose"
  BY <1>2, ComposeAnswered, ComposeIsCompared DEF EveryErrorIsNamed
<1>3. CASE call.endpoint = "scenario"
  <2>1. served = Pending
    BY <1>3 DEF FrontInv
  <2> QED
    BY <1>1, <1>3, <2>1, ScenarioIsTold DEF EveryErrorIsNamed
<1>4. CASE call.endpoint \notin {"compose", "scenario"}
  <2>1. IsCall(call)
    BY <1>4 DEF FrontInv, Asked
  <2>2. served # Pending => served = Service!Handle(call)
    BY <1>4 DEF FrontInv
  <2> QED
    BY <1>1, <1>4, <2>1, <2>2, AnswersToCalls DEF EveryErrorIsNamed
<1> QED
  BY <1>2, <1>3, <1>4

-----------------------------------------------------------------------------
(***************************************************************************)
(* The boundaries that tariffd tells are those of CalendarProofs, whose    *)
(* theorems hold of them: one more pair of twins.                          *)
(***************************************************************************)
Billing ==
    INSTANCE CalendarProofs
      WITH Cycles <- {}, cycle <- Nil, now <- 0, next <- 0, aligned <- 0

\* DateOf of the calendar.
BilledYear(day, years) ==
    CHOOSE y \in years : Billing!YearStart(y) <= day /\ day < Billing!YearStart(y + 1)
BilledMonth(day, year) ==
    CHOOSE m \in 1 .. 12 :
      Billing!DayOf(year, m, 1) <= day /\ day < Billing!DayOf(year, m + 1, 1)

LEMMA BilledDayOf ==
    ASSUME NEW y, NEW m, NEW d
    PROVE  Service!Cycles!DayOf(y, m, d) = Billing!DayOf(y, m, d)
  BY ZenonT(60)
  DEF Service!Cycles!YearStart, Billing!YearStart, Service!Cycles!LeapsBefore,
      Billing!LeapsBefore, Service!Cycles!DayOf, Billing!DayOf, Service!Cycles!IsLeap,
      Billing!IsLeap, Service!Cycles!DaysBeforeMonth, Billing!DaysBeforeMonth

LEMMA BilledYearIs ==
    ASSUME NEW day, NEW years
    PROVE  ServiceYear(day, years) = BilledYear(day, years)
  BY ZenonT(60)
  DEF ServiceYear, BilledYear, Service!Cycles!YearStart, Billing!YearStart,
      Service!Cycles!LeapsBefore, Billing!LeapsBefore

LEMMA BilledMonthIs ==
    ASSUME NEW day, NEW year
    PROVE  ServiceMonth(day, year) = BilledMonth(day, year)
<1>1. \A m : /\ Service!Cycles!DayOf(year, m, 1) = Billing!DayOf(year, m, 1)
            /\ Service!Cycles!DayOf(year, m + 1, 1) = Billing!DayOf(year, m + 1, 1)
  BY BilledDayOf
<1> QED
  BY <1>1, ZenonT(60) DEF ServiceMonth, BilledMonth

LEMMA BilledChosen ==
    ASSUME NEW day
    PROVE  /\ Service!Cycles!DateOf(day)
                = LET year  == ServiceYear(day, Near(day))
                      month == ServiceMonth(day, year)
                  IN  [year |-> year, month |-> month,
                       day |-> day - Service!Cycles!DayOf(year, month, 1) + 1]
           /\ Billing!DateOf(day)
                = LET year  == BilledYear(day, Near(day))
                      month == BilledMonth(day, year)
                  IN  [year |-> year, month |-> month,
                       day |-> day - Billing!DayOf(year, month, 1) + 1]
  BY DEF Service!Cycles!DateOf, ServiceYear, ServiceMonth, Billing!DateOf, BilledYear, BilledMonth,
         Near

LEMMA BilledDateOf ==
    ASSUME NEW day
    PROVE  Service!Cycles!DateOf(day) = Billing!DateOf(day)
  BY BilledDayOf, BilledYearIs, BilledMonthIs, BilledChosen

LEMMA BilledDate ==
    ASSUME NEW z, NEW t
    PROVE  Service!Cycles!Date(z, t) = Billing!Date(z, t)
  BY Zenon, BilledDateOf
  DEF Service!Cycles!Offset, Billing!Offset, Service!Cycles!Local, Billing!Local,
      Service!Cycles!Date, Billing!Date

LEMMA BilledInstant ==
    ASSUME NEW z, NEW d, NEW c
    PROVE  Service!Cycles!Instant(z, d, c) = Billing!Instant(z, d, c)
  BY Zenon
  DEF Service!Cycles!Offset, Billing!Offset, Service!Cycles!Instant, Billing!Instant,
      Service!Cycles!Cardinality, Billing!Cardinality

LEMMA BilledDaysInMonth ==
    ASSUME NEW y, NEW m
    PROVE  Service!Cycles!DaysInMonth(y, m) = Billing!DaysInMonth(y, m)
  BY Zenon, BilledDayOf, BilledDateOf DEF Service!Cycles!DaysInMonth, Billing!DaysInMonth

LEMMA BilledFloorDiv ==
    ASSUME NEW a, NEW b
    PROVE  /\ Service!Cycles!FloorDiv(a, b) = Billing!FloorDiv(a, b)
           /\ Service!Cycles!FloorMod(a, b) = Billing!FloorMod(a, b)
  BY Zenon
  DEF Service!Cycles!GoDiv, Billing!GoDiv, Service!Cycles!GoRem, Billing!GoRem,
      Service!Cycles!FloorDiv, Billing!FloorDiv, Service!Cycles!FloorMod, Billing!FloorMod

LEMMA BilledClock ==
    ASSUME NEW a, NEW b
    PROVE  Service!Cycles!Clock(a, b) = Billing!Clock(a, b)
  BY Zenon
  DEF Service!Cycles!Clock, Billing!Clock, Service!Cycles!Local, Billing!Local,
      Service!Cycles!Offset, Billing!Offset

LEMMA BilledAddCycles ==
    ASSUME NEW a, NEW z, NEW k, NEW u
    PROVE  Service!Cycles!AddCycles(a, z, k, u) = Billing!AddCycles(a, z, k, u)
  BY Zenon, BilledDate, BilledDaysInMonth, BilledInstant, BilledDayOf, BilledFloorDiv, BilledClock
  DEF Service!Cycles!AddCycles, Billing!AddCycles

LEMMA BilledEstimate ==
    ASSUME NEW a, NEW z, NEW k, NEW u
    PROVE  Service!Cycles!EstimateSteps(a, z, k, u) = Billing!EstimateSteps(a, z, k, u)
  BY Zenon, BilledDate DEF Service!Cycles!EstimateSteps, Billing!EstimateSteps

LEMMA BilledStepAfter ==
    ASSUME NEW a, NEW z, NEW f, NEW u
    PROVE  Service!Cycles!StepAfter(a, z, f, u) = Billing!StepAfter(a, z, f, u)
  BY BilledEstimate, BilledAddCycles DEF Service!Cycles!StepAfter, Billing!StepAfter

LEMMA BilledNext ==
    ASSUME NEW a, NEW z, NEW f, NEW u
    PROVE  Service!Cycles!NextBoundary(a, z, f, u) = Billing!NextBoundary(a, z, f, u)
  BY Zenon, BilledStepAfter, BilledAddCycles DEF Service!Cycles!NextBoundary, Billing!NextBoundary

LEMMA BilledCalendarNext ==
    ASSUME NEW z, NEW f, NEW u
    PROVE  Service!Cycles!NextCalendarBoundary(z, f, u) = Billing!NextCalendarBoundary(z, f, u)
  BY Zenon, BilledDate, BilledInstant, BilledNext, BilledDayOf
  DEF Service!Cycles!NextCalendarBoundary, Billing!NextCalendarBoundary, Service!Cycles!Local,
      Billing!Local, Service!Cycles!Offset, Billing!Offset

-----------------------------------------------------------------------------
(***************************************************************************)
(* A client that goes on from the boundary it was told: its next call is   *)
(* answered too, with the boundary of the next cycle.                      *)
(***************************************************************************)
\* A boundary call that tariffd answers.
Understood(q) == /\ Service!DecodeBody(q.body).ok
                 /\ Service!ParseUnit(q.unit).ok
                 /\ q.from.form = "timestamp"
                 /\ q.calendar \/ q.anchor.form = "timestamp"

LEMMA BoundaryTold ==
    ASSUME NEW q, q.endpoint = "boundary"
    PROVE  /\ Service!Handle(q).code = "ok" => Understood(q)
           /\ Understood(q) => /\ Service!Handle(q).code = "ok"
                               /\ Service!Handle(q).value.next = Service!NextOf(q)
<1> DEFINE parts == <<Service!DecodeBody(q.body), Service!ParseTime("from", q.from),
                      Service!ParseUnit(q.unit), Service!ParseAnchor(q)>>
           last == Service!Answer([next |-> Service!NextOf(q)])
           said == Service!Handle(q)
<1>1. said = Page!Concluded(parts, last)
  BY OneConclusion DEF Service!Handle, Service!HandleBoundary
<1>2. /\ Service!DecodeBody(q.body).ok \/ Service!DecodeBody(q.body).answer.code # "ok"
      /\ Service!ParseUnit(q.unit).ok \/ Service!ParseUnit(q.unit).answer.code # "ok"
  BY DEF Service!DecodeBody, Service!ParseUnit, Service!Parsed, Service!Refused,
         Service!Refusal, Service!Bad
<1>3. /\ Service!ParseTime("from", q.from).ok <=> q.from.form = "timestamp"
      /\ Service!ParseTime("from", q.from).ok
           \/ Service!ParseTime("from", q.from).answer.code # "ok"
  BY DEF Service!ParseTime, Service!Parsed, Service!Refused, Service!Refusal, Service!Bad
<1>4. /\ Service!ParseAnchor(q).ok <=> q.calendar \/ q.anchor.form = "timestamp"
      /\ Service!ParseAnchor(q).ok \/ Service!ParseAnchor(q).answer.code # "ok"
  BY DEF Service!ParseAnchor, Service!ParseTime, Service!Parsed, Service!Refused,
         Service!Refusal, Service!Bad
<1>5. /\ DOMAIN parts = 1 .. 4
      /\ parts[1] = Service!DecodeBody(q.body) /\ parts[2] = Service!ParseTime("from", q.from)
      /\ parts[3] = Service!ParseUnit(q.unit) /\ parts[4] = Service!ParseAnchor(q)
  OBVIOUS
<1>6. last.code = "ok" /\ last.value.next = Service!NextOf(q)
  BY DEF Service!Answer
<1> HIDE DEF parts, last, said
<1>7. Understood(q) <=> \A k \in 1 .. 4 : parts[k].ok
  <2>1. (\A k \in 1 .. 4 : parts[k].ok)
          <=> parts[1].ok /\ parts[2].ok /\ parts[3].ok /\ parts[4].ok
    <3>1. 1 .. 4 = {1, 2, 3, 4}
      OBVIOUS
    <3> QED
      BY <3>1
  <2> QED
    BY <1>3, <1>4, <1>5, <2>1 DEF Understood
<1>8. \A k \in 1 .. 4 : parts[k].ok \/ parts[k].answer.code # "ok"
  <2>1. 1 .. 4 = {1, 2, 3, 4}
    OBVIOUS
  <2> QED
    BY <1>2, <1>3, <1>4, <1>5, <2>1
<1>9. ASSUME Understood(q)
      PROVE  said.code = "ok" /\ said.value.next = Service!NextOf(q)
  BY <1>1, <1>5, <1>6, <1>7, <1>9, AllUnderstood
<1>10. ASSUME ~Understood(q) PROVE said.code # "ok"
  <2>1. PICK k \in 1 .. 4 : ~parts[k].ok /\ \A j \in 1 .. k - 1 : parts[j].ok
    BY <1>7, <1>10, SomeFirstRefusal
  <2>2. said = parts[k].answer
    <3>1. 4 \in Nat
      OBVIOUS
    <3> QED
      BY <1>1, <1>5, <2>1, <3>1, FirstRefusal
  <2> QED
    BY <1>8, <2>1, <2>2
<1> QED
  BY <1>9, <1>10 DEF said

\* Instants that are as far apart as two of the same clock are at whole seconds
\* both or neither.
LEMMA WholeSeconds ==
    ASSUME NEW x \in Int, NEW y \in Int, x % TicksPerDay = y % TicksPerDay,
           NEW n \in Int, NEW m \in Int, n - m = x - y, m % TicksPerSecond = 0
    PROVE  n % TicksPerSecond = 0
<1> DEFINE s == TicksPerSecond
           d == TicksPerDay
           e == d \div s
           p == x \div d
           q == y \div d
           r == m \div s
           rest == x % d
<1>1. s \in Nat \ {0} /\ d \in Nat \ {0} /\ d % s = 0
  BY ClockAssumption
<1> HIDE DEF s, d
<1>2. e \in Int /\ d = s * e
  <2>1. d \in Int
    BY <1>1
  <2> QED
    BY <1>1, <2>1, FloorDivision
<1>3. p \in Int /\ rest \in Int /\ x = d * p + rest
  BY <1>1, FloorDivision
<1>4. q \in Int /\ y = d * q + rest
  <2>1. rest = y % d
    BY DEF d
  <2> QED
    BY <1>1, <2>1, FloorDivision
<1>5. r \in Int /\ m = s * r
  <2>1. m % s = 0
    BY DEF s
  <2> QED
    BY <1>1, <2>1, FloorDivision
<1> HIDE DEF e, p, q, r, rest
<1> DEFINE k == e * (p - q) + r
<1>6. k \in Int
  BY <1>2, <1>3, <1>4, <1>5
<1>7. n = s * k + 0
  <2>1. n = m + d * (p - q)
    BY <1>1, <1>3, <1>4
  <2>2. d * (p - q) = s * (e * (p - q))
    BY <1>1, <1>2, <1>3, <1>4
  <2>3. s * k = s * (e * (p - q)) + s * r
    BY <1>1, <1>2, <1>3, <1>4, <1>5
  <2>4. d * (p - q) \in Int /\ s * r \in Int /\ s * k \in Int
    BY <1>1, <1>3, <1>4, <1>5, <1>6
  <2> HIDE DEF k
  <2> QED
    BY <1>5, <2>1, <2>2, <2>3, <2>4
<1> HIDE DEF k
<1>8. 0 \in 0 .. s - 1
  BY <1>1
<1>9. n % s = 0
  BY <1>1, <1>6, <1>7, <1>8, FloorUnique
<1> QED
  BY <1>9 DEF s

LEMMA NegatedSeconds ==
    ASSUME NEW o \in Int, o % TicksPerSecond = 0
    PROVE  (0 - o) % TicksPerSecond = 0
<1> DEFINE s == TicksPerSecond
           b == o \div s
<1>1. s \in Nat \ {0} /\ o % s = 0
  BY ClockAssumption
<1> HIDE DEF s
<1>2. b \in Int /\ o = s * b
  BY <1>1, FloorDivision
<1> HIDE DEF b
<1>3. 0 - o = s * (0 - b) + 0 /\ 0 - b \in Int /\ 0 - o \in Int /\ 0 \in 0 .. s - 1
  BY <1>1, <1>2
<1>4. (0 - o) % s = 0
  BY <1>1, <1>3, FloorUnique
<1> QED
  BY <1>4 DEF s

\* The month that a time is told in.
LEMMA MonthsAre ==
    ASSUME NEW time, NEW zone, NEW t \in Int, time.at = t,
           zone = Service!ZoneOf(time), time.offset \in Int
    PROVE  Months(time) = Billing!MonthAt(Billing!Local(zone, t))
<1>1. Billing!Local(zone, t) = t + time.offset
  BY DEF Billing!Local, Billing!Offset, Service!ZoneOf
<1>2. Billing!DateOf((t + time.offset) \div TicksPerDay)
        = Service!Cycles!DateOf((t + time.offset) \div TicksPerDay)
  BY BilledDateOf
<1>3. PICK day : day = (t + time.offset) \div TicksPerDay
  OBVIOUS
<1>4. day \in Int
  BY <1>3, ClockAssumption, FloorDivision
<1>5. Billing!MonthNo(Billing!DateOf(day)) \in Int
      /\ Billing!DateOf(day).year \in Int /\ Billing!DateOf(day).month \in 1 .. 12
  BY <1>4, ClockAssumption, MaxIntAssumption, NilAssumption, Billing!DateIs
  DEF Billing!MonthNo
<1> QED
  BY <1>1, <1>2, <1>3, <1>5 DEF Months, Billing!MonthAt, Billing!MonthIndex

LEMMA PlainZone ==
    ASSUME NEW time, time.offset \in Int
    PROVE  /\ Billing!Zoned(Service!ZoneOf(time))
           /\ Service!ZoneOf(time).before = Service!ZoneOf(time).after
           /\ \A t : Billing!Clock(Service!ZoneOf(time), t) = (t + time.offset) % TicksPerDay
  BY DEF Billing!Zoned, Service!ZoneOf, Billing!Clock, Billing!Local, Billing!Offset

\* An instant without parts of a second.
Whole(t) == t % TicksPerSecond = 0

\* u is told in the month, or the year, after that of t.
Follows(zone, t, u, unit) ==
    Billing!MonthAt(Billing!Local(zone, u))
      = Billing!MonthAt(Billing!Local(zone, t)) + Billing!Stride(unit)

\* A walk of the firsts of months or years, from f.
LEMMA FirstsInTurn ==
    ASSUME NEW time, time.offset \in Int, time.offset % TicksPerSecond = 0,
           NEW f \in Int, NEW unit \in {"monthly", "yearly"},
           NEW zone, zone = Service!ZoneOf(time),
           NEW t, t = Service!Cycles!NextCalendarBoundary(zone, f, unit),
           NEW u, u = Service!Cycles!NextCalendarBoundary(zone, t, unit)
    PROVE  /\ t \in Int /\ u \in Int
           /\ t % TicksPerSecond = 0 /\ u % TicksPerSecond = 0
           /\ Follows(zone, t, u, unit)
<1>1. Billing!Zoned(zone) /\ zone.before = zone.after /\ unit \in Billing!Units
  BY PlainZone DEF Billing!Units
<1>2. /\ t = Billing!NextCalendarBoundary(zone, f, unit)
      /\ u = Billing!NextCalendarBoundary(zone, t, unit)
  BY BilledCalendarNext
<1>3. /\ t \in Int /\ u \in Int
      /\ Billing!Clock(zone, t) = 0
      /\ Billing!MonthAt(Billing!Local(zone, u))
           = Billing!MonthAt(Billing!Local(zone, t)) + Billing!Stride(unit)
  BY <1>1, <1>2, ClockAssumption, MaxIntAssumption, NilAssumption, Billing!FirstsFollow
<1>4. Billing!Clock(zone, u) = 0
  BY <1>1, <1>2, <1>3, ClockAssumption, MaxIntAssumption, NilAssumption, Billing!FirstsFollow
<1>5. ASSUME NEW x \in Int, Billing!Clock(zone, x) = 0 PROVE x % TicksPerSecond = 0
  <2> DEFINE l == x + time.offset
             m == 0 - time.offset
  <2>1. l \in Int /\ m \in Int /\ x - m = l - 0
    OBVIOUS
  <2>2. 0 % TicksPerDay = 0
    BY ClockAssumption
  <2>3. l % TicksPerDay = 0 % TicksPerDay
    BY <1>5, <2>2, PlainZone
  <2>4. m % TicksPerSecond = 0
    BY NegatedSeconds
  <2> HIDE DEF l, m
  <2> QED
    BY <2>1, <2>3, <2>4, WholeSeconds
<1> QED
  BY <1>3, <1>4, <1>5 DEF Follows

\* A walk of the boundaries of an anchor.
LEMMA CyclesWalked ==
    ASSUME NEW time, time.offset \in Int, time.at \in Int,
           NEW f \in Int, NEW unit \in {"monthly", "yearly"},
           NEW zone, zone = Service!ZoneOf(time),
           NEW t, t = Service!Cycles!NextBoundary(time.at, zone, f, unit),
           NEW u, u = Service!Cycles!NextBoundary(time.at, zone, t, unit)
    PROVE  /\ t \in Int /\ u \in Int
           /\ Whole(time.at) => Whole(t) /\ Whole(u)
           /\ Follows(zone, t, u, unit)
<1> DEFINE a == time.at
<1>1. Billing!Zoned(zone) /\ zone.before = zone.after /\ unit \in Billing!Units
  BY PlainZone DEF Billing!Units
<1>2. /\ t = Billing!NextBoundary(a, zone, f, unit)
      /\ u = Billing!NextBoundary(a, zone, t, unit)
  BY BilledNext
<1>3. a \in Int
  OBVIOUS
<1> HIDE DEF a
<1>4. /\ t \in Int /\ u \in Int
      /\ Billing!Clock(zone, t) = Billing!Clock(zone, a)
      /\ Billing!MonthAt(Billing!Local(zone, u))
           = Billing!MonthAt(Billing!Local(zone, t)) + Billing!Stride(unit)
  BY <1>1, <1>2, <1>3, ClockAssumption, MaxIntAssumption, NilAssumption, Billing!CyclesFollow
<1>5. Billing!Clock(zone, u) = Billing!Clock(zone, a)
  BY <1>1, <1>2, <1>3, <1>4, ClockAssumption, MaxIntAssumption, NilAssumption,
     Billing!CyclesFollow
<1>6. ASSUME NEW x \in Int, Billing!Clock(zone, x) = Billing!Clock(zone, a),
             a % TicksPerSecond = 0
      PROVE  x % TicksPerSecond = 0
  <2> DEFINE p == x + time.offset
             q == a + time.offset
  <2>1. /\ p % TicksPerDay = q % TicksPerDay
        /\ p \in Int /\ q \in Int /\ x - a = p - q
    BY <1>3, <1>6, PlainZone
  <2> HIDE DEF p, q
  <2> QED
    BY <1>3, <1>6, <2>1, WholeSeconds
<1> QED
  BY <1>4, <1>5, <1>6 DEF a, Follows, Whole

\* What is below the second is dropped.
LEMMA RenderedIs ==
    ASSUME NEW t \in Int, NEW offset
    PROVE  /\ Service!Rendered(t, offset).offset = offset
           /\ Service!Rendered(t, offset).at \in Int
           /\ t % TicksPerSecond = 0 => Service!Rendered(t, offset).at = t
<1>1. t % TicksPerSecond \in Int
  BY ClockAssumption
<1> QED
  BY <1>1 DEF Service!Rendered

Further(unit) == IF unit = "yearly" THEN 12 ELSE 1

LEMMA UnitIs ==
    ASSUME NEW text, Service!ParseUnit(text).ok
    PROVE  /\ Service!ParseUnit(text).value \in {"monthly", "yearly"}
           /\ Billing!Stride(Service!ParseUnit(text).value) = Further(text)
  BY DEF Service!ParseUnit, Service!Parsed, Service!Bad, Service!Refused, Billing!Stride, Further

\* A client that goes on from the first of a month is told that of the next.
LEMMA CalendarLeadsOn ==
    ASSUME NEW q, IsCall(q), q.endpoint = "boundary", Understood(q), q.calendar,
           NEW r, r = [q EXCEPT !.from = Service!NextOf(q)]
    PROVE  /\ IsTime(Service!NextOf(q))
           /\ Service!NextOf(q).form = "timestamp" =>
                Months(Service!NextOf(r)) = Months(Service!NextOf(q)) + Further(q.unit)
<1> DEFINE from == Service!ParseTime("from", q.from).value
           unit == Service!ParseUnit(q.unit).value
           told == Service!NextOf(q)
           then == Service!ParseTime("from", r.from).value
<1>1. /\ from = [at |-> q.from.at, offset |-> q.from.offset]
      /\ from.at \in Int /\ from.offset \in Int /\ from.offset % TicksPerSecond = 0
  BY DEF Understood, IsCall, IsTime, Service!ParseTime, Service!Parsed
<1>2. unit \in {"monthly", "yearly"} /\ Billing!Stride(unit) = Further(q.unit)
  BY UnitIs DEF Understood
<1>3. PICK zone, t, u : /\ zone = Service!ZoneOf(from)
                        /\ t = Service!Cycles!NextCalendarBoundary(zone, from.at, unit)
                        /\ u = Service!Cycles!NextCalendarBoundary(zone, t, unit)
  OBVIOUS
<1>4. told = Service!Rendered(t, from.offset)
  BY <1>3, Zenon DEF Service!NextOf
<1>5. /\ r.from = told /\ r.unit = q.unit /\ r.calendar = q.calendar
  <2>1. {"from", "unit", "calendar"} \subseteq DOMAIN q
    BY DEF IsCall, TimesOf
  <2> HIDE DEF told
  <2> QED
    BY <2>1 DEF told
<1> HIDE DEF from, unit, told
<1>6. /\ t \in Int /\ u \in Int
      /\ t % TicksPerSecond = 0 /\ u % TicksPerSecond = 0
      /\ Follows(zone, t, u, unit)
  <2>1. from.at \in Int /\ from.offset \in Int /\ from.offset % TicksPerSecond = 0
    BY <1>1
  <2>2. unit \in {"monthly", "yearly"}
    BY <1>2
  <2> QED
    BY <1>3, <2>1, <2>2, FirstsInTurn
<1>7. told.at = t /\ told.offset = from.offset
  BY <1>4, <1>6, RenderedIs
<1>8. ASSUME told.form = "timestamp"
      PROVE  Months(Service!NextOf(r)) = Months(told) + Further(q.unit)
  <2>1. then = [at |-> t, offset |-> from.offset]
    BY <1>5, <1>7, <1>8 DEF Service!ParseTime, Service!Parsed
  <2>2. Service!ZoneOf(then) = zone
    BY <1>3, <2>1 DEF Service!ZoneOf
  <2>3. Service!NextOf(r) = Service!Rendered(u, from.offset)
    <3>1. Service!NextOf(r)
            = Service!Rendered(Service!Cycles!NextCalendarBoundary(
                                 Service!ZoneOf(then), then.at, Service!ParseUnit(r.unit).value),
                               then.offset)
      BY <1>5, Zenon DEF Service!NextOf
    <3> HIDE DEF then
    <3> QED
      BY <1>3, <1>5, <2>1, <2>2, <3>1 DEF unit
  <2> HIDE DEF then
  <2>4. Service!NextOf(r).at = u /\ Service!NextOf(r).offset = from.offset
    BY <1>6, <2>3, RenderedIs
  <2>5. /\ zone = Service!ZoneOf(told) /\ zone = Service!ZoneOf(Service!NextOf(r))
    BY <1>3, <1>7, <2>4 DEF Service!ZoneOf
  <2>6. /\ Months(told) = Billing!MonthAt(Billing!Local(zone, t))
        /\ Months(Service!NextOf(r)) = Billing!MonthAt(Billing!Local(zone, u))
    BY <1>1, <1>6, <1>7, <2>4, <2>5, MonthsAre
  <2> QED
    BY <1>2, <1>6, <2>6 DEF Follows
<1> QED
  BY <1>1, <1>6, <1>7, <1>8 DEF IsTime, told

\* And one that goes on from a boundary of the anchor, that of the next cycle.
LEMMA AnchorLeadsOn ==
    ASSUME NEW q, IsCall(q), q.endpoint = "boundary", Understood(q), ~q.calendar,
           NEW r, r = [q EXCEPT !.from = Service!NextOf(q)]
    PROVE  /\ IsTime(Service!NextOf(q))
           /\ Service!NextOf(q).form = "timestamp" /\ q.anchor.at % TicksPerSecond = 0 =>
                Months(Service!NextOf(r)) = Months(Service!NextOf(q)) + Further(q.unit)
<1> DEFINE from == Service!ParseTime("from", q.from).value
           anchor == Service!ParseAnchor(q).value
           unit == Service!ParseUnit(q.unit).value
           told == Service!NextOf(q)
           then == Service!ParseTime("from", r.from).value
<1>1. from.at \in Int
  BY DEF Understood, IsCall, IsTime, Service!ParseTime, Service!Parsed
<1>2. /\ anchor = [at |-> q.anchor.at, offset |-> q.anchor.offset]
      /\ anchor.at \in Int /\ anchor.offset \in Int /\ anchor.offset % TicksPerSecond = 0
  BY DEF Understood, IsCall, IsTime, Service!ParseAnchor, Service!ParseTime, Service!Parsed
<1>3. unit \in {"monthly", "yearly"} /\ Billing!Stride(unit) = Further(q.unit)
  BY UnitIs DEF Understood
<1>4. PICK zone, t, u : /\ zone = Service!ZoneOf(anchor)
                        /\ t = Service!Cycles!NextBoundary(anchor.at, zone, from.at, unit)
                        /\ u = Service!Cycles!NextBoundary(anchor.at, zone, t, unit)
  OBVIOUS
<1>5. told = Service!Rendered(t, anchor.offset)
  BY <1>4, Zenon DEF Service!NextOf
<1>6. /\ r.from = told /\ r.unit = q.unit /\ r.calendar = q.calendar /\ r.anchor = q.anchor
  <2>1. {"from", "unit", "calendar", "anchor"} \subseteq DOMAIN q
    BY DEF IsCall, TimesOf
  <2> HIDE DEF told
  <2> QED
    BY <2>1 DEF told
<1>7. Service!ParseAnchor(r).value = anchor
  BY <1>6 DEF Service!ParseAnchor
<1> HIDE DEF from, unit, anchor, told
<1>8. /\ t \in Int /\ u \in Int
      /\ Whole(anchor.at) => Whole(t) /\ Whole(u)
      /\ Follows(zone, t, u, unit)
  <2>1. anchor.at \in Int /\ anchor.offset \in Int
    BY <1>2
  <2>2. unit \in {"monthly", "yearly"}
    BY <1>3
  <2> QED
    BY <1>1, <1>4, <2>1, <2>2, CyclesWalked
<1>9. told.at \in Int /\ told.offset = anchor.offset
  BY <1>5, <1>8, RenderedIs
<1>10. ASSUME told.form = "timestamp", q.anchor.at % TicksPerSecond = 0
       PROVE  Months(Service!NextOf(r)) = Months(told) + Further(q.unit)
  <2>1. t % TicksPerSecond = 0 /\ u % TicksPerSecond = 0
    BY <1>2, <1>8, <1>10 DEF Whole
  <2>2. told.at = t
    BY <1>5, <1>8, <2>1, RenderedIs
  <2>3. then.at = t
    BY <1>6, <1>10, <2>2 DEF Service!ParseTime, Service!Parsed
  <2>4. Service!NextOf(r) = Service!Rendered(u, anchor.offset)
    <3> DEFINE held == Service!ParseAnchor(r).value
    <3>1. Service!NextOf(r)
            = Service!Rendered(Service!Cycles!NextBoundary(
                                 held.at, Service!ZoneOf(held), then.at,
                                 Service!ParseUnit(r.unit).value),
                               held.offset)
      BY <1>6, Zenon DEF Service!NextOf
    <3>2. held = anchor
      BY <1>7
    <3> HIDE DEF then, held
    <3> QED
      BY <1>4, <1>6, <2>3, <3>1, <3>2 DEF unit
  <2>5. Service!NextOf(r).at = u /\ Service!NextOf(r).offset = anchor.offset
    BY <1>8, <2>1, <2>4, RenderedIs
  <2>6. /\ zone = Service!ZoneOf(told) /\ zone = Service!ZoneOf(Service!NextOf(r))
    BY <1>4, <1>9, <2>5 DEF Service!ZoneOf
  <2>7. /\ Months(told) = Billing!MonthAt(Billing!Local(zone, t))
        /\ Months(Service!NextOf(r)) = Billing!MonthAt(Billing!Local(zone, u))
    BY <1>2, <1>8, <1>9, <2>2, <2>5, <2>6, MonthsAre
  <2> QED
    BY <1>3, <1>8, <2>7 DEF Follows
<1> QED
  BY <1>2, <1>9, <1>10 DEF IsTime, told

\* Whoever goes on from an answer asks a call that is answered again.
LEMMA WalkLeadsOn ==
    ASSUME FrontInv, Walk
    PROVE  /\ Idle /\ IsCall(call) /\ call.endpoint = "boundary"
           /\ DOMAIN call' = DOMAIN call
           /\ call'.endpoint = call.endpoint /\ call'.body = call.body
           /\ IsCall(call')
           /\ /\ call'.from.form = "timestamp"
              /\ call.calendar \/ call.anchor.at % TicksPerSecond = 0
              => Months(served'.value.next) = Months(served.value.next) + Further(call.unit)
<1>1. Idle /\ IsCall(call) /\ call.endpoint = "boundary"
  BY DEF FrontInv, Walk, Asked
<1>2. {"endpoint", "body", "anchor", "from", "unit", "calendar"} \subseteq DOMAIN call
  BY <1>1 DEF IsCall, TimesOf
<1>3. /\ served.code = "ok" /\ served = Service!Handle(call)
      /\ call' = [call EXCEPT !.from = served.value.next]
  <2>1. served # Pending
    BY DEF Walk, Pending, Service!Refusal
  <2> QED
    BY <1>1, <2>1 DEF FrontInv, Walk
<1>4. Understood(call) /\ served.value.next = Service!NextOf(call)
  BY <1>1, <1>3, BoundaryTold
<1>5. call' = [call EXCEPT !.from = Service!NextOf(call)]
  BY <1>3, <1>4
<1>6. /\ DOMAIN call' = DOMAIN call /\ call'.from = Service!NextOf(call)
      /\ call'.endpoint = call.endpoint /\ call'.body = call.body
      /\ call'.unit = call.unit /\ call'.calendar = call.calendar
      /\ call'.anchor = call.anchor
  BY <1>2, <1>5
<1>7. IsTime(Service!NextOf(call))
  BY <1>1, <1>4, <1>5, CalendarLeadsOn, AnchorLeadsOn
<1>8. IsCall(call') /\ served' = Service!Handle(call')
  <2>1. served' = Service!Handle(call')
    BY <1>1, <1>6 DEF Walk, Service!Handle
  <2> QED
    BY <1>1, <1>2, <1>6, <1>7, <2>1 DEF IsCall, TimesOf
<1>9. ASSUME call'.from.form = "timestamp",
             call.calendar \/ call.anchor.at % TicksPerSecond = 0
      PROVE  Months(served'.value.next) = Months(served.value.next) + Further(call.unit)
  <2>1. Understood(call')
    BY <1>4, <1>6, <1>9 DEF Understood
  <2>2. served'.value.next = Service!NextOf(call')
    BY <1>1, <1>6, <1>8, <2>1, BoundaryTold
  <2>3. Months(Service!NextOf(call')) = Months(Service!NextOf(call)) + Further(call.unit)
    BY <1>1, <1>4, <1>5, <1>6, <1>9, CalendarLeadsOn, AnchorLeadsOn
  <2> QED
    BY <1>4, <2>2, <2>3
<1> QED
  BY <1>1, <1>6, <1>8, <1>9

LEMMA WalkPreserves ==
    ASSUME FrontInv, Walk PROVE FrontInv'
<1>1. /\ Idle /\ IsCall(call) /\ call.endpoint = "boundary"
      /\ DOMAIN call' = DOMAIN call
      /\ call'.endpoint = call.endpoint /\ call'.body = call.body
      /\ IsCall(call')
  BY WalkLeadsOn
<1>2. Idle'
  BY <1>1 DEF Walk, Idle, vars, EmptyInvoice
<1>3. played' = Page!Handle(call') /\ served' = Service!Handle(call')
  BY <1>1 DEF Walk, Page!Handle, Service!Handle
<1> QED
  BY <1>1, <1>2, <1>3 DEF FrontInv, Pending

\* What a step that changes the call does to the answers.
LEMMA StepLeadsOn ==
    ASSUME FrontInv, [FrontNext]_frontVars, call' # call, call'.from.form = "timestamp",
           call.calendar \/ call.anchor.at % TicksPerSecond = 0
    PROVE  Months(served'.value.next)
             = Months(served.value.next) + (IF call.unit = "yearly" THEN 12 ELSE 1)
<1>1. Walk
  BY DEF FrontNext, Ask, frontVars, fronts
<1> QED
  BY <1>1, WalkLeadsOn DEF Further

\* The inductive invariant of both front ends.
THEOREM FrontInvHolds == FrontSpec => []FrontInv
<1>1. FrontInit => FrontInv
  BY FrontInitEstablishes
<1>2. FrontInv /\ [FrontNext]_frontVars => FrontInv'
  <2> SUFFICES ASSUME FrontInv, [FrontNext]_frontVars PROVE FrontInv'
    OBVIOUS
  <2>1. CASE Ask
    BY <2>1, AskPreserves
  <2>2. CASE Walk
    BY <2>2, WalkPreserves
  <2>3. CASE Next /\ UNCHANGED fronts
    BY <2>3, HandlerPreserves
  <2>4. CASE UNCHANGED frontVars
    <3>1. UNCHANGED vars /\ UNCHANGED fronts
      BY <2>4 DEF frontVars
    <3>2. \/ Idle' /\ IsCall(call)'
          \/ ServiceInv' /\ (call = Asked)'
      BY <3>1, StepPreserves, RequestStays DEF FrontInv, Asked, Idle, vars, fronts, EmptyInvoice
    <3>3. /\ played' = played /\ served' = served /\ call' = call /\ phase' = phase
          /\ answer' = answer
      BY <3>1 DEF fronts, vars
    <3> QED
      BY <3>2, <3>3 DEF FrontInv, Pending
  <2> QED
    BY <2>1, <2>2, <2>3, <2>4 DEF FrontNext
<1> QED
  BY <1>1, <1>2, PTL DEF FrontSpec

-----------------------------------------------------------------------------
(***************************************************************************)
(* The properties, of the handler beside the other endpoints.              *)
(***************************************************************************)
\* A handler that is not asked has no invoice and has gathered nothing.
LEMMA RestIsSafe == Idle => NoPrefixFails /\ EffectsAreMoves /\ BalancesMatchEffects
  BY DEF Idle, NoPrefixFails, EffectsAreMoves, BalancesMatchEffects, EmptyInvoice, Modes,
         Pending, Service!Refusal

\* Once the compose handler has an invoice it answers with it, with whatever
\* else is asked of the service.
THEOREM FrontNoPrefixFails == FrontSpec => []NoPrefixFails
<1>1. FrontInv => NoPrefixFails
  BY PrefixesPass, RestIsSafe DEF FrontInv
<1> QED
  BY <1>1, FrontInvHolds, PTL

\* Each effect that tariffd tells is what its step moved the total by.
THEOREM FrontEffectsAreMoves == FrontSpec => []EffectsAreMoves
<1>1. FrontInv => EffectsAreMoves
  BY MovesGathered, RestIsSafe DEF FrontInv
<1> QED
  BY <1>1, FrontInvHolds, PTL

\* The balance that tariffd shows is what the effect of its draw left of it.
THEOREM FrontBalancesMatchEffects == FrontSpec => []BalancesMatchEffects
<1>1. FrontInv => BalancesMatchEffects
  BY DrawsShown, RestIsSafe DEF FrontInv
<1> QED
  BY <1>1, FrontInvHolds, PTL

\* Whatever is asked, of compose too, tariffd never answers with a 500, and the
\* page never without a code but for a body that is no JSON: every error of the
\* library that a call or a step of a composition meets has a row in both tables.
THEOREM EveryErrorIsNamedHolds == FrontSpec => []EveryErrorIsNamed
  BY FrontInvHolds, FrontInvNames, PTL

\* The running column of the page, an unguarded sum of its own, shows what the
\* total was after each step, for requests of any length.
THEOREM RunningTellsTheTotalHolds == FrontSpec => []RunningTellsTheTotal
  BY FrontInvHolds, FrontInvRuns, PTL

\* The two front ends, copies of each other by hand, answer alike: to any call
\* of any endpoint, the refusals of compositions included, and to the calls of a
\* client that walks on from an answer.  Amounts are the same texts, and the
\* same numbers as far as a float holds them.
THEOREM FrontEndsAgreeHolds == FrontSpec => []FrontEndsAgree
  BY FrontInvHolds, FrontInvAgrees, PTL

\* Whoever goes on from the boundary that was told meets every cycle once: the
\* text that drops the parts of a second loses none, but for an anchor that has
\* some.  The years of four digits are walked, which are those that can be told.
THEOREM AnswersLeadOnHolds == FrontSpec => AnswersLeadOn
<1>1. FrontInv /\ [FrontNext]_frontVars =>
        [call' # call /\ call'.from.form = "timestamp"
           /\ (call.calendar \/ call.anchor.at % TicksPerSecond = 0) =>
           Months(served'.value.next)
             = Months(served.value.next) + (IF call.unit = "yearly" THEN 12 ELSE 1)]_frontVars
  BY StepLeadsOn
<1> QED
  BY <1>1, FrontInvHolds, PTL DEF FrontSpec, AnswersLeadOn

=============================================================================
