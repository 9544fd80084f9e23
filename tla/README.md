# tariff in TLA+

tariff is a Go library that rates usage, splits amounts, prorates plan changes
and composes invoices in integer minor units, together with a stateless HTTP
service (`tariffd`) and a WebAssembly playground around it. This directory
holds its specification: TLA+ modules translated from the source, TLC
configurations that check them on small instances, and theorems that TLAPS
proves for every value of the constants.

    tlc -config MCCompose_shared.cfg MCCompose.tla     # check an instance
    tlapm ComposeProofs.tla                            # check the proofs

## The system

| component | state it keeps | operations | what makes it correct |
|---|---|---|---|
| Money (`currency.go`, the guards of `charge.go` and `compose.go`) | none | round, breakTie, addInt64, subInt64, mulInt64, Format | an exact amount becomes a whole one exactly once, in the mode asked for; no amount ever wraps |
| Rating (`charge.go`, `tier.go`) | none | `Charge.Rate` over five models, tier validation and landing | every unit priced once, by its band; lines reconcile with the total; more usage never costs less |
| Allocation (`allocate.go`) | loop variables of one call | `Allocate`, `allocate`, `allocateRat` | parts sum to the total; largest remainder, ties by position; the leftover loop stays in range |
| Composition (`compose.go`) | the invoice under composition, the deferred draws, and the caller's balances through pointers | `Compose` and six kinds of step | total, subtotal and lines agree; balances never overdrawn; all or nothing |
| Proration (`proration.go`) | none | `Period.Fraction`, `Prorate`, `Change` | a fraction in [0, 1]; used and remaining parts make a whole |
| Billing calendar (`proration.go`) | none | `NextBoundary`, `NextCalendarBoundary`, `civilDay` | the first boundary strictly after an instant; no drift from month-end clamping |
| `tariffd` compose handler (`internal/api/compose.go`) | none between requests | the step cap, parsing, `Compose`, step effects by recomposing prefixes | effects add up to the total; the second pass agrees with the first |
| other `tariffd` handlers (`rate.go`, `proration.go`, `dto.go`, `errors.go`) | none | decode a body, parse its fields in turn, call the library, render or map the error | the first field that is wrong is the one reported; every sentinel has a code; an answer can be asked with again |
| `tariffd` pipeline (`middleware.go`, `server.go`, `auth.go`) | what a response writer has written | authenticate, decode, recover, log, rewrite 404 and 405 | one response for every request, always JSON |
| configuration (`internal/config`) | none | `Load`, `parseTokens` | requests pass unasked only when no token is configured; a mistake ends the start |
| `tariffd` process (`boot`, `main`) | listener, serve goroutine, drain deadline | run, drain, close | it stops when told, within its deadline |
| playground engine (`cmd/tariff-wasm`) | none between calls | the endpoints of `tariffd` a second time, a running column, presets | it says what `tariffd` says; the running column follows the total |
| web page and examples (`web`, `examples`) | DOM | rendering | not modelled |

How they interact: `Compose` calls `Charge.Rate`, which rounds through the
currency and, for graduated pricing, splits the rounded total with
`allocateRat`. `Compose` writes to memory it does not own, the balances, and
that makes it the one part of the library with a protocol: a draw step reads a
balance and records a decrement, and the commit loop makes the decrements when
every step has passed. The HTTP handlers give every request balances of its
own and run the library once for the invoice and once more for each prefix of
the steps. The playground repeats the handlers, their parsers and their table
of errors by hand, so that a change to one has to be made to the other. The
process starts with what `Load` reads from the environment, and its tokens are
what the pipeline compares those of a request with.

What is hard here: the same pointer in several draw steps; a step that fails
after draws have been recorded; the commit loop, which is not atomic; fixed
discounts that take a total far below zero, next to the limits of int64; band
bounds; rounding ties; the leftover loop of the allocation; two copies of every
handler; a sum of step effects that nothing guards; a token list with blanks in
it; a client that goes on from a boundary it was told. `PROJECT.json` lists
these at their lines, with the properties that watch them.

## Modules

| module | models | state and actions |
|---|---|---|
| `Money` | `currency.go`, the overflow guards | operators: `Round`, `BreakTie`, `IsInt64`, `Wrap`, `Format` |
| `Invoice` | the steps of `compose.go` | operators, three for each kind of step: `...Passes`, its validation and the overflow tests it runs into, `...Applied`, the invoice it leaves, and `...Failure`, the sentinel it fails with |
| `Ledger` | nothing in the code: the promise to the owner of the balances | a composition is opened, then settled or refused in one step |
| `Compose` | `Compose` | `Begin` (currency validation), one action per kind of step, `NilStep`, `Finish`, `Commit` (a turn of the commit loop), `Return` |
| `Apportion` | what `allocate` computes, without loops | operator `Apportion` |
| `Allocation` | `allocate`, loop by loop, and what it is compared with | `Refuse`, `AddWeight`, `Normalise`, `Divide`, `Sort`, `Hand`, `Sign` |
| `Rating` | `charge.go`, `tier.go`, `allocateRat` | operators named after the functions |
| `Metering` | a charge over a billing period | the machine lets usage accrue (`Accrue`) and rates the charge again at every unit |
| `Period` | `Period.Fraction`, `Prorate`, `Change` and the measures of time under them | operators named after the functions |
| `Proration` | a plan in force | the machine lets time pass (`Tick`) and quotes the change again at every instant |
| `Boundaries` | `NextBoundary`, `NextCalendarBoundary`, `civilDay` and what they stand on | operators named after the functions, over the Gregorian calendar |
| `Calendar` | a billing cycle in force | the machine lets time pass and asks for the next boundary again at every instant |
| `ComposeService` | the compose handler of `tariffd` | `Refuse` (body, step cap, currency, parsing: `Parts`), `Begin` and `Fold` (a run of `Compose`, a step at a time), `Composed` (the invoice and its balances are kept), `Recompose` and `Recomposed` (a prefix), `Respond`; an error of any of them is answered by `Fail` with what the table of `Wire` makes of it |
| `Fields` | what the two front ends have in common | operators: parts of a request that are read in turn (`Concluded`, `Joined`), lowest terms, the zone of a timestamp |
| `Wire` | `tariffd`'s rate, proration, fraction and boundary endpoints | operators: `DecodeBody`, the field parsers, `MapError`, a `Handle...` for each endpoint; `ComposeService` has its parsers and its table too |
| `Playground` | the engine of the playground, all six calls | operators: `Unmarshal`, its own field parsers, `ErrCode`, what `toJS` does to a number (`Number`), a `Handle...` for each call, `Running`, the presets |
| `FrontEnds` | the same call put to both, and a client that walks a cycle | `Ask`, `Walk`, and the steps of `ComposeService` when the call is a composition |
| `Config` | `Load`, `parseTokens` | operators `Load`, `ParseTokens` |
| `Pipeline` | routes, token gate and response writers of `tariffd` | operators on the record of a response: what each writer makes of a header and a body (`RecordHeader`, `MuxHeader`, `MuxWrite`), `Recovered`, `Logged`, and what a request is answered by a server with given tokens (`Answers`) |
| `Tariffd` | `main` and `boot.Run`, with requests in flight on their way through `Pipeline` | `Configure` of `main`; `Listen`, `ServeFailed`, `BeginDrain`, `Drained`, `Overdue` of `Run`; `Serve` and `AcceptFails` of the goroutine; `Signal`, `Expire`; and for each connection `Accept` to `Log`, with `Panic` and `Recover` |
| `MCCompose`, `MCAllocation`, `MCRating`, `MCProration`, `MCCalendar`, `MCComposeService`, `MCTariffd` | instances for TLC | sets of arguments; `TotalIsRendered` is in `MCCompose` |
| `MoneyProofs` | lemmas about `Money`, `Apportion`, the steps of `Invoice`, sums and folds, and theorems about rounding | |
| `ComposeProofs`, `FrontEndsProofs`, `RatingProofs`, `AllocationProofs`, `ProrationProofs`, `CalendarProofs`, `TariffdProofs` | theorems about the module they are named after, `RatingProofs` about `Metering`, `FrontEndsProofs` also about `ComposeService`, which `FrontEnds` extends | |

Every model is parameterised by `MaxInt`, the largest value of the integer
type, so that overflow is an ordinary event in an instance where it is 3 or 5;
the theorems hold whatever its value.

How the modules of a component use each other: `Invoice` extends `Money`,
`Compose` extends `Invoice` and refines `Ledger`; `Metering` extends `Rating`,
which extends `Apportion`, which extends `Money`; `Proration` extends `Period`,
which extends `Money`; `Calendar` extends `Boundaries`; `Allocation` extends
`Apportion`, the definition without loops that its own are compared with.
`ComposeService` extends `Invoice` too: it runs the same steps over a list that
is given at once. `FrontEnds` composes
`ComposeService`, which it extends, with instances of `Wire` and `Playground`,
and those stand on instances of `Rating`, `Period` and `Boundaries`: a call
goes from its texts to the library and back. `Playground` folds the steps of
`Invoice` once more, as a function, for the command's own copy of the handler.
`Tariffd` extends `Pipeline` and `Config`. `Compose` does not extend `Rating`:
a charged step takes an outcome of `Charge.Rate` from the constant `Ratings`,
with what `RatingsAssumption` says of it, and `ChargesReconcile` proves that
every outcome of `Rate` is like that (`RatedAsComposeAssumes`).

### Abstractions

* A `big.Rat` is a numerator and a denominator; a `big.Int` is an integer.
* Lines of an invoice are kept as the sum posted under each kind of line. The
  steps never read a line; labels and order are what the caller asked for.
* The deferred draws are kept as the sum recorded against each pointer: the
  netting loop and the commit loop add them up. One turn of `Commit` makes the
  decrements of one balance, in any order between balances.
* A list of steps is revealed one step at a time. A step is validated when it
  is its turn, as in the code, so nothing depends on the steps to come.
* A currency is its rounding mode, `"unset"` for one that does not validate;
  that a charge's currency differs from the invoice's is a field of its rating.
* An instant is a count of ticks. A zone is an offset from UTC that changes
  once, which is all that two dates of one period need to come out of order;
  the date of an instant is the whole part of its local time in days
  (`CivilDay`); that `civilDay` numbers the dates of the Gregorian calendar in
  that way is proved of `Boundaries` (`CivilDaysCount`). A nil
  fraction, which `Prorate` refuses and `Change` never passes, is left out.
* Package `time` is external. Of a local time that a clock change skips or
  repeats it promises only that one of the two offsets is used; `reading` is
  the one it is, and the runs have both.
* A request to the compose handler is a body, a currency and steps, with the
  texts of charges and percentages in them; the number of a step stands for the
  pointer to its balance, of which every run has its own. A refusal is answered
  as that of any other call: a field by its parser, an error of the library by
  the row of its sentinel, in each front end by its own parsers and table. The
  code of a currency stands for what `Charged` compares, the code and the
  decimals.
* An amount goes out as a number and as a text (`Amount`). What the page is
  told goes through `JSON.parse`, which makes the number a float: the nearest
  multiple of a spacing that doubles with the size (`Spacing`, `Number`), exact
  up to `MaxExact`, 2^53 in a browser. The argument of a call is known by its
  text, so that what a page may have lost before it calls is not the engine's.
* A text is known by what its readers make of it: that of a rate by its length,
  its exponent and the rational it denotes, that of a time by its form, instant
  and offset, a body by what a strict and a lenient reader of JSON object to.
  `"closed_twice"` is a value and one closing bracket too many, which
  `json.Decoder.More` takes for an end and `json.Unmarshal` refuses.
* The zone of a timestamp is its offset, always. Package `time` would take the
  zone of the process for an offset that it is at; the image of `tariffd`
  sets no zone and runs at UTC, and a page is at one offset at a time.
* The number of decimals of a currency is folded into the constant `Scale`; a
  request gives it or not. The rates copied onto lines and the decimal of a
  fraction are left out, and of a composition the lines, whose sums the invoice
  keeps. Presets are their names. A boundary in a year that is not of four
  digits is a text that neither front end reads (`"unreadable"`).
* A signal while the configuration is being read kills the process, as Go has
  it before `signal.NotifyContext`, and is left out. A duration of the
  configuration is known by what `time.ParseDuration` makes of it.
* A body of a response is its pieces in order, each known by its format. A
  handler enters `Pipeline` by what it may answer (`HandlerAnswers`), and may
  panic between any two of its writes. A connection carries one request. Of
  `net/http`, `Tariffd` has what `boot.go` relies on: what `Serve`, `Shutdown`
  and `Close` do to the listener and to connections that wait or carry a
  request. A response that no longer reaches its client is written all the
  same, as its errors are ignored.
* A balance is passed to one composition at a time. The code reads a balance
  when the draw step is applied and writes it after the fold, with nothing to
  keep another goroutine out: that the balances are the caller's is its
  contract, and the HTTP service keeps it by giving every request its own.

Definitions marked *Faulty* are plausible mistakes in the definition they
precede. No specification uses them; they serve to confirm that each property
notices the mistake it is there for.

## Runs

| run | instance | bounds | what it shows |
|---|---|---|---|
| `compose_steps` | 1 caller, 2 balances, valid and invalid arguments | `MaxInt` 5, lists of 4 steps | no amount wraps (`TypeOK`), the invoice reconciles (`Reconciles`), only fixed discounts make a deficit (`DeficitIsFixedDiscount`), the invoice takes the credit it shows (`CreditShown`), a failed call costs nothing (`AllOrNothing`) |
| `compose_shared` | 2 callers, 2 balances, symmetric use | `MaxInt` 3, lists of 3 steps | with folds and commit loops interleaved: `NoOverdraft`, refinement of the ledger (`ImplementsLedger`), and the inductive invariant `IInv` |
| `compose_format` | as `compose_steps` | lists of 2 steps | *violated*: the total is rendered as a decimal number (`TotalIsRendered`) |
| `allocation` | every total of the type, every list of up to 3 weights in 0..4 and some of 4 | `MaxInt` 7 | the loops compute the largest-remainder method (`IsLargestRemainder`) and lose nothing (`LosesNothing`), the leftover loop stays in range (`LeftoverFits`) |
| `rating` | 8 821 charges of all models, malformed ones included | `MaxInt` 9, usage up to 6 | every unit is priced once, by its band (`EveryUnitIsPricedOnce`, `GraduatedIsMarginal`); volume, package and stairstep pricing follow the whole quantity (`PricedAsAWhole`); more usage never costs less (`MoreUsageNeverCostsLess`); `Compose` may assume what it does of a rating (`RatedAsComposeAssumes`) |
| `rating_exact` | as `rating` | | *violated*: an exactly-whole tier keeps its exact amount (`ExactTierKeepsItsAmount`) |
| `proration` | 12 066 plans, well-formed and malformed, on both bases, each quoted at 14 instants | `MaxInt` 5, periods of up to three days of four ticks, two ticks to a second | credits and charges have their sign and stay within the prices (`CreditAndCharge`), the guards never act (`GuardsAreDefensive`), used and remaining make a whole (`UsedAndRemaining`), each date counts once, a short or long day too (`EachDayCountsOnce`), equal prices cost nothing (`SamePriceIsFree`), a later change is never dearer (`LaterIsLess`) |
| `calendar` | 154 cycles: six anchors at month ends and leap days, monthly and yearly | days of three ticks; every instant of fifteen months around February 2024, of four weeks around clock changes at the turn of March and a skipped December 31, and the turns of years from -401 to 2001 | the next boundary stays until time reaches it (`NoCycleIsPassedOver`), boundaries are the anniversaries, all of them (`BoundariesAreAnniversaries`), dates are numbered in turn, calendar boundaries fall on firsts where midnights come once (`AlignedInOrdinaryZones`) |
| `calendar_gap` | a month that begins with a skipped midnight | | *violated*: wherever the midnight it should answer comes once, `NextCalendarBoundary` answers it (`AlignedOnNextFirst`) |
| `compose_service` | compositions of up to 2 steps of 40 kinds, those included that cannot be read or rated, of 3 steps of 15 and of 4 steps of 7; 7 158 calls of the other endpoints, malformed ones included | `MaxInt` 5, `MaxComposeSteps` 4, texts of rates up to `MaxRateLen` 8 with exponents up to `MaxRateExp` 3, floats exact up to `MaxExact` 4, `MaxWalk` 14 | no prefix fails (`NoPrefixFails`), effects are what steps moved the invoice by and none wraps (`EffectsAreMoves`), balances shown agree with them (`BalancesMatchEffects`); the page answers what `tariffd` answers, amounts as texts and as numbers that floats hold, refusals of a composition by the same code (`FrontEndsAgree`), every error of the library has a code in both tables (`EveryErrorIsNamed`), the running column tells the total so far (`RunningTellsTheTotal`), a client that goes on from each boundary meets every cycle once (`AnswersLeadOn`) |
| `tariffd` | two connections, each with any of nine requests | six environments: tokens with a blank between them, only blanks, and four mistakes | one answer for each request (`OneAnswer`), logged as sent (`LogTellsTheStatus`), tokens asked for whenever the environment names one, and never a blank one (`TokensAreAsked`), drains that cut nothing off early (`OrderlyStop`), and the process stops (`StopsWhenTold`) |
| `proration_zone` | as `proration` | | *violated*: a credit is at most zero and a charge at least zero, in every zone (`WithinPrices`) |

Why the bounds are enough. Draws interact through one total and one balance: a
charge, two draws on the same pointer and a step that fails are four steps, and
two balances are the fewest for which the commit loop has an inside. A second
caller is enough for every overlap of two compositions, as a balance is in at
most one. `MaxInt` 5 lets two fixed discounts reach the smallest integer and a
floor overflow from there. The leftover of an allocation is below the number of
parts, so that three parts show a leftover of 0, 1 and 2, with ties. A schedule
of three bands has a first, a middle and a last one, and usage up to 6 passes
all their bounds. Three days hold a first, a whole and a last day of a period;
the zones move the clock forward and back by a tick within a day (`Forward`,
`Back`), from midnight to the tick before (`AtTwelve`), back across it from a
tick past midnight (`PastTwelve`), and over a whole date (`Skipping`); with two
ticks to a second, instants fall on and off the second. Fifteen months hold
every length of month, a leap February and the turn of two years; three ticks
to a day are the fewest with a midnight, a noon and an hour between them and
the next midnight, so that a change of one tick can skip or repeat a boundary
or miss it. In `compose_service` a prefix of three steps before a fourth is
enough for a balance to be drawn after the total has been discounted, raised
and drawn once; one request has a step more than `MaxComposeSteps`. The calls
of the other endpoints have, for each field, every form its parser tells apart,
alone and together with another that is wrong, so that the order of the checks
shows; texts of rates are as long as the cap and one longer, their exponents at
it and above; `MaxInt` 5 lets a rating and a change overflow, and with
`MaxExact` 4 a float holds every amount but 5 and -5, as beyond 2^53 every
second one. Anchors at the ends of months, on and off a whole day and at three
offsets, walked for 14 boundaries, pass a leap February and come to the same
month again; one client walks out of the year 9999. Requests share nothing but
the process, so that two connections show one that is cut off beside one that
is served, and the nine requests reach every line of `Answers`.

Deadlock is checked for `Compose`, where a caller can always call again. An
allocation and the calls of `FrontEnds` end, `Tariffd` stops, usage in
`Metering` is bounded by `MaxQuantity`, time in `Proration` by `LastTick` and
in `Calendar` by `until`, so their configurations turn the check off.

Fairness. Only `Tariffd` has it, as only there something waits: `Compose` and
the handlers are loops over finite lists. `FairSpec` assumes only that the
goroutine of `Run` goes on when it can and that the timer of the drain context
fires: a handler, a client or the serving goroutine may hang for ever, and
`StopsWhenTold` holds all the same.

### Disagreements found

* `compose_format`. `Format` negates a negative amount before it takes digits,
  and the smallest int64 is its own negation: `AmountOff(MaxInt64)` and
  `AmountOff(1)` compose without an error to a total that renders with signs in
  the middle.
* `rating_exact`. `docs/DESIGN.md` and `charge_test.go` say that an
  exactly-whole tier of a graduated charge keeps its exact amount. The rounded
  total is split in proportion to the exact amounts, so the rounding of other
  tiers moves it: exact amounts 1, 1/4 and 1/4 round half up to 2, and the
  first tier is billed 2.
* `proration_zone`. On the day basis a window is measured by the dates at its
  ends. Where a clock goes back across midnight (America/St_Johns went from
  00:01 to 23:01 of the day before until 2011) a later instant has an earlier
  date, and the remaining fraction can be negative or above one, which
  `Change` says it cannot be. `DatesAdvance` is the condition under which it
  cannot: the date never falls back when the offset changes. `CreditAndCharge`
  is checked and proved for such zones, and `UsedAndRemaining` for all.
* `calendar_gap`. `NextCalendarBoundary` anchors the cycle on the midnight of
  the first, and where the clocks skip it (America/Asuncion on 2017-10-01) the
  anchor may be an instant of the last day of the month before: for that month
  the next boundary is near the end of the same month and not on the first.
* Those that have no run. A zone that skips a whole day at the end of a month
  (Pacific/Kiritimati, 1994-12-31) puts that month's boundary into the next
  month, past the estimate of `NextBoundary`; `NoCycleIsPassedOver` is stated
  of zones where no clock change crosses the end of a month (`KeepsMonths`).
  And the mux answers the asterisk form of a request target (`GET *`) with an
  empty 400, which `muxErrorWriter` does not rewrite: `OneAnswer` excepts it.
  The boundary endpoint renders whole seconds, so that of an anchor with parts
  of a second it tells an instant before the boundary; a client that asks again
  from there is told the same for ever, though the answer is "strictly after
  `from`" (`openapi.yaml:235`): `AnswersLeadOn` is stated of anchors at a whole
  second. `dto.go:217-219` says that the rate of a line "round-trips through
  ratString without loss": a rate in canonical form may be longer than the 64
  characters `ratString` takes. `decodeBody` says that "trailing garbage is
  rejected" (`middleware.go:28`): a trailing `}` or `]` is not
  (`"closed_twice"`). `cmd/tariff-wasm/main.go:12-13` says that
  amounts "cross as int64 minor units — lossless": `toJS` hands its JSON to
  `JSON.parse`, so that beyond 2^53 the page gets another number than `tariffd`
  sends (a package of size 1 at 3000000000000001 for 7 units:
  21000000000000008, not 21000000000000007), and only the text is the amount's;
  `FrontEndsAgree` compares numbers up to `MaxExact`, and texts always. And the
  page takes dates, unknown fields and bodies of
  any size where `tariffd` does not; `FrontEndsAgree` names these and no
  others.

## Theorems

Those about `Compose` hold for every number of callers, every finite set of
balances, every width of the integer type, every set of arguments the
assumptions allow, and lists of steps of any length; those about `Metering` for
every charge, schedules of any length included; those about `Allocation` for
every total and every list of weights; those about `Proration` for every
period, zone, price and resolution of time; those about `Calendar` for every
anchor, zone and instant; those about `FrontEnds` for calls of every text,
requests of any length, every anchor and every offset; those about `Tariffd`
for every number of connections and every environment and set of requests.

| theorem | states |
|---|---|
| `MoneyProofs!RoundBetween`, `RoundFraction` | rounding never crosses a whole number; a fraction in [0, 1] of an amount rounds to between zero and the amount |
| `RoundNearest`, `RoundMonotone`, `RoundMirror`, `RoundReduced` | the half modes round to a nearest whole number; more never rounds to less; the half modes round a negative amount to the mirror of the positive one; the terms a fraction is written in do not matter |
| `ComposeProofs!Inductive` | `Spec => []IInv` |
| `TypeCorrect`, `InvoicesReconcile`, `OnlyFixedDiscountsOverdrive`, `CreditIsShown` | the safety invariants of `compose_steps` |
| `BalancesAreNeverOverdrawn`, `ComposeIsAllOrNothing` | the action properties |
| `ComposeImplementsLedger` | the refinement |
| `FrontEndsProofs!NoPrefixFailsHolds`, `EffectsAreMovesHolds`, `BalancesMatchEffectsHolds` | three properties of the compose handler alone, for requests of any length |
| `FrontNoPrefixFails`, `FrontEffectsAreMoves`, `FrontBalancesMatchEffects` | the same three of the service whole, as `compose_service` checks them |
| `FrontEndsAgreeHolds`, `EveryErrorIsNamedHolds` | `FrontEndsAgree`, `EveryErrorIsNamed`: the handlers, written twice, answer alike, compositions and their refusals included, and both tables know every error of the library |
| `RunningTellsTheTotalHolds` | `RunningTellsTheTotal` |
| `AnswersLeadOnHolds` | the action property `AnswersLeadOn`: a client that goes on from each boundary meets every cycle once, up to the year 9999 |
| `RatingProofs!EveryUnitHasOneBand` | `EveryUnitIsPricedOnce`: a schedule that passes `validateTiers` leaves no gap and no overlap |
| `WholesArePriced`, `GraduatedByTheUnit` | `PricedAsAWhole`, `GraduatedIsMarginal`: each model charges what its definition says |
| `ChargesReconcile` | `RatedAsComposeAssumes`: lines are not negative and sum to the total |
| `UsageNeverCostsLess` | `MoreUsageNeverCostsLess`, an action property |
| `AllocationProofs!TypeCorrect`, `LeftoverAlwaysFits` | no share leaves the type; the leftover loop stays in range |
| `NothingIsLost`, `LargestRemainder` | the parts sum to the total, and are those of the definition without loops |
| `ProrationProofs!CreditsAndChargesAreBounded`, `ChangeNeverOverflows` | `CreditAndCharge`, `GuardsAreDefensive` |
| `UsedAndRemainingPartition`, `DaysAreCountedOnce` | the two parts of a period make a whole, in any zone; each date counts once |
| `SamePriceChangesAreFree`, `LaterChangesAreSmaller` | `SamePriceIsFree`, `LaterIsLess` |
| `CalendarProofs!CivilDaysCount` | `DatesAreNumberedInTurn` |
| `CyclesInTurn`, `AnniversariesOnly` | the action properties `NoCycleIsPassedOver`, `BoundariesAreAnniversaries` |
| `AlignedOnFirsts` | `AlignedInOrdinaryZones` |
| `TariffdProofs!EveryRequestHasOneAnswer`, `LogIsTrue`, `StopIsOrderly`, `TokensAreAskedFor` | `OneAnswer`, `LogTellsTheStatus`, `OrderlyStop`, `TokensAreAsked` |

The assumptions are those the modules state. The constants are integers of the
type (`ArgumentsAssumption`, `TotalsAssumption`, `WeightsAssumption`,
`PlansAssumption`, `CyclesAssumption`); a charge has the fields of its Go type
(`ChargesAssumption`) and usage stays in the type (`MaxQuantityAssumption`); a
percentage has a positive denominator (`PercentsAssumption`); `Nil` is not a
balance, and the balances are finitely many (`BalancesAssumption`); a rating's
total is not negative (`RatingsAssumption`, which `ChargesReconcile` proves of
`Rate`); a day and a second are whole numbers of ticks
(`TicksPerDayAssumption`, `TicksAssumption`); an environment's token list is a
sequence of texts and a request one of those there are
(`EnvironmentsAssumption`, `RequestsAssumption`); a call of an endpoint has the
fields of its DTO, a body of one of the forms `decodeBody` tells apart, and
offsets of whole seconds, as RFC 3339 writes them (`CallsAssumption`); a
length is a number (`RateLenAssumption`), floats are exact up to some number
(`MaxExactAssumption`) and a day is a whole number of seconds
(`ClockAssumption`). What a field holds beyond that is left open: its texts may
be anything.

Induction. The induction theorems of the library take an operator, which no
prover at hand can instantiate. `MoneyProofs` gets induction from the least
element of a set of naturals instead (`LeastNatural`, itself from the
well-founded order of finite sets): what a set contains with 0, and with `k +
1` when it contains `k`, it contains up to any bound (`UpTo`). That each fold
of the models exists and satisfies its equations (`FoldDefined`, `SumOfFold`),
and every sum over a sequence or a set, is proved from that.

### The arguments

For `Compose`: `Reconciled`, the deficit and the type are facts about one
invoice, and the last part of `MoneyProofs` shows that each kind of step keeps
them (`Sound`): a percentage by `RoundFraction`, a draw because it is positive
only when it is at most a positive total. `WrapIsExact` is why unguarded
negations and subtractions are harmless where they occur. `NoOverdraft` and
`AllOrNothing` are not inductive: that the commit loop takes a balance to a
value that is not negative follows from how the recorded draws relate to what
the balance held when the composition began. `IInv` therefore adds that a
balance is in at most one composition (`Exclusive`); that a held balance reads
its opening value until the loop has reached it, and then that value less its
draws (`BalanceSince`); that the draws recorded against a balance never exceed
its opening value (`DrawsCovered`); and that draws are recorded, and balances
paid, only while and where a composition runs (`DrawsHeld`,
`PaidWhileCommitting`). `CreditShown` is inductive relative to `IInv`: a draw
adds the same amount to one term of the sum over the balances and to the lines.
The refinement maps a balance that is still to be decremented to what it will
be (`LedgerBalance`): `Finish` maps to the one step in which the ledger
settles, `Commit` and `Return` to no step at all.

For `Metering`, the state is what `Rate` answers at the present usage
(`Metered`), and the rest is about `Rate`. A schedule that passes has bounds
that climb up to a last band without one (`InOrder`), so that the first band
that reaches a unit is the only one that holds it (`OneBand`), and the loop of
`rateGraduated` lists every band up to it (`BandsAre`). Exact amounts are added
as fractions and compared by cross products (`Same`, `AtMost`): one unit more
adds its own band's rate and changes no other band (`BandSumNext`), so the sum
by bands is the sum by units (`UnitByUnit`), and `RoundReduced` lets the one
rounding see no difference in terms. The subtotals of a graduated charge are an
apportioning of the rounded total by weights over a common denominator, which
`ApportionOf` shows to sum to it. That more usage never costs less is
`AmountGrows`, with `RoundMonotone`, for the amount before it meets the guards,
and `UsageAnswers`, by which a charge is refused exactly when that amount is
beyond the type.

For `Allocation`, `Inv` has one conjunct for each loop: the running sum is that
of the weights read so far (`Summing`), normalised weights are not negative and
not all zero (`Weighed`), quotients and remainders are those of the parts
divided so far (`Dividing`, `Divided`), the first parts of the order have been
handed a unit each (`Handing`), and the sign is put back (`Signed`). The
leftover is the sum of the remainders divided by the sum of the weights. Every
remainder is below that sum, so the leftover is fewer than the parts with a
remainder (`LeftoverBound`): the loop never runs off the order and never
reaches a part that divides exactly. The order sorts by a strict total order
(`RankApart`), which makes the parts that are handed a unit those with the
fewest parts ahead of them: the definition without loops.

For `Proration`, both bases are one measure (`Measure`): a fraction is the
measure from its lower to its upper end over that of the period
(`FractionMeasures`), whichever the basis. The measure never falls as time
passes, by seconds always (`NanosAreElapsed`) and by dates when the zone's
dates advance (`DatesMonotone`), so the remaining part lies between zero and
the whole (`RemainingInUnit`) and shrinks (`RemainingShrinks`); the lemmas
about rounding do the rest. The partition needs no order, only that measures
add up. That each date counts once (`DaysAreCountedOnce`) needs that the dates
of the period follow one another (`DatesFollow`), a hypothesis that came out of
the attempt to prove it: where a zone leaves a date out, as Samoa did on
2011-12-30, the day basis counts a date that no clock showed. The theorems are
about `Proration`, whose operators, all of `Period`, are those that both front
ends call.

For `Calendar`, months are numbered from the January of the year 0 and
`MonthStart` is the first day of each. It climbs by 28 to 31 days a month
(`MonthsFollow`), so that a day is in one month only (`MonthIs`) and `DateOf`
finds it (`DateIs`). `civilDay`'s eras and its 153 days to five months are then
checked against the table of months and the count of leap years (`EraYears`,
`DaysFromMarch`). The boundary `k` units from the anchor is time.Date of the
anchor's clock on the billing day of the month `k` units on (`AddCyclesIs`),
whatever the clamping and the floored division. Where no clock change crosses
the end of a month (`KeepsMonths`) instants rise through the months
(`InstantsRise`), and a step below the estimate is meant for an earlier month
than `from`'s, so that its boundary is not after it (`BeforeEstimate`);
boundaries go on past every instant (`BoundariesGoOn`), so the recursive walk
has a value, and that is the first step whose boundary is after `from`
(`WalkIs`). So `NextBoundary` is the first boundary of all of them after `from`
(`NextIs`), and what is first after one instant is first after the next one
unless it is that instant (`CyclesInTurn`). In a zone of one offset the
boundaries are exactly the anniversaries (`AnniversaryIs`) and climb
(`PlainClimbs`). For calendar cycles the estimate is 0, and since a midnight
that comes once divides the instants as it does the local times (`ComesOnce`),
the walk takes one step (`FromTheFirst`).

For `Tariffd`, `Inv` describes a connection by the place it is at (`Kept`):
before its handler runs nothing is written (`Untouched`); while it runs, the
response is what the operations so far make of an empty one (`Underway`,
`After`), and when it has ended, that of all of them or of a panic recovered
from (`Ended`, `Left`). The lemmas about the writers (`Fresh`, `Agreed`) say
that the first header fixes the status, that the rewriting of a 404 or 405
swallows the body it replaces, and that whoever answers answers in one piece.
`Ending` relates how `Run` returned to what it saw, which `OrderlyStop` needs.
`TokensAreAskedFor` goes through the fold of `parseTokens`: the tokens kept are
the elements of the list that are not blank (`TokensNamed`). `Inv` was checked
by TLC on the instance of the run `tariffd` before it was proved.

For `ComposeService`, the history variable `after` keeps the invoice of the
first run after each of its steps. `ServiceInv` says that every entry is its
step applied to the one before (`Grounded`), that its recorded draws are those
of the draw steps so far, each by as much as its step moved the total (`Good`),
and that a run over a prefix goes through the same invoices (`Running`): so a
step that passed passes again. A step other than a draw moves the total by an
amount that was itself added to it behind a guard, a draw by at most the
balance, which is why the unguarded difference of two totals stays in the type
(`OtherStepMoves`, `DrawMoves`).

For `FrontEnds`, `FrontInv` says that the compose handler is at rest (`Idle`)
or satisfies `ServiceInv` for the request that is the call, and that what has
been answered is what each front end makes of the call. That is enough for the
three properties of the handler beside the other endpoints, and turns the
others into statements about operators. TLC checked `FrontInv` on all calls of
`compose_service` and on its requests of up to two steps.

Each front end has an instance of `Rating`, `Period` and `Boundaries` of its
own, and to the provers `Service!Rates!Rate` and `Page!Rates!Rate` are
strangers. A lemma for each pair of twins, from the leaves up, shows that an
operator of the library means the same in both (`SameRate`, `SameChange`,
`SameNext`). A handler is a list of parts that are read in turn (`Concluded`):
it answers with the first that is not understood (`FirstRefusal`), or with what
the call comes to. Two lists pair when each part is read alike by both or is
refused by `tariffd` alone for a date (`Read`, `Paired`), and paired lists
agree and have codes (`PairedAgree`, `PairedNamed`). What remains is one lemma
for each endpoint (`RateCompared` to `BoundaryCompared`) and, for the errors,
that every outcome of the library is one that both tables know: those of a
charge, a period or a change (`RateNamed`, `FractionNamed`, `ChangeNamed`) and
those of every kind of step (`FailuresAreNamed`, `FailureNamed`). An amount is
the same text because both front ends call the same `Format`, and a float that
holds every integer up to `MaxExact` holds it as it is (`AmountsAlike`).

For compositions, the page folds the steps as a function and the handler takes
them one by one. As long as both pass, the fold's invoices are the entries of
`after` (`ComposedAfter`); where one step does not pass, it fails both with the
same sentinel (`ComposedFails`), whose rows in the two tables agree
(`CodesAreTheTable`). So the page refuses exactly what the handler refuses and
by the same code (`RefusedByBoth`), it tells the same amounts of what the
handler answers (`ToldByBoth`, `RepliesTell`), and by `EffectsAreMoves` its
running column, a sum of effects that nothing guards, is the total of each
invoice in turn: no partial sum wraps because every one of them is a total.

`AnswersLeadOn` rests on `CalendarProofs`. The boundaries that `tariffd` tells
are twins of those that the theorems there are about (`BilledNext`,
`BilledCalendarNext`); in a zone of one offset, which that of a timestamp is,
the boundary after a boundary is that of the next cycle (`CyclesFollow`,
`FirstsFollow`); and the text of an answer, which drops what is below the
second, is that boundary itself, because it has the clock of an anchor at a
whole second, or that of midnight (`WholeSeconds`). The last is where a
hypothesis on the anchor is needed, the one that `AnswersLeadOn` states.

Every safety invariant and every action property that a passing run checks is
the statement of a theorem, and so is the refinement. Only model-checked is
the liveness property, `StopsWhenTold`: it needs fairness and ENABLED, which
are out of the prover's reach. The properties
that the code violates have their counterexamples and no theorem.

## Not modelled

Every component with logic of its own is modelled.

Left out are `register`'s recovery from panics, as no call of the page can be
made to panic; the web page, DOM code around the calls; the examples,
straight-line programs that print results; wording, labels, logging, package
documentation (`doc.go`) and the OpenAPI document.
