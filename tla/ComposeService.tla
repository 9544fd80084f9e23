--------------------------- MODULE ComposeService ---------------------------
(***************************************************************************)
(* tariffd's compose handler (tariffd/internal/api/compose.go): a request  *)
(* is parsed, composed once for its invoice, and once more for each prefix *)
(* of its steps, to tell by how much each step moved the total.  Every run *)
(* of Compose has balances of its own, one to a draw step: a step's number *)
(* is the pointer to its balance.                                          *)
(*                                                                         *)
(* The code of a currency stands for what Charged compares: the code and   *)
(* the decimals.                                                           *)
(***************************************************************************)
EXTENDS Invoice, Sequences

CONSTANTS Requests,         \* each a body, a currency and steps
          MaxComposeSteps,  \* 512 in the code
          Scale, NoRate, TicksPerSecond, TicksPerDay,
          MaxRateLen, MaxRateExp   \* as in Wire

Service == INSTANCE Wire

Draws == {"credit", "commitment"}

\* The outcome of Charge.Rate for the charge and the quantity of a step.
Rated(s) == Service!Rates!Rate(Service!ToCharge(s.charge).value, s.quantity)

IsCharge(c) ==
    /\ Len(c.tiers) \in Nat /\ DOMAIN c.tiers = 1 .. Len(c.tiers)
    /\ c.rate.len \in Nat
    /\ \A k \in DOMAIN c.tiers : c.tiers[k].rate.len \in Nat

\* That a charge is rated at an amount of the type is RatedAsComposeAssumes in
\* Metering.  A step of no known type may be anything.
IsStep(s) ==
    \/ s.type = "charge" /\ s.charge = Nil
    \/ /\ s.type = "charge" /\ s.charge # Nil /\ IsCharge(s.charge)
       /\ Service!ToCharge(s.charge).ok /\ Rated(s).ok => Rated(s).total \in 0 .. MaxInt
    \/ /\ s.type = "percent_off" /\ s.pct.len \in Nat
       /\ s.pct.rat # Nil => s.pct.rat.n \in Int /\ s.pct.rat.d \in Nat \ {0}
    \/ s.type \in {"amount_off", "minimum"} /\ s.minor \in Int64
    \/ s.type \in Draws /\ s.balance \in Int64
    \/ s.type \notin {"charge", "percent_off", "amount_off", "minimum"} \cup Draws

ASSUME RequestsAssumption ==
    \A r \in Requests : /\ Len(r.steps) \in Nat /\ DOMAIN r.steps = 1 .. Len(r.steps)
                        /\ \A i \in 1 .. Len(r.steps) : IsStep(r.steps[i])
ASSUME BalancesAssumption ==
    MaxComposeSteps \in Nat /\ Balances = 1 .. MaxComposeSteps

VARIABLES phase,     \* where the handler is
          request,   \* the body
          run,       \* the call of Compose in progress, over steps 1 .. upTo
          invoice,   \* the invoice of the first run
          shown,     \* the balances of the first run after its draws
          prev,      \* the total of the last prefix
          effects,   \* what stepEffects has gathered
          answer,    \* the response
          after      \* history: the invoice of the first run after each step

vars == <<phase, request, run, invoice, shown, prev, effects, answer, after>>

N == Len(request.steps)

(***************************************************************************)
(* The parts of a request: the body, the step cap, the currency and what   *)
(* parseSteps makes of the steps.                                          *)
(***************************************************************************)
ParseStep(s) ==
    IF s.type = "charge"
    THEN IF s.charge = Nil THEN Service!Bad("steps.charge") ELSE Service!ToCharge(s.charge)
    ELSE IF s.type = "percent_off" THEN Service!RatString("steps.pct", s.pct)
    ELSE IF s.type \in {"amount_off", "minimum"} \cup Draws THEN Service!Parsed(s)
    ELSE Service!Bad("steps.type")

CapSteps == IF N > MaxComposeSteps THEN Service!Bad("steps") ELSE Service!Parsed(N)

ParseSteps ==
    Service!Joined([i \in DOMAIN request.steps |-> ParseStep(request.steps[i])], request.steps)

Parts == <<Service!DecodeBody(request.body), CapSteps,
           Service!ToCurrency(request.currency), ParseSteps>>

Parses == \A k \in DOMAIN Parts : Parts[k].ok

Rounding == Service!ToCurrency(request.currency).value

(***************************************************************************)
(* What a step of a request does, by the operators of Invoice, and what it *)
(* fails with.                                                             *)
(***************************************************************************)
RatingOf(s) == RatingFrom(s.charge.currency.code = request.currency.code, Rated(s))

\* An empty text is a nil percentage.
PctOf(s) ==
    LET pct == Service!RatString("steps.pct", s.pct).value
    IN  IF pct = NoRate THEN Nil ELSE pct

Passes(inv, i, balances) ==
    LET s == request.steps[i]
    IN  \/ s.type = "charge" /\ ChargedPasses(inv, RatingOf(s))
        \/ s.type = "percent_off" /\ PercentOffPasses(inv, PctOf(s))
        \/ s.type = "amount_off" /\ AmountOffPasses(inv, s.minor)
        \/ s.type = "minimum" /\ MinimumPasses(inv, s.minor)
        \/ s.type \in Draws /\ DrawPasses(inv, i, balances[i])

Applied(inv, i, balances) ==
    LET s == request.steps[i]
    IN  IF s.type = "charge" THEN ChargedApplied(inv, RatingOf(s))
        ELSE IF s.type = "percent_off" THEN PercentOffApplied(inv, PctOf(s))
        ELSE IF s.type = "amount_off" THEN AmountOffApplied(inv, s.minor)
        ELSE IF s.type = "minimum" THEN MinimumApplied(inv, s.minor)
        ELSE DrawApplied(inv, i, balances[i])

Failure(i, balances) ==
    LET s == request.steps[i]
    IN  IF s.type = "charge" THEN ChargedFailure(RatingOf(s))
        ELSE IF s.type = "percent_off" THEN PercentOffFailure(PctOf(s))
        ELSE IF s.type = "amount_off" THEN AmountOffFailure(s.minor)
        ELSE IF s.type = "minimum" THEN MinimumFailure(s.minor)
        ELSE DrawFailure(balances[i])

\* Faulty: every run is given the balances of the first.
FreshShared ==
    IF phase = "composed" THEN shown
    ELSE [b \in Balances |-> IF b <= N /\ request.steps[b].type \in Draws
                             THEN request.steps[b].balance ELSE 0]

\* buildSteps: a copy of each balance.
Fresh == [b \in Balances |-> IF b <= N /\ request.steps[b].type \in Draws
                             THEN request.steps[b].balance ELSE 0]

NewRun(n) == [upTo |-> n, done |-> 0,
              inv |-> EmptyInvoice(Rounding), balances |-> Fresh]

\* The commit loop of Compose.
Committed == [b \in Balances |-> Wrap(run.balances[b] - run.inv.draws[b])]

\* Faulty: the effect of a step is taken from the start.
EffectSoFar(total) == total

Effect(total) == Wrap(total - prev)

\* The composeResponse.  Its lines are left out: their sums are posted in the
\* invoice.
Reply ==
    [subtotal |-> Service!Amount(invoice.subtotal),
     total    |-> Service!Amount(invoice.total),
     steps    |-> [i \in 1 .. N |->
       [effect  |-> Service!Amount(effects[i]),
        balance |-> IF request.steps[i].type \in Draws
                    THEN Service!Amount(shown[i]) ELSE Nil]]]

Pending == Service!Refusal(0, "pending", "none")

-----------------------------------------------------------------------------
Init == /\ phase = "received"
        /\ request \in Requests
        /\ run = [upTo |-> 0, done |-> 0,
                  inv |-> EmptyInvoice("unset"), balances |-> [b \in Balances |-> 0]]
        /\ invoice = EmptyInvoice("unset")
        /\ shown = [b \in Balances |-> 0]
        /\ prev = 0 /\ effects = <<>> /\ answer = Pending /\ after = <<>>

\* respondError.
Fail(refusal) ==
    /\ phase' = "answered"
    /\ answer' = refusal
    /\ UNCHANGED <<request, run, invoice, shown, prev, effects, after>>

\* What cannot be read; then Compose validates the currency.
Refuse == /\ phase = "received"
          /\ \/ ~Parses /\ Fail(Service!Concluded(Parts, Pending))
             \/ Parses /\ Rounding \notin Modes /\ Fail(Service!MapError("ErrBadCurrency"))

Begin == /\ phase = "received"
         /\ Parses /\ Rounding \in Modes
         /\ phase' = "composing"
         /\ run' = NewRun(N)
         /\ UNCHANGED <<request, invoice, shown, prev, effects, answer, after>>

\* One turn of the fold of the run in progress.
Fold ==
    /\ phase \in {"composing", "recomposing"}
    /\ run.done < run.upTo
    /\ LET i == run.done + 1
       IN  \/ /\ Passes(run.inv, i, run.balances)
              /\ run' = [run EXCEPT !.done = i, !.inv = Applied(run.inv, i, run.balances)]
              /\ after' = IF phase = "composing" THEN Append(after, run'.inv) ELSE after
              /\ UNCHANGED <<phase, request, invoice, shown, prev, effects, answer>>
           \/ /\ ~Passes(run.inv, i, run.balances)
              /\ Fail(Service!MapError(Failure(i, run.balances)))

\* The first run has ended: its invoice and its balances are kept.
Composed ==
    /\ phase = "composing" /\ run.done = run.upTo
    /\ phase' = "composed"
    /\ invoice' = run.inv
    /\ shown' = Committed
    /\ UNCHANGED <<request, run, prev, effects, answer, after>>

\* Faulty: a prefix is composed on top of the one before.
RecomposeOnTop ==
    /\ phase = "composed" /\ Len(effects) < N
    /\ phase' = "recomposing"
    /\ run' = [NewRun(Len(effects) + 1) EXCEPT !.inv = run.inv]
    /\ UNCHANGED <<request, invoice, shown, prev, effects, answer, after>>

\* stepEffects composes the next prefix.
Recompose ==
    /\ phase = "composed" /\ Len(effects) < N
    /\ phase' = "recomposing"
    /\ run' = NewRun(Len(effects) + 1)
    /\ UNCHANGED <<request, invoice, shown, prev, effects, answer, after>>

\* The run over a prefix has ended: only its total is of interest.
Recomposed ==
    /\ phase = "recomposing" /\ run.done = run.upTo
    /\ phase' = "composed"
    /\ effects' = Append(effects, Effect(run.inv.total))
    /\ prev' = run.inv.total
    /\ UNCHANGED <<request, run, invoice, shown, answer, after>>

Respond ==
    /\ phase = "composed" /\ Len(effects) = N
    /\ phase' = "answered"
    /\ answer' = Service!Answer(Reply)
    /\ UNCHANGED <<request, run, invoice, shown, prev, effects, after>>

Next == Refuse \/ Begin \/ Fold \/ Composed \/ Recompose \/ Recomposed \/ Respond

Spec == Init /\ [][Next]_vars

-----------------------------------------------------------------------------
(***************************************************************************)
(* Properties.                                                             *)
(***************************************************************************)

\* The invoice of the first run after n steps.
After(n) == IF n = 0 THEN EmptyInvoice(Rounding) ELSE after[n]

\* stepEffects: "if the full composition succeeded every prefix does too": once
\* there is an invoice, the answer is no error.
NoPrefixFails == invoice.rounding \in Modes => answer.status \in {0, 200}

\* composeStepEffectDTO: an effect is "the amount it moved the running total
\* by", of the run that made the invoice and not only of the prefixes; none
\* wraps, and together they make up the total.
EffectsAreMoves ==
    /\ \A i \in 1 .. Len(effects) :
          effects[i] = After(i).total - After(i - 1).total
    /\ answer.status = 200 => Len(effects) = N /\ invoice = After(N)

\* "The service returns what the balance became after the draw": the balance
\* of the first run and the effect of the others tell of the same draw, and
\* neither overdraws.
BalancesMatchEffects ==
    answer.status = 200 => \A i \in 1 .. N : request.steps[i].type \in Draws =>
      /\ effects[i] <= 0
      /\ shown[i] = request.steps[i].balance + effects[i]
      /\ shown[i] >= 0

=============================================================================
