------------------------------ MODULE Compose ------------------------------
(***************************************************************************)
(* Compose: callers fold steps over an empty invoice.  A draw step records *)
(* the decrement of a caller-owned balance instead of making it, and only  *)
(* when every step has passed does the commit loop decrement the balances, *)
(* one after the other.                                                    *)
(*                                                                         *)
(* A caller's list of steps is revealed one step at a time.  Compositions  *)
(* of different callers interleave; a balance is passed to one composition *)
(* at a time, which is what "caller-owned" asks of the caller and what the *)
(* HTTP API does by giving every request balances of its own.              *)
(***************************************************************************)
EXTENDS Invoice, FiniteSets, Functions

CONSTANTS Callers,     \* goroutines that call Compose
          Openings,    \* values a balance may have at the start
          Roundings,   \* rounding modes of the currencies passed, "unset" too
          Ratings,     \* outcomes of Charge.Rate
          Percents,    \* arguments of PercentOff (Nil too)
          Amounts,     \* arguments of AmountOff
          Floors,      \* arguments of MinimumCharge
          MaxSteps     \* bound: the longest list of steps

ASSUME BalancesAssumption == IsFiniteSet(Balances)
ASSUME RatingsAssumption ==
    Ratings \subseteq [sameCurrency : BOOLEAN, rated : BOOLEAN, total : 0 .. MaxInt]
ASSUME PercentsAssumption ==
    \A p \in Percents \ {Nil} : p.n \in Int /\ p.d \in Nat \ {0}
ASSUME ArgumentsAssumption ==
    /\ Openings \subseteq Int64
    /\ Amounts \subseteq Int64
    /\ Floors \subseteq Int64
    /\ Roundings \subseteq Modes \cup {"unset"}
    /\ MaxSteps \in Nat

VARIABLES balance,   \* the caller-owned balances
          pc,        \* how far each caller's composition has come
          held,      \* the balances passed to it
          inv,       \* its invoice
          paid,      \* the balances its commit loop has decremented
          steps,     \* how many steps it has folded
          opening    \* history: the held balances when it began

vars == <<balance, pc, held, inv, paid, steps, opening>>

NoBalances == [b \in Balances |-> 0]

Active == {"folding", "committing"}

Init ==
    /\ balance \in [Balances -> Openings]
    /\ pc = [c \in Callers |-> "idle"]
    /\ held = [c \in Callers |-> {}]
    /\ inv = [c \in Callers |-> EmptyInvoice("unset")]
    /\ paid = [c \in Callers |-> {}]
    /\ steps = [c \in Callers |-> 0]
    /\ opening = [c \in Callers |-> NoBalances]

\* Faulty: the owner lets go of a balance that a composition still has.
FreeAlways == Balances

Free == Balances \ UNION {held[c] : c \in Callers}

\* Compose answers, with an invoice or an error: the caller has its balances
\* back, and what the call kept for itself is gone.
Answer(c, how) ==
    /\ pc' = [pc EXCEPT ![c] = how]
    /\ held' = [held EXCEPT ![c] = {}]
    /\ paid' = [paid EXCEPT ![c] = {}]
    /\ steps' = [steps EXCEPT ![c] = 0]
    /\ opening' = [opening EXCEPT ![c] = NoBalances]

\* A call of Compose, which validates the currency before anything else.
Begin(c) ==
    /\ pc[c] \notin Active
    /\ \E bs \in SUBSET Free, r \in Roundings :
         \/ /\ r \in Modes
            /\ pc' = [pc EXCEPT ![c] = "folding"]
            /\ held' = [held EXCEPT ![c] = bs]
            /\ opening' = [opening EXCEPT ![c] =
                             [b \in Balances |-> IF b \in bs THEN balance[b] ELSE 0]]
            /\ inv' = [inv EXCEPT ![c] = EmptyInvoice(r)]
            /\ UNCHANGED <<paid, steps>>
         \/ /\ r \notin Modes
            /\ inv' = [inv EXCEPT ![c] = EmptyInvoice("unset")]
            /\ Answer(c, "failed")
    /\ UNCHANGED balance

\* One turn of the fold: a step that passes leaves the invoice applied, one
\* that does not ends the composition with the zero invoice.
Fold(c, passes, applied) ==
    /\ pc[c] = "folding"
    /\ steps[c] < MaxSteps
    /\ \/ /\ passes
          /\ inv' = [inv EXCEPT ![c] = applied]
          /\ steps' = [steps EXCEPT ![c] = @ + 1]
          /\ UNCHANGED <<pc, held, paid, opening>>
       \/ /\ ~passes
          /\ inv' = [inv EXCEPT ![c] = EmptyInvoice("unset")]
          /\ Answer(c, "failed")
    /\ UNCHANGED balance

Charged(c) == \E r \in Ratings :
    Fold(c, ChargedPasses(inv[c], r), ChargedApplied(inv[c], r))

PercentOff(c) == \E p \in Percents :
    Fold(c, PercentOffPasses(inv[c], p), PercentOffApplied(inv[c], p))

AmountOff(c) == \E a \in Amounts :
    Fold(c, AmountOffPasses(inv[c], a), AmountOffApplied(inv[c], a))

MinimumCharge(c) == \E f \in Floors :
    Fold(c, MinimumPasses(inv[c], f), MinimumApplied(inv[c], f))

\* Faulty: the draw step decrements the caller's balance itself.
DrawNow(c) == \E b \in held[c] :
    /\ pc[c] = "folding" /\ steps[c] < MaxSteps
    /\ DrawAmount(inv[c], b, balance[b]) > 0
    /\ inv' = [inv EXCEPT ![c] =
                 AddLine(@, "draw", -DrawAmount(@, b, balance[b]))]
    /\ balance' = [balance EXCEPT ![b] = @ - DrawAmount(inv[c], b, @)]
    /\ steps' = [steps EXCEPT ![c] = @ + 1]
    /\ UNCHANGED <<pc, held, paid, opening>>

Draw(c) == \E b \in held[c] :
    Fold(c, DrawPasses(inv[c], b, balance[b]), DrawApplied(inv[c], b, balance[b]))

\* A nil step, or a draw on a nil pointer.
NilStep(c) == Fold(c, FALSE, inv[c])

\* The steps are exhausted and every one has passed.
Finish(c) ==
    /\ pc[c] = "folding"
    /\ pc' = [pc EXCEPT ![c] = "committing"]
    /\ UNCHANGED <<balance, held, inv, paid, steps, opening>>

Unpaid(c) == {b \in held[c] \ paid[c] : inv[c].draws[b] > 0}

\* One turn of the commit loop: the decrements of one balance.
Commit(c, b) ==
    /\ pc[c] = "committing"
    /\ b \in Unpaid(c)
    /\ balance' = [balance EXCEPT ![b] = Wrap(@ - inv[c].draws[b])]
    /\ paid' = [paid EXCEPT ![c] = @ \cup {b}]
    /\ UNCHANGED <<pc, held, inv, steps, opening>>

\* Faulty: the invoice is returned before the loop has ended.
ReturnEarly(c) ==
    /\ pc[c] = "committing"
    /\ inv' = [inv EXCEPT ![c].draws = NoBalances]
    /\ Answer(c, "returned")
    /\ UNCHANGED balance

\* The record of draws is dropped from the invoice that is returned.
Return(c) ==
    /\ pc[c] = "committing"
    /\ Unpaid(c) = {}
    /\ inv' = [inv EXCEPT ![c].draws = NoBalances]
    /\ Answer(c, "returned")
    /\ UNCHANGED balance

Step(c) == \/ Charged(c) \/ PercentOff(c) \/ AmountOff(c)
           \/ MinimumCharge(c) \/ Draw(c) \/ NilStep(c)

Run(c) == \/ Step(c) \/ Finish(c)
          \/ \E b \in Balances : Commit(c, b)
          \/ Return(c)

Next == \E c \in Callers : Begin(c) \/ Run(c)

Spec == Init /\ [][Next]_vars

-----------------------------------------------------------------------------
(***************************************************************************)
(* Properties.                                                             *)
(***************************************************************************)

\* Every amount of every invoice, and every balance, is a value of the
\* integer type: no operation, guarded or not, leaves it (compose.go, addLine
\* and the unguarded subtractions of draws).
TypeOK ==
    /\ balance \in [Balances -> Int64]
    /\ pc \in [Callers -> {"idle", "failed", "returned"} \cup Active]
    /\ held \in [Callers -> SUBSET Balances]
    /\ inv \in [Callers -> InvoiceType]
    /\ paid \in [Callers -> SUBSET Balances]
    /\ steps \in [Callers -> 0 .. MaxSteps]
    /\ opening \in [Callers -> [Balances -> Int64]]

\* Total is the sum of all line subtotals and Subtotal the sum of the charge
\* lines, at every step of every composition (Invoice.Total, Invoice.Subtotal).
Reconciles == \A c \in Callers : Reconciled(inv[c])

\* A total is below zero by no more than the fixed discounts taken: neither a
\* percentage nor a draw ever pushes it there (PercentOff, DrawCredit).
DeficitIsFixedDiscount == \A c \in Callers : NoOtherDeficit(inv[c])

\* The credit shown on an invoice is the credit it takes: the draw lines of
\* a running composition add up to the decrements recorded against all the
\* balances together (drawStep.apply writes the line and the record).
CreditShown == \A c \in Callers :
    pc[c] \in Active => inv[c].posted["draw"] = -SumFunction(inv[c].draws)

\* No composition ever leaves a balance overdrawn, however many of its steps
\* draw on the same pointer and whatever others run meanwhile (DrawCredit).
NoOverdraft ==
    [][\A b \in Balances : balance[b] >= 0 => balance'[b] >= 0]_vars

\* When Compose answers with an error every balance passed to it reads what
\* it read at the call; when it answers with an invoice, each has lost
\* exactly the draws recorded against it (the commit loop of Compose).
AllOrNothing ==
    [][\A c \in Callers :
         pc[c] \in Active /\ pc'[c] \notin Active =>
           \A b \in held[c] :
             balance'[b] = opening[c][b]
                           - (IF pc'[c] = "returned" THEN inv[c].draws[b] ELSE 0)]_vars

(***************************************************************************)
(* Compose implements the ledger: the draws of an invoice take effect, all *)
(* of them, at the moment its last step has passed.                        *)
(***************************************************************************)
Owed(b) == {c \in Callers : pc[c] = "committing" /\ b \in held[c] \ paid[c]}

LedgerBalance ==
    [b \in Balances |->
       IF Owed(b) = {} THEN balance[b]
       ELSE balance[b] - inv[CHOOSE c \in Owed(b) : TRUE].draws[b]]

LedgerStatus ==
    [c \in Callers |-> CASE pc[c] = "idle"    -> "none"
                         [] pc[c] = "folding" -> "open"
                         [] pc[c] = "failed"  -> "refused"
                         [] OTHER             -> "settled"]

Promise == INSTANCE Ledger WITH balance <- LedgerBalance, status <- LedgerStatus

\* The draws of a composition are seen all at once or not at all.
ImplementsLedger == Promise!Spec

(***************************************************************************)
(* Why: what holds between the balances, the recorded draws and the commit *)
(* loop at every moment.                                                   *)
(***************************************************************************)

\* A balance is in at most one composition.
Exclusive == \A c, d \in Callers : c # d => held[c] \cap held[d] = {}

\* Draws are recorded only on balances a running composition holds.
DrawsHeld == \A c \in Callers :
    /\ held[c] # {} => pc[c] \in Active
    /\ \A b \in Balances : inv[c].draws[b] > 0 => b \in held[c]

\* Only the commit loop decrements, and only balances it holds.
PaidWhileCommitting == \A c \in Callers :
    /\ paid[c] \subseteq held[c]
    /\ pc[c] = "folding" => paid[c] = {}

\* A held balance reads what it read at the call until the commit loop has
\* reached it, and then that value less its recorded draws.
BalanceSince == \A c \in Callers : \A b \in held[c] :
    balance[b] = opening[c][b] - (IF b \in paid[c] THEN inv[c].draws[b] ELSE 0)

\* What is recorded against a balance never exceeds what it held at the call.
DrawsCovered == \A c \in Callers, b \in Balances :
    inv[c].draws[b] > 0 => inv[c].draws[b] <= opening[c][b]

\* A composition that folds has a validated rounding mode.
ModeIsSet == \A c \in Callers :
    pc[c] = "folding" => inv[c].rounding \in Modes

\* A fixed discount takes off: needed for DeficitIsFixedDiscount.
FixedDiscounts == \A c \in Callers : inv[c].posted["amount"] <= 0

IInv == /\ TypeOK
        /\ Reconciles
        /\ DeficitIsFixedDiscount
        /\ FixedDiscounts
        /\ ModeIsSet
        /\ Exclusive
        /\ DrawsHeld
        /\ PaidWhileCommitting
        /\ BalanceSince
        /\ DrawsCovered

=============================================================================
