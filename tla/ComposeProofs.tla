--------------------------- MODULE ComposeProofs ---------------------------
(***************************************************************************)
(* What Compose keeps, for any callers, balances, steps and width of the   *)
(* integer: IInv is inductive, and the properties follow from it.          *)
(***************************************************************************)
EXTENDS Compose, MoneyProofs

\* The invoices in one conjunct.
LEMMA InvoicesAreSound ==
    (\A c \in Callers : Sound(inv[c])) <=>
    /\ \A c \in Callers : inv[c] \in InvoiceType
    /\ Reconciles /\ DeficitIsFixedDiscount /\ FixedDiscounts
  BY DEF Sound, Reconciles, DeficitIsFixedDiscount, FixedDiscounts

LEMMA IntegerRange == /\ 0 \in Int64 /\ MaxInt \in Int /\ MaxInt >= 0
                      /\ Int64 \subseteq Int
                      /\ 0 .. MaxInt \subseteq Int64
  BY MaxIntAssumption DEF Int64, MinInt

LEMMA InitIInv == Init => IInv
<1> SUFFICES ASSUME Init PROVE IInv
  OBVIOUS
<1> USE DEF Init
<1>1. Sound(EmptyInvoice("unset"))
  BY EmptyIsSound
<1>2. \A c \in Callers : Sound(inv[c])
  BY <1>1
<1>3. TypeOK
  <2>1. balance \in [Balances -> Int64]
    BY ArgumentsAssumption
  <2>2. inv \in [Callers -> InvoiceType]
    BY <1>1 DEF Sound
  <2>3. steps \in [Callers -> 0 .. MaxSteps]
    BY ArgumentsAssumption
  <2>4. opening \in [Callers -> [Balances -> Int64]]
    BY IntegerRange DEF NoBalances
  <2> QED
    BY <2>1, <2>2, <2>3, <2>4 DEF TypeOK
<1>4. Reconciles /\ DeficitIsFixedDiscount /\ FixedDiscounts
  BY <1>2, InvoicesAreSound
<1>5. ModeIsSet /\ Exclusive /\ PaidWhileCommitting /\ BalanceSince
  BY DEF ModeIsSet, Exclusive, PaidWhileCommitting, BalanceSince
<1>6. DrawsHeld /\ DrawsCovered
  BY DEF DrawsHeld, DrawsCovered, EmptyInvoice
<1> QED
  BY <1>3, <1>4, <1>5, <1>6 DEF IInv

\* A composition that answers keeps the invariant, whatever sound invoice
\* without draws it answers with.
LEMMA AnswerIInv ==
    ASSUME IInv, NEW c \in Callers, NEW i, Sound(i),
           \A b \in Balances : i.draws[b] = 0,
           NEW how \in {"failed", "returned"},
           inv' = [inv EXCEPT ![c] = i], Answer(c, how), UNCHANGED balance
    PROVE  IInv'
<1> USE DEF IInv
<1>1. /\ i \in InvoiceType
      /\ \A d \in Callers : Sound(inv[d])
  BY InvoicesAreSound DEF Sound, TypeOK
<1>2. \A d \in Callers : inv'[d] = IF d = c THEN i ELSE inv[d]
  BY DEF TypeOK
<1>3. /\ \A d \in Callers : pc'[d] = IF d = c THEN how ELSE pc[d]
      /\ \A d \in Callers : held'[d] = IF d = c THEN {} ELSE held[d]
      /\ \A d \in Callers : paid'[d] = IF d = c THEN {} ELSE paid[d]
      /\ \A d \in Callers : opening'[d] = IF d = c THEN NoBalances ELSE opening[d]
  BY DEF TypeOK, Answer
<1>4. how \notin Active
  BY DEF Active
<1>5. TypeOK'
  <2>1. inv' \in [Callers -> InvoiceType]
    BY <1>1 DEF TypeOK
  <2>2. NoBalances \in [Balances -> Int64]
    BY IntegerRange DEF NoBalances
  <2>3. /\ pc' \in [Callers -> {"idle", "failed", "returned"} \cup Active]
        /\ held' \in [Callers -> SUBSET Balances]
        /\ paid' \in [Callers -> SUBSET Balances]
    BY DEF TypeOK, Answer
  <2>4. /\ steps' \in [Callers -> 0 .. MaxSteps]
        /\ opening' \in [Callers -> [Balances -> Int64]]
    BY <2>2, ArgumentsAssumption DEF TypeOK, Answer
  <2> QED
    BY <2>1, <2>3, <2>4 DEF TypeOK
<1>6. \A d \in Callers : Sound(inv'[d])
  BY <1>1, <1>2
<1>7. (Reconciles /\ DeficitIsFixedDiscount /\ FixedDiscounts)'
  BY <1>6 DEF Sound, Reconciles, DeficitIsFixedDiscount, FixedDiscounts
<1>8. ModeIsSet'
  BY <1>2, <1>3, <1>4 DEF ModeIsSet, Active
<1>9. Exclusive'
  BY <1>3 DEF Exclusive
<1>10. DrawsHeld'
  BY <1>2, <1>3, IntegerRange DEF DrawsHeld
<1>11. PaidWhileCommitting'
  BY <1>3, <1>4 DEF PaidWhileCommitting, Active
<1>12. BalanceSince'
  BY <1>2, <1>3 DEF BalanceSince
<1>13. DrawsCovered'
  BY <1>2, <1>3, IntegerRange DEF DrawsCovered
<1> QED
  BY <1>5, <1>7, <1>8, <1>9, <1>10, <1>11, <1>12, <1>13

\* One turn of the fold keeps the invariant when the step it runs leaves a
\* sound invoice whose draws are on held balances and covered by them.
LEMMA FoldIInv ==
    ASSUME IInv, NEW c \in Callers, NEW passes \in BOOLEAN, NEW applied,
           pc[c] = "folding",
           passes => /\ Sound(applied)
                     /\ applied.rounding = inv[c].rounding
                     /\ \A b \in Balances : applied.draws[b] > 0 =>
                          b \in held[c] /\ applied.draws[b] <= opening[c][b],
           Fold(c, passes, applied)
    PROVE  IInv'
<1>1. CASE ~passes
  <2>1. inv' = [inv EXCEPT ![c] = EmptyInvoice("unset")]
    BY <1>1 DEF Fold
  <2>2. Answer(c, "failed") /\ UNCHANGED balance
    BY <1>1 DEF Fold
  <2>3. Sound(EmptyInvoice("unset"))
    BY EmptyIsSound
  <2>4. \A b \in Balances : EmptyInvoice("unset").draws[b] = 0
    BY DEF EmptyInvoice
  <2> QED
    BY <2>1, <2>2, <2>3, <2>4, AnswerIInv
<1>2. CASE passes
  <2> USE DEF IInv
  <2>1. /\ inv' = [inv EXCEPT ![c] = applied]
        /\ steps[c] < MaxSteps
        /\ steps' = [steps EXCEPT ![c] = @ + 1]
        /\ UNCHANGED <<pc, held, paid, opening, balance>>
    BY <1>2 DEF Fold
  <2>2. \A d \in Callers : inv'[d] = IF d = c THEN applied ELSE inv[d]
    BY <2>1 DEF TypeOK
  <2>3. \A d \in Callers : Sound(inv[d])
    BY InvoicesAreSound DEF TypeOK
  <2>4. \A d \in Callers : Sound(inv'[d])
    BY <1>2, <2>2, <2>3
  <2>5. TypeOK'
    <3>1. inv' \in [Callers -> InvoiceType]
      BY <1>2, <2>1 DEF TypeOK, Sound
    <3>2. steps[c] + 1 \in 0 .. MaxSteps
      BY <2>1, ArgumentsAssumption DEF TypeOK
    <3>3. steps' \in [Callers -> 0 .. MaxSteps]
      BY <2>1, <3>2 DEF TypeOK
    <3> QED
      BY <2>1, <3>1, <3>3 DEF TypeOK
  <2>6. (Reconciles /\ DeficitIsFixedDiscount /\ FixedDiscounts)'
    BY <2>4 DEF Sound, Reconciles, DeficitIsFixedDiscount, FixedDiscounts
  <2>7. ModeIsSet'
    BY <1>2, <2>1, <2>2 DEF ModeIsSet
  <2>8. Exclusive' /\ PaidWhileCommitting'
    BY <2>1 DEF Exclusive, PaidWhileCommitting
  <2>9. DrawsHeld'
    BY <1>2, <2>1, <2>2 DEF DrawsHeld
  <2>10. BalanceSince'
    <3>1. paid[c] = {}
      BY DEF PaidWhileCommitting
    <3> QED
      BY <2>1, <2>2, <3>1 DEF BalanceSince
  <2>11. DrawsCovered'
    BY <1>2, <2>1, <2>2 DEF DrawsCovered
  <2> QED
    BY <2>5, <2>6, <2>7, <2>8, <2>9, <2>10, <2>11
<1> QED
  BY <1>1, <1>2

LEMMA BeginIInv ==
    ASSUME IInv, NEW c \in Callers, Begin(c) PROVE IInv'
<1>1. PICK bs \in SUBSET Free, r \in Roundings :
        /\ \/ /\ r \in Modes
              /\ pc' = [pc EXCEPT ![c] = "folding"]
              /\ held' = [held EXCEPT ![c] = bs]
              /\ opening' = [opening EXCEPT ![c] =
                               [b \in Balances |-> IF b \in bs THEN balance[b] ELSE 0]]
              /\ inv' = [inv EXCEPT ![c] = EmptyInvoice(r)]
              /\ UNCHANGED <<paid, steps>>
           \/ /\ r \notin Modes
              /\ inv' = [inv EXCEPT ![c] = EmptyInvoice("unset")]
              /\ Answer(c, "failed")
        /\ UNCHANGED balance
  BY DEF Begin
<1>2. /\ pc[c] \notin Active
      /\ r \in Modes \cup {"unset"}
      /\ bs \in SUBSET Balances
      /\ \A d \in Callers : bs \cap held[d] = {}
  BY ArgumentsAssumption DEF Begin, Free
<1>3. CASE r \notin Modes
  <2>1. Sound(EmptyInvoice("unset"))
    BY EmptyIsSound
  <2>2. \A b \in Balances : EmptyInvoice("unset").draws[b] = 0
    BY DEF EmptyInvoice
  <2> QED
    BY <1>1, <1>3, <2>1, <2>2, AnswerIInv
<1>4. CASE r \in Modes
  <2> USE DEF IInv
  <2> DEFINE e == EmptyInvoice(r)
             o == [b \in Balances |-> IF b \in bs THEN balance[b] ELSE 0]
  <2>1. /\ Sound(e)
        /\ e.rounding = r
        /\ \A b \in Balances : e.draws[b] = 0
    BY <1>2, EmptyIsSound DEF EmptyInvoice
  <2> HIDE DEF e
  <2>2. o \in [Balances -> Int64]
    BY IntegerRange DEF TypeOK
  <2>3. /\ \A d \in Callers : inv'[d] = IF d = c THEN e ELSE inv[d]
        /\ \A d \in Callers : pc'[d] = IF d = c THEN "folding" ELSE pc[d]
        /\ \A d \in Callers : held'[d] = IF d = c THEN bs ELSE held[d]
        /\ \A d \in Callers : opening'[d] = IF d = c THEN o ELSE opening[d]
        /\ UNCHANGED <<paid, steps, balance>>
    BY <1>1, <1>4 DEF TypeOK, e
  <2>4. TypeOK'
    <3>1. inv' \in [Callers -> InvoiceType]
      BY <1>1, <1>4, <2>1 DEF TypeOK, Sound, e
    <3>2. opening' \in [Callers -> [Balances -> Int64]]
      BY <1>1, <1>4, <2>2 DEF TypeOK
    <3>3. /\ pc' \in [Callers -> {"idle", "failed", "returned"} \cup Active]
          /\ held' \in [Callers -> SUBSET Balances]
      BY <1>1, <1>2, <1>4 DEF TypeOK, Active
    <3> QED
      BY <2>3, <3>1, <3>2, <3>3 DEF TypeOK
  <2>opened. \A b \in bs : o[b] = balance[b]
    BY <1>2
  <2> HIDE DEF o
  <2>5. \A d \in Callers : Sound(inv'[d])
    BY <2>1, <2>3, InvoicesAreSound DEF TypeOK
  <2>6. (Reconciles /\ DeficitIsFixedDiscount /\ FixedDiscounts)'
    BY <2>5 DEF Sound, Reconciles, DeficitIsFixedDiscount, FixedDiscounts
  <2>7. ModeIsSet'
    BY <1>4, <2>1, <2>3 DEF ModeIsSet
  <2>8. Exclusive'
    BY <1>2, <2>3 DEF Exclusive
  <2>9. DrawsHeld'
    BY <2>1, <2>3, IntegerRange DEF DrawsHeld, Active
  <2>10. held[c] = {} /\ paid[c] = {}
    BY <1>2 DEF DrawsHeld, PaidWhileCommitting
  <2>11. PaidWhileCommitting'
    BY <2>3, <2>10 DEF PaidWhileCommitting
  <2>12. BalanceSince'
    <3> SUFFICES ASSUME NEW d \in Callers, NEW b \in held'[d]
                 PROVE  balance'[b] = opening'[d][b]
                          - (IF b \in paid'[d] THEN inv'[d].draws[b] ELSE 0)
      BY DEF BalanceSince
    <3>1. b \in Balances
      BY <2>4 DEF TypeOK
    <3>2. CASE d = c
      <4>1. b \in bs /\ b \notin paid'[d] /\ opening'[d][b] = balance[b]
        BY <2>3, <2>10, <2>opened, <3>2
      <4>2. balance[b] \in Int
        BY <3>1, IntegerRange DEF TypeOK
      <4> QED
        BY <2>3, <4>1, <4>2
    <3>3. CASE d # c
      BY <2>3, <3>3 DEF BalanceSince
    <3> QED
      BY <3>2, <3>3
  <2>13. DrawsCovered'
    BY <2>1, <2>3, IntegerRange DEF DrawsCovered
  <2> QED
    BY <2>4, <2>6, <2>7, <2>8, <2>9, <2>11, <2>12, <2>13
<1> QED
  BY <1>3, <1>4

\* What the fold of caller c starts its next step from.
LEMMA FoldingInvoice ==
    ASSUME IInv, NEW c \in Callers, pc[c] = "folding"
    PROVE  /\ Sound(inv[c])
           /\ inv[c].rounding \in Modes
           /\ \A b \in Balances : inv[c].draws[b] > 0 =>
                b \in held[c] /\ inv[c].draws[b] <= opening[c][b]
           /\ \A b \in held[c] : /\ b \in Balances
                                 /\ balance[b] \in Int64
                                 /\ balance[b] = opening[c][b]
<1> USE DEF IInv
<1>1. Sound(inv[c])
  BY InvoicesAreSound DEF TypeOK
<1>2. inv[c].rounding \in Modes
  BY DEF ModeIsSet
<1>3. \A b \in Balances : inv[c].draws[b] > 0 =>
        b \in held[c] /\ inv[c].draws[b] <= opening[c][b]
  BY DEF DrawsHeld, DrawsCovered
<1>4. \A b \in held[c] : /\ b \in Balances
                        /\ balance[b] \in Int64
                        /\ balance[b] = opening[c][b]
  <2> TAKE b \in held[c]
  <2>1. b \in Balances /\ balance[b] \in Int64 /\ opening[c][b] \in Int
    BY IntegerRange DEF TypeOK
  <2>2. b \notin paid[c]
    BY DEF PaidWhileCommitting
  <2> QED
    BY <2>1, <2>2 DEF BalanceSince
<1> QED
  BY <1>1, <1>2, <1>3, <1>4

LEMMA StepIInv ==
    ASSUME IInv, NEW c \in Callers, Step(c) PROVE IInv'
<1>1. pc[c] = "folding"
  BY DEF Step, Charged, PercentOff, AmountOff, MinimumCharge, Draw, NilStep, Fold
<1>2. /\ Sound(inv[c])
      /\ inv[c].rounding \in Modes
      /\ \A b \in Balances : inv[c].draws[b] > 0 =>
           b \in held[c] /\ inv[c].draws[b] <= opening[c][b]
      /\ \A b \in held[c] : /\ b \in Balances
                            /\ balance[b] \in Int64
                            /\ balance[b] = opening[c][b]
  BY <1>1, FoldingInvoice
<1>3. CASE Charged(c)
  <2>1. PICK r \in Ratings :
          Fold(c, ChargedPasses(inv[c], r), ChargedApplied(inv[c], r))
    BY <1>3 DEF Charged
  <2>2. r.total \in 0 .. MaxInt
    BY RatingsAssumption
  <2>3. ChargedPasses(inv[c], r) \in BOOLEAN
    BY <2>2 DEF ChargedPasses, LineFits, IsInt64
  <2>4. ChargedPasses(inv[c], r) =>
          /\ Sound(ChargedApplied(inv[c], r))
          /\ ChargedApplied(inv[c], r).draws = inv[c].draws
          /\ ChargedApplied(inv[c], r).rounding = inv[c].rounding
    BY <1>2, <2>2, ChargedSound
  <2> QED
    BY <1>1, <1>2, <2>1, <2>3, <2>4, FoldIInv
<1>4. CASE PercentOff(c)
  <2>1. PICK p \in Percents :
          Fold(c, PercentOffPasses(inv[c], p), PercentOffApplied(inv[c], p))
    BY <1>4 DEF PercentOff
  <2>2. PercentOffPasses(inv[c], p) \in BOOLEAN
    BY DEF PercentOffPasses
  <2>3. PercentOffPasses(inv[c], p) => p.n \in Int /\ p.d \in Nat \ {0}
    BY PercentsAssumption DEF PercentOffPasses
  <2>4. PercentOffPasses(inv[c], p) =>
          /\ Sound(PercentOffApplied(inv[c], p))
          /\ PercentOffApplied(inv[c], p).draws = inv[c].draws
          /\ PercentOffApplied(inv[c], p).rounding = inv[c].rounding
    BY <1>2, <2>3, PercentOffSound
  <2> QED
    BY <1>1, <1>2, <2>1, <2>2, <2>4, FoldIInv
<1>5. CASE AmountOff(c)
  <2>1. PICK a \in Amounts :
          Fold(c, AmountOffPasses(inv[c], a), AmountOffApplied(inv[c], a))
    BY <1>5 DEF AmountOff
  <2>2. AmountOffPasses(inv[c], a) \in BOOLEAN
    BY DEF AmountOffPasses
  <2>3. AmountOffPasses(inv[c], a) =>
          /\ Sound(AmountOffApplied(inv[c], a))
          /\ AmountOffApplied(inv[c], a).draws = inv[c].draws
          /\ AmountOffApplied(inv[c], a).rounding = inv[c].rounding
    BY <1>2, ArgumentsAssumption, AmountOffSound
  <2> QED
    BY <1>1, <1>2, <2>1, <2>2, <2>3, FoldIInv
<1>6. CASE MinimumCharge(c)
  <2>1. PICK f \in Floors :
          Fold(c, MinimumPasses(inv[c], f), MinimumApplied(inv[c], f))
    BY <1>6 DEF MinimumCharge
  <2>2. MinimumPasses(inv[c], f) \in BOOLEAN
    BY DEF MinimumPasses
  <2>3. MinimumPasses(inv[c], f) =>
          /\ Sound(MinimumApplied(inv[c], f))
          /\ MinimumApplied(inv[c], f).draws = inv[c].draws
          /\ MinimumApplied(inv[c], f).rounding = inv[c].rounding
    BY <1>2, ArgumentsAssumption, MinimumSound
  <2> QED
    BY <1>1, <1>2, <2>1, <2>2, <2>3, FoldIInv
<1>7. CASE Draw(c)
  <2>1. PICK b \in held[c] :
          Fold(c, DrawPasses(inv[c], b, balance[b]), DrawApplied(inv[c], b, balance[b]))
    BY <1>7 DEF Draw
  <2>2. DrawPasses(inv[c], b, balance[b]) \in BOOLEAN
    BY DEF DrawPasses
  <2>3. b \in Balances /\ balance[b] \in Int64 /\ balance[b] = opening[c][b]
    BY <1>2
  <2> DEFINE new == DrawApplied(inv[c], b, balance[b])
  <2>4. DrawPasses(inv[c], b, balance[b]) =>
          /\ Sound(new)
          /\ new.draws[b] > 0 => new.draws[b] <= balance[b]
          /\ \A x \in Balances \ {b} : new.draws[x] = inv[c].draws[x]
          /\ new.rounding = inv[c].rounding
    BY <1>2, <2>3, DrawSound
  <2> HIDE DEF new
  <2>5. DrawPasses(inv[c], b, balance[b]) =>
          \A x \in Balances : new.draws[x] > 0 =>
            x \in held[c] /\ new.draws[x] <= opening[c][x]
    BY <1>2, <2>3, <2>4
  <2> QED
    BY <1>1, <2>1, <2>2, <2>4, <2>5, FoldIInv DEF new
<1>8. CASE NilStep(c)
  BY <1>1, <1>8, FoldIInv DEF NilStep
<1> QED
  BY <1>3, <1>4, <1>5, <1>6, <1>7, <1>8 DEF Step

LEMMA FinishIInv ==
    ASSUME IInv, NEW c \in Callers, Finish(c) PROVE IInv'
<1> USE DEF IInv, Finish
<1>1. /\ \A d \in Callers : pc'[d] = IF d = c THEN "committing" ELSE pc[d]
      /\ UNCHANGED <<balance, held, inv, paid, steps, opening>>
  BY DEF TypeOK
<1>2. TypeOK'
  BY <1>1 DEF TypeOK, Active
<1>3. (Reconciles /\ DeficitIsFixedDiscount /\ FixedDiscounts)'
  BY <1>1 DEF Reconciles, DeficitIsFixedDiscount, FixedDiscounts
<1>4. (ModeIsSet /\ Exclusive /\ DrawsHeld /\ PaidWhileCommitting)'
  BY <1>1 DEF ModeIsSet, Exclusive, DrawsHeld, PaidWhileCommitting, Active
<1>5. (BalanceSince /\ DrawsCovered)'
  BY <1>1 DEF BalanceSince, DrawsCovered
<1> QED
  BY <1>2, <1>3, <1>4, <1>5

\* The decrement of one balance: exact, and within what the balance holds.
LEMMA CommitFacts ==
    ASSUME IInv, NEW c \in Callers, NEW b \in Balances, Commit(c, b)
    PROVE  /\ b \in held[c] /\ b \notin paid[c]
           /\ inv[c].draws[b] \in 1 .. MaxInt
           /\ inv[c].draws[b] <= balance[b]
           /\ balance[b] \in Int64
           /\ balance[b] = opening[c][b]
           /\ balance' = [balance EXCEPT ![b] = balance[b] - inv[c].draws[b]]
           /\ balance[b] - inv[c].draws[b] \in Int64
<1> USE DEF IInv
<1>1. b \in held[c] /\ b \notin paid[c] /\ inv[c].draws[b] > 0
  BY DEF Commit, Unpaid
<1>2. /\ balance[b] \in Int64 /\ opening[c][b] \in Int64
      /\ inv[c].draws[b] \in 0 .. MaxInt
  BY DEF TypeOK, InvoiceType
<1>3. balance[b] = opening[c][b]
  <2>1. balance[b] = opening[c][b] - 0
    BY <1>1 DEF BalanceSince
  <2>2. opening[c][b] \in Int
    BY <1>2, IntegerRange
  <2> QED
    BY <2>1, <2>2
<1>4. inv[c].draws[b] <= balance[b]
  BY <1>1, <1>3 DEF DrawsCovered
<1>5. balance[b] - inv[c].draws[b] \in Int64
  BY <1>1, <1>2, <1>4, MaxIntAssumption DEF Int64, MinInt
<1>6. balance' = [balance EXCEPT ![b] = balance[b] - inv[c].draws[b]]
  BY <1>5, WrapIsExact DEF Commit
<1> QED
  BY <1>1, <1>2, <1>3, <1>4, <1>5, <1>6, MaxIntAssumption

LEMMA CommitIInv ==
    ASSUME IInv, NEW c \in Callers, NEW b \in Balances, Commit(c, b)
    PROVE  IInv'
<1> USE DEF IInv
<1>1. /\ b \in held[c] /\ b \notin paid[c]
      /\ balance[b] = opening[c][b]
      /\ balance' = [balance EXCEPT ![b] = balance[b] - inv[c].draws[b]]
      /\ balance[b] - inv[c].draws[b] \in Int64
  BY CommitFacts
<1>2. /\ pc[c] = "committing"
      /\ paid' = [paid EXCEPT ![c] = @ \cup {b}]
      /\ UNCHANGED <<pc, held, inv, steps, opening>>
  BY DEF Commit
<1>3. /\ \A d \in Callers : paid'[d] = IF d = c THEN paid[c] \cup {b} ELSE paid[d]
      /\ \A x \in Balances : balance'[x] = IF x = b THEN balance[b] - inv[c].draws[b]
                                           ELSE balance[x]
  BY <1>1, <1>2 DEF TypeOK
<1>4. TypeOK'
  BY <1>1, <1>2 DEF TypeOK
<1>5. (Reconciles /\ DeficitIsFixedDiscount /\ FixedDiscounts /\ ModeIsSet)'
  BY <1>2 DEF Reconciles, DeficitIsFixedDiscount, FixedDiscounts, ModeIsSet
<1>6. (Exclusive /\ DrawsHeld /\ DrawsCovered)'
  BY <1>2 DEF Exclusive, DrawsHeld, DrawsCovered
<1>7. PaidWhileCommitting'
  BY <1>1, <1>2, <1>3 DEF PaidWhileCommitting
<1>8. BalanceSince'
  <2> SUFFICES ASSUME NEW d \in Callers, NEW x \in held[d]
               PROVE  balance'[x] = opening[d][x]
                        - (IF x \in paid'[d] THEN inv[d].draws[x] ELSE 0)
    BY <1>2 DEF BalanceSince
  <2>1. x \in Balances
    BY DEF TypeOK
  <2>2. CASE d = c
    BY <1>1, <1>3, <2>1, <2>2 DEF BalanceSince
  <2>3. CASE d # c
    <3>1. x # b
      BY <1>1, <2>3 DEF Exclusive
    <3> QED
      BY <1>3, <2>1, <2>3, <3>1 DEF BalanceSince
  <2> QED
    BY <2>2, <2>3
<1> QED
  BY <1>4, <1>5, <1>6, <1>7, <1>8

LEMMA ReturnIInv ==
    ASSUME IInv, NEW c \in Callers, Return(c) PROVE IInv'
<1> DEFINE i == [inv[c] EXCEPT !.draws = NoBalances]
<1>1. Sound(inv[c])
  BY InvoicesAreSound DEF IInv, TypeOK
<1>2. NoBalances \in [Balances -> 0 .. MaxInt] /\ \A b \in Balances : NoBalances[b] = 0
  BY MaxIntAssumption DEF NoBalances
<1>3. /\ i \in InvoiceType
      /\ i.total = inv[c].total /\ i.subtotal = inv[c].subtotal
      /\ i.posted = inv[c].posted /\ i.draws = NoBalances
  BY <1>1, <1>2 DEF Sound, InvoiceType
<1>4. inv' = [inv EXCEPT ![c] = i]
  BY DEF Return
<1>5. Answer(c, "returned") /\ UNCHANGED balance
  BY DEF Return
<1> HIDE DEF i
<1>6. Sound(i)
  BY <1>1, <1>3 DEF Sound, Reconciled, NoOtherDeficit
<1> QED
  BY <1>2, <1>3, <1>4, <1>5, <1>6, AnswerIInv

LEMMA NextIInv == IInv /\ [Next]_vars => IInv'
<1> SUFFICES ASSUME IInv, [Next]_vars PROVE IInv'
  OBVIOUS
<1>1. ASSUME NEW c \in Callers, Begin(c) PROVE IInv'
  BY <1>1, BeginIInv
<1>2. ASSUME NEW c \in Callers, Step(c) PROVE IInv'
  BY <1>2, StepIInv
<1>3. ASSUME NEW c \in Callers, Finish(c) PROVE IInv'
  BY <1>3, FinishIInv
<1>4. ASSUME NEW c \in Callers, NEW b \in Balances, Commit(c, b) PROVE IInv'
  BY <1>4, CommitIInv
<1>5. ASSUME NEW c \in Callers, Return(c) PROVE IInv'
  BY <1>5, ReturnIInv
<1>6. CASE UNCHANGED vars
  BY <1>6 DEF vars, IInv, TypeOK, Reconciles, DeficitIsFixedDiscount,
     FixedDiscounts, ModeIsSet, Exclusive, DrawsHeld, PaidWhileCommitting,
     BalanceSince, DrawsCovered
<1> QED
  BY <1>1, <1>2, <1>3, <1>4, <1>5, <1>6 DEF Next, Run

THEOREM Inductive == Spec => []IInv
<1>1. Init => IInv
  BY InitIInv
<1>2. IInv /\ [Next]_vars => IInv'
  BY NextIInv
<1> QED
  BY <1>1, <1>2, PTL DEF Spec

-----------------------------------------------------------------------------
(***************************************************************************)
(* The properties of Compose.                                              *)
(***************************************************************************)

\* Nothing in a composition ever leaves the integer type, and every unguarded
\* subtraction of compose.go is exact (Invoice, addLine, Compose).
THEOREM TypeCorrect == Spec => []TypeOK
<1>1. IInv => TypeOK
  BY DEF IInv
<1> QED
  BY <1>1, Inductive, PTL

\* The lines of every invoice add up to its Total, and its charge lines to
\* its Subtotal (addLine and every step).
THEOREM InvoicesReconcile == Spec => []Reconciles
<1>1. IInv => Reconciles
  BY DEF IInv
<1> QED
  BY <1>1, Inductive, PTL

\* Percentages and draws never push a total below zero (PercentOff, DrawCredit).
THEOREM OnlyFixedDiscountsOverdrive == Spec => []DeficitIsFixedDiscount
<1>1. IInv => DeficitIsFixedDiscount
  BY DEF IInv
<1> QED
  BY <1>1, Inductive, PTL

\* What a step that passes shows is what it records.
LEMMA StepShowsCredit ==
    ASSUME IInv, NEW c \in Callers, Step(c), pc'[c] \in Active,
           inv[c].posted["draw"] = -SumFunction(inv[c].draws)
    PROVE  inv'[c].posted["draw"] = -SumFunction(inv'[c].draws)
<1>1. pc[c] = "folding"
  BY DEF Step, Charged, PercentOff, AmountOff, MinimumCharge, Draw, NilStep, Fold
<1>2. /\ Sound(inv[c])
      /\ inv[c].rounding \in Modes
      /\ \A b \in Balances : inv[c].draws[b] > 0 =>
           b \in held[c] /\ inv[c].draws[b] <= opening[c][b]
      /\ \A b \in held[c] : /\ b \in Balances
                            /\ balance[b] \in Int64
                            /\ balance[b] = opening[c][b]
  BY <1>1, FoldingInvoice
<1>3. inv[c] \in InvoiceType
  BY <1>2 DEF Sound
<1>4. ASSUME NEW passes, NEW applied, Fold(c, passes, applied)
      PROVE  passes /\ inv'[c] = applied
  <2>1. pc \in [Callers -> {"idle", "failed", "returned"} \cup Active]
        /\ inv \in [Callers -> InvoiceType]
    BY DEF IInv, TypeOK
  <2>2. ~Answer(c, "failed")
    BY <2>1 DEF Answer, Active
  <2> QED
    BY <1>4, <2>1, <2>2 DEF Fold
<1>5. CASE Charged(c)
  <2>1. PICK r \in Ratings :
          Fold(c, ChargedPasses(inv[c], r), ChargedApplied(inv[c], r))
    BY <1>5 DEF Charged
  <2>2. ChargedPasses(inv[c], r) /\ inv'[c] = ChargedApplied(inv[c], r)
    BY <1>4, <2>1
  <2>3. r.total \in 0 .. MaxInt
    BY RatingsAssumption
  <2>4. inv'[c].draws = inv[c].draws
    BY <1>2, <2>2, <2>3, ChargedSound
  <2> QED
    BY <1>3, <2>2, <2>4, NoCreditShown
<1>6. CASE PercentOff(c)
  <2>1. PICK p \in Percents :
          Fold(c, PercentOffPasses(inv[c], p), PercentOffApplied(inv[c], p))
    BY <1>6 DEF PercentOff
  <2>2. PercentOffPasses(inv[c], p) /\ inv'[c] = PercentOffApplied(inv[c], p)
    BY <1>4, <2>1
  <2>3. p.n \in Int /\ p.d \in Nat \ {0}
    BY <2>2, PercentsAssumption DEF PercentOffPasses
  <2>4. inv'[c].draws = inv[c].draws
    BY <1>2, <2>2, <2>3, PercentOffSound
  <2> QED
    BY <1>3, <2>2, <2>4, NoCreditShown
<1>7. CASE AmountOff(c)
  <2>1. PICK a \in Amounts :
          Fold(c, AmountOffPasses(inv[c], a), AmountOffApplied(inv[c], a))
    BY <1>7 DEF AmountOff
  <2>2. AmountOffPasses(inv[c], a) /\ inv'[c] = AmountOffApplied(inv[c], a)
    BY <1>4, <2>1
  <2>3. inv'[c].draws = inv[c].draws
    BY <1>2, <2>2, ArgumentsAssumption, AmountOffSound
  <2> QED
    BY <1>3, <2>2, <2>3, NoCreditShown
<1>8. CASE MinimumCharge(c)
  <2>1. PICK f \in Floors :
          Fold(c, MinimumPasses(inv[c], f), MinimumApplied(inv[c], f))
    BY <1>8 DEF MinimumCharge
  <2>2. MinimumPasses(inv[c], f) /\ inv'[c] = MinimumApplied(inv[c], f)
    BY <1>4, <2>1
  <2>3. inv'[c].draws = inv[c].draws
    BY <1>2, <2>2, ArgumentsAssumption, MinimumSound
  <2> QED
    BY <1>3, <2>2, <2>3, NoCreditShown
<1>9. CASE Draw(c)
  <2>1. PICK b \in held[c] :
          Fold(c, DrawPasses(inv[c], b, balance[b]), DrawApplied(inv[c], b, balance[b]))
    BY <1>9 DEF Draw
  <2>2. DrawPasses(inv[c], b, balance[b]) /\ inv'[c] = DrawApplied(inv[c], b, balance[b])
    BY <1>4, <2>1
  <2>3. b \in Balances /\ balance[b] \in Int64 /\ balance[b] = opening[c][b]
    BY <1>2
  <2>4. /\ Sound(inv'[c])
        /\ \A x \in Balances \ {b} : inv'[c].draws[x] = inv[c].draws[x]
        /\ inv'[c].posted["draw"] + inv'[c].draws[b]
             = inv[c].posted["draw"] + inv[c].draws[b]
    BY <1>2, <2>2, <2>3, DrawSound
  <2> DEFINE old == inv[c].draws
             new == inv'[c].draws
  <2>5. /\ old \in [Balances -> Int] /\ new \in [Balances -> Int]
        /\ inv[c].posted["draw"] \in Int /\ inv'[c].posted["draw"] \in Int
    BY <1>3, <2>4, MaxIntAssumption DEF Sound, InvoiceType, Kinds
  <2>6. /\ \A x \in Balances \ {b} : new[x] = old[x]
        /\ inv'[c].posted["draw"] + new[b] = inv[c].posted["draw"] + old[b]
        /\ inv[c].posted["draw"] = -SumFunction(old)
    BY <2>4
  <2> HIDE DEF old, new
  <2>7. SumFunction(new) = SumFunction(old) + (new[b] - old[b])
    BY <2>3, <2>5, <2>6, BalancesAssumption, SumFunctionUpdate
  <2>8. SumFunction(old) \in Int
    <3>1. Balances \in SUBSET Balances
      OBVIOUS
    <3>2. \E p \in [SUBSET Balances -> Int] : SumFunction(old) = p[Balances]
      BY <2>5, BalancesAssumption, SumOverSet
    <3> QED
      BY <3>1, <3>2
  <2>9. inv'[c].posted["draw"] = -SumFunction(new)
    BY <2>3, <2>5, <2>6, <2>7, <2>8
  <2> QED
    BY <2>9 DEF new
<1>10. CASE NilStep(c)
  BY <1>4, <1>10 DEF NilStep
<1> QED
  BY <1>5, <1>6, <1>7, <1>8, <1>9, <1>10 DEF Step

\* The draw lines of a running composition come to the draws recorded against
\* all of its balances together (drawStep.apply).
THEOREM CreditIsShown == Spec => []CreditShown
<1>1. Init => CreditShown
  BY DEF Init, CreditShown, Active
<1>2. IInv /\ CreditShown /\ [Next]_vars => CreditShown'
  <2> SUFFICES ASSUME IInv, CreditShown, [Next]_vars,
                      NEW c \in Callers, pc'[c] \in Active
               PROVE  inv'[c].posted["draw"] = -SumFunction(inv'[c].draws)
    BY DEF CreditShown
  <2>1. pc \in [Callers -> {"idle", "failed", "returned"} \cup Active]
        /\ inv \in [Callers -> InvoiceType]
    BY DEF IInv, TypeOK
  <2>2. CASE pc'[c] = pc[c] /\ inv'[c] = inv[c]
    BY <2>2 DEF CreditShown
  <2>3. CASE Begin(c)
    <3>1. PICK r : inv'[c] = EmptyInvoice(r)
      BY <2>1, <2>3 DEF Begin
    <3>2. inv'[c].draws = [b \in Balances |-> 0] /\ inv'[c].posted["draw"] = 0
      BY <3>1 DEF EmptyInvoice, Kinds
    <3> QED
      BY <3>2, BalancesAssumption, SumFunctionZeros
  <2>4. CASE Step(c)
    <3>1. pc[c] \in Active
      BY <2>4 DEF Active, Step, Charged, PercentOff, AmountOff, MinimumCharge, Draw,
         NilStep, Fold
    <3> QED
      BY <2>4, <3>1, StepShowsCredit DEF CreditShown
  <2>5. CASE Finish(c) \/ \E b \in Balances : Commit(c, b)
    <3>1. pc[c] \in Active /\ inv' = inv
      BY <2>5 DEF Active, Finish, Commit
    <3> QED
      BY <3>1 DEF CreditShown
  <2>6. CASE Return(c)
    BY <2>1, <2>6 DEF Return, Answer, Active
  <2>7. ASSUME NEW d \in Callers, d # c, Begin(d) \/ Run(d)
        PROVE  pc'[c] = pc[c] /\ inv'[c] = inv[c]
    BY <2>1, <2>7 DEF Begin, Run, Step, Charged, PercentOff, AmountOff, MinimumCharge,
       Draw, NilStep, Fold, Finish, Commit, Return, Answer
  <2>8. CASE UNCHANGED vars
    BY <2>2, <2>8 DEF vars
  <2> QED
    BY <2>2, <2>3, <2>4, <2>5, <2>6, <2>7, <2>8 DEF Next, Run
<1> QED
  BY <1>1, <1>2, Inductive, PTL DEF Spec

\* A step changes balances only in the commit loop, one at a time.
LEMMA OnlyCommitPays ==
    ASSUME IInv, [Next]_vars
    PROVE  \/ UNCHANGED balance
           \/ \E c \in Callers, b \in Balances : Commit(c, b)
  BY DEF Next, Run, Step, Begin, Charged, PercentOff, AmountOff, MinimumCharge,
     Draw, NilStep, Fold, Finish, Return, vars

\* No composition leaves a balance overdrawn (DrawCredit, DrawCommitment).
THEOREM BalancesAreNeverOverdrawn == Spec => NoOverdraft
<1>1. IInv /\ [Next]_vars =>
        [\A b \in Balances : balance[b] >= 0 => balance'[b] >= 0]_vars
  <2> SUFFICES ASSUME IInv, [Next]_vars, NEW b \in Balances, balance[b] >= 0
               PROVE  balance'[b] >= 0
    OBVIOUS
  <2>1. CASE UNCHANGED balance
    BY <2>1
  <2>2. ASSUME NEW c \in Callers, NEW x \in Balances, Commit(c, x)
        PROVE  balance'[b] >= 0
    <3>1. /\ inv[c].draws[x] \in 1 .. MaxInt
          /\ inv[c].draws[x] <= balance[x]
          /\ balance[x] \in Int64
          /\ balance' = [balance EXCEPT ![x] = balance[x] - inv[c].draws[x]]
      BY <2>2, CommitFacts
    <3>2. balance \in [Balances -> Int64]
      BY DEF IInv, TypeOK
    <3>3. balance[x] \in Int /\ inv[c].draws[x] \in Int
      BY <3>1, MaxIntAssumption DEF Int64, MinInt
    <3>4. balance[x] - inv[c].draws[x] >= 0
      BY <3>1, <3>3
    <3>5. CASE x = b
      BY <3>1, <3>2, <3>4, <3>5
    <3>6. CASE x # b
      BY <3>1, <3>2, <3>6
    <3> QED
      BY <3>5, <3>6
  <2> QED
    BY <2>1, <2>2, OnlyCommitPays
<1> QED
  BY <1>1, Inductive, PTL DEF Spec, NoOverdraft

\* A failed composition has drawn nothing, a returned one exactly what it
\* recorded (the deferred draws of Compose).
THEOREM ComposeIsAllOrNothing == Spec => AllOrNothing
<1> DEFINE Settled == \A c \in Callers :
         pc[c] \in Active /\ pc'[c] \notin Active =>
           \A b \in held[c] :
             balance'[b] = opening[c][b]
                           - (IF pc'[c] = "returned" THEN inv[c].draws[b] ELSE 0)
<1>1. IInv /\ [Next]_vars => [Settled]_vars
  <2> SUFFICES ASSUME IInv, [Next]_vars,
                      NEW c \in Callers, pc[c] \in Active, pc'[c] \notin Active,
                      NEW b \in held[c]
               PROVE  balance'[b] = opening[c][b]
                           - (IF pc'[c] = "returned" THEN inv[c].draws[b] ELSE 0)
    OBVIOUS
  <2> USE DEF IInv
  <2>1. /\ pc \in [Callers -> {"idle", "failed", "returned"} \cup Active]
        /\ b \in Balances
        /\ opening[c][b] \in Int /\ inv[c].draws[b] \in 0 .. MaxInt
    <3>1. /\ pc \in [Callers -> {"idle", "failed", "returned"} \cup Active]
          /\ b \in Balances
      BY DEF TypeOK
    <3>2. opening[c][b] \in Int64 /\ inv[c] \in InvoiceType
      BY <3>1 DEF TypeOK
    <3>3. inv[c].draws[b] \in 0 .. MaxInt
      BY <3>1, <3>2 DEF InvoiceType
    <3> QED
      BY <3>1, <3>2, <3>3, IntegerRange
  <2>2. \/ /\ pc[c] = "folding" /\ pc'[c] = "failed" /\ UNCHANGED balance
        \/ Return(c)
    <3>1. ASSUME NEW d \in Callers, Begin(d) PROVE pc'[c] = pc[c]
      BY <2>1, <3>1 DEF Begin, Answer
    <3>2. ASSUME NEW d \in Callers, Step(d)
          PROVE  pc[c] = "folding" /\ pc'[c] = "failed" /\ UNCHANGED balance
      <4>1. PICK passes, applied : Fold(d, passes, applied)
        BY <3>2 DEF Step, Charged, PercentOff, AmountOff, MinimumCharge, Draw, NilStep
      <4> QED
        BY <2>1, <4>1 DEF Fold, Answer
    <3>3. ASSUME NEW d \in Callers, Finish(d) PROVE pc'[c] \in Active
      BY <2>1, <3>3 DEF Finish, Active
    <3>4. ASSUME NEW d \in Callers, NEW x \in Balances, Commit(d, x)
          PROVE  pc'[c] = pc[c]
      BY <3>4 DEF Commit
    <3>5. ASSUME NEW d \in Callers, Return(d) PROVE Return(c)
      BY <2>1, <3>5 DEF Return, Answer
    <3> QED
      BY <3>1, <3>2, <3>3, <3>4, <3>5 DEF Next, Run, vars
  <2>3. CASE pc[c] = "folding" /\ pc'[c] = "failed" /\ UNCHANGED balance
    BY <2>1, <2>3 DEF BalanceSince, PaidWhileCommitting
  <2>4. CASE Return(c)
    <3>1. pc'[c] = "returned" /\ UNCHANGED balance
      BY <2>1, <2>4 DEF Return, Answer
    <3>2. b \notin paid[c] => inv[c].draws[b] = 0
      BY <2>1, <2>4 DEF Return, Unpaid
    <3> QED
      BY <2>1, <3>1, <3>2 DEF BalanceSince
  <2> QED
    BY <2>2, <2>3, <2>4
<1> QED
  BY <1>1, Inductive, PTL DEF Spec, AllOrNothing

-----------------------------------------------------------------------------
(***************************************************************************)
(* Compose implements the ledger.                                          *)
(***************************************************************************)

\* The balance the ledger sees, with and without a commit loop under way.
LEMMA SeenBalance ==
    IInv => \A b \in Balances :
      /\ Owed(b) = {} => LedgerBalance[b] = balance[b]
      /\ \A c \in Callers :
           pc[c] = "committing" /\ b \in held[c] \ paid[c] =>
             LedgerBalance[b] = balance[b] - inv[c].draws[b]
<1> SUFFICES ASSUME IInv, NEW b \in Balances
             PROVE  /\ Owed(b) = {} => LedgerBalance[b] = balance[b]
                    /\ \A c \in Callers :
                         pc[c] = "committing" /\ b \in held[c] \ paid[c] =>
                           LedgerBalance[b] = balance[b] - inv[c].draws[b]
  OBVIOUS
<1>1. Owed(b) = {} => LedgerBalance[b] = balance[b]
  BY DEF LedgerBalance
<1>2. ASSUME NEW c \in Callers, pc[c] = "committing", b \in held[c] \ paid[c]
      PROVE  LedgerBalance[b] = balance[b] - inv[c].draws[b]
  <2>1. c \in Owed(b)
    BY <1>2 DEF Owed
  <2>2. \A d \in Owed(b) : d = c
    BY <1>2 DEF Owed, IInv, Exclusive
  <2>3. (CHOOSE d \in Owed(b) : TRUE) = c
    BY <2>1, <2>2
  <2> QED
    BY <2>1, <2>3 DEF LedgerBalance
<1> QED
  BY <1>1, <1>2

LEMMA SeenBalanceIsInt == IInv => \A b \in Balances : LedgerBalance[b] \in Int
<1> SUFFICES ASSUME IInv, NEW b \in Balances PROVE LedgerBalance[b] \in Int
  OBVIOUS
<1>1. balance[b] \in Int
  BY IntegerRange DEF IInv, TypeOK
<1>2. CASE Owed(b) = {}
  BY <1>1, <1>2, SeenBalance
<1>3. ASSUME NEW c \in Callers, c \in Owed(b) PROVE LedgerBalance[b] \in Int
  <2>1. LedgerBalance[b] = balance[b] - inv[c].draws[b]
    BY <1>3, SeenBalance DEF Owed
  <2>2. inv[c].draws[b] \in 0 .. MaxInt
    BY DEF IInv, TypeOK, InvoiceType
  <2> QED
    BY <1>1, <2>1, <2>2, MaxIntAssumption
<1> QED
  BY <1>2, <1>3 DEF Owed

\* The same of the next state.
LEMMA SeenBalanceNext ==
    IInv' => /\ \A b \in Balances : LedgerBalance'[b] \in Int
             /\ \A b \in Balances :
                  /\ Owed(b)' = {} => LedgerBalance'[b] = balance'[b]
                  /\ \A c \in Callers :
                       pc'[c] = "committing" /\ b \in held'[c] \ paid'[c] =>
                         LedgerBalance'[b] = balance'[b] - inv'[c].draws[b]
<1>1. (IInv => \A b \in Balances : LedgerBalance[b] \in Int)'
  BY SeenBalanceIsInt, PTL
<1>2. (IInv => \A b \in Balances :
         /\ Owed(b) = {} => LedgerBalance[b] = balance[b]
         /\ \A c \in Callers :
              pc[c] = "committing" /\ b \in held[c] \ paid[c] =>
                LedgerBalance[b] = balance[b] - inv[c].draws[b])'
  BY SeenBalance, PTL
<1> QED
  BY <1>1, <1>2

\* A step that leaves the compositions in their commit loops alone leaves the
\* balances of the ledger alone.
LEMMA SeenBalanceKept ==
    ASSUME UNCHANGED balance,
           \A b \in Balances : Owed(b)' = Owed(b),
           \A b \in Balances, c \in Callers :
             c \in Owed(b) => inv'[c] = inv[c]
    PROVE  UNCHANGED LedgerBalance
<1> SUFFICES ASSUME NEW b \in Balances
             PROVE  LedgerBalance'[b] = LedgerBalance[b]
  BY DEF LedgerBalance
<1> DEFINE payer == CHOOSE c \in Owed(b) : TRUE
<1>1. LedgerBalance[b] = IF Owed(b) = {} THEN balance[b]
                         ELSE balance[b] - inv[payer].draws[b]
  BY DEF LedgerBalance
<1>2. LedgerBalance'[b] = IF Owed(b)' = {} THEN balance'[b]
                          ELSE balance'[b] - inv'[CHOOSE c \in Owed(b)' : TRUE].draws[b]
  BY DEF LedgerBalance
<1>3. Owed(b)' = Owed(b)
  OBVIOUS
<1>4. LedgerBalance'[b] = IF Owed(b) = {} THEN balance[b]
                          ELSE balance[b] - inv'[payer].draws[b]
  BY <1>2, <1>3
<1>5. CASE Owed(b) # {}
  <2>1. payer \in Owed(b) /\ payer \in Callers
    BY <1>5 DEF Owed
  <2> QED
    BY <1>1, <1>4, <1>5, <2>1
<1> QED
  BY <1>1, <1>4, <1>5

\* What the ledger sees of a caller whose composition moves on.
LEMMA SeenStatus ==
    ASSUME pc \in [Callers -> {"idle", "failed", "returned"} \cup Active],
           NEW c \in Callers,
           NEW how \in {"idle", "failed", "returned"} \cup Active,
           pc' = [pc EXCEPT ![c] = how]
    PROVE  LedgerStatus' = [LedgerStatus EXCEPT ![c] =
                              CASE how = "idle"    -> "none"
                                [] how = "folding" -> "open"
                                [] how = "failed"  -> "refused"
                                [] OTHER           -> "settled"]
  BY DEF LedgerStatus

\* A composition that is not committing, before or after, is not seen in the
\* balances of the ledger.
LEMMA UnseenByLedger ==
    ASSUME IInv, NEW c \in Callers, NEW i, UNCHANGED balance,
           pc[c] # "committing", pc'[c] # "committing",
           inv' = [inv EXCEPT ![c] = i],
           \A d \in Callers \ {c} : /\ pc'[d] = pc[d] /\ held'[d] = held[d]
                                    /\ paid'[d] = paid[d]
    PROVE  UNCHANGED LedgerBalance
<1>1. \A b \in Balances : Owed(b)' = Owed(b)
  BY DEF Owed
<1>2. \A b \in Balances, d \in Callers : d \in Owed(b) => inv'[d] = inv[d]
  BY DEF Owed, IInv, TypeOK
<1> QED
  BY <1>1, <1>2, SeenBalanceKept

LEMMA AnswerRefuses ==
    ASSUME IInv, NEW c \in Callers, NEW i, UNCHANGED balance,
           pc[c] # "committing", Answer(c, "failed"),
           inv' = [inv EXCEPT ![c] = i]
    PROVE  Promise!Refuse(c) \/ UNCHANGED Promise!vars
<1>1. /\ pc \in [Callers -> {"idle", "failed", "returned"} \cup Active]
      /\ held \in [Callers -> SUBSET Balances]
      /\ paid \in [Callers -> SUBSET Balances]
  BY DEF IInv, TypeOK
<1>2. UNCHANGED LedgerBalance
  BY <1>1, UnseenByLedger DEF Answer
<1>3. pc' = [pc EXCEPT ![c] = "failed"]
  BY DEF Answer
<1>4. LedgerStatus' = [LedgerStatus EXCEPT ![c] = "refused"]
  BY <1>1, <1>3, SeenStatus
<1>5. CASE LedgerStatus[c] = "refused"
  <2>1. LedgerStatus' = LedgerStatus
    BY <1>4, <1>5 DEF LedgerStatus
  <2> QED
    BY <1>2, <2>1 DEF Promise!vars
<1>6. CASE LedgerStatus[c] # "refused"
  BY <1>2, <1>4, <1>6 DEF Promise!Refuse
<1> QED
  BY <1>5, <1>6

LEMMA BeginOpens ==
    ASSUME IInv, NEW c \in Callers, Begin(c)
    PROVE  Promise!Open(c) \/ Promise!Refuse(c) \/ UNCHANGED Promise!vars
<1>1. PICK bs \in SUBSET Free, r \in Roundings :
        /\ \/ /\ r \in Modes
              /\ pc' = [pc EXCEPT ![c] = "folding"]
              /\ held' = [held EXCEPT ![c] = bs]
              /\ inv' = [inv EXCEPT ![c] = EmptyInvoice(r)]
              /\ UNCHANGED <<paid, steps>>
           \/ /\ r \notin Modes
              /\ inv' = [inv EXCEPT ![c] = EmptyInvoice("unset")]
              /\ Answer(c, "failed")
        /\ UNCHANGED balance
  BY DEF Begin
<1>2. pc[c] \notin Active
  BY DEF Begin
<1>3. CASE r \notin Modes
  BY <1>1, <1>2, <1>3, AnswerRefuses DEF Active
<1>4. CASE r \in Modes
  <2>1. /\ pc \in [Callers -> {"idle", "failed", "returned"} \cup Active]
        /\ held \in [Callers -> SUBSET Balances]
    BY DEF IInv, TypeOK
  <2>2. UNCHANGED LedgerBalance
    <3>1. inv' = [inv EXCEPT ![c] = EmptyInvoice(r)]
      BY <1>1, <1>4
    <3>2. pc[c] # "committing" /\ pc'[c] # "committing"
      BY <1>1, <1>2, <1>4, <2>1 DEF Active
    <3>3. \A d \in Callers \ {c} : /\ pc'[d] = pc[d] /\ held'[d] = held[d]
                                   /\ paid'[d] = paid[d]
      BY <1>1, <1>4, <2>1
    <3> QED
      BY <1>1, <3>1, <3>2, <3>3, UnseenByLedger
  <2>3. LedgerStatus' = [LedgerStatus EXCEPT ![c] = "open"]
    BY <1>1, <1>4, <2>1, SeenStatus DEF Active
  <2>4. LedgerStatus[c] # "open"
    BY <1>2, <2>1 DEF LedgerStatus, Active
  <2> QED
    BY <2>2, <2>3, <2>4 DEF Promise!Open
<1> QED
  BY <1>3, <1>4

LEMMA StepIsUnseen ==
    ASSUME IInv, NEW c \in Callers, Step(c)
    PROVE  Promise!Refuse(c) \/ UNCHANGED Promise!vars
<1>1. PICK passes, applied : Fold(c, passes, applied)
  BY DEF Step, Charged, PercentOff, AmountOff, MinimumCharge, Draw, NilStep
<1>2. pc[c] = "folding" /\ UNCHANGED balance
  BY <1>1 DEF Fold
<1>3. CASE inv' = [inv EXCEPT ![c] = EmptyInvoice("unset")] /\ Answer(c, "failed")
  BY <1>2, <1>3, AnswerRefuses
<1>4. CASE inv' = [inv EXCEPT ![c] = applied] /\ UNCHANGED <<pc, held, paid, opening>>
  <2>1. UNCHANGED LedgerBalance
    BY <1>2, <1>4, UnseenByLedger
  <2>2. UNCHANGED LedgerStatus
    BY <1>4 DEF LedgerStatus
  <2> QED
    BY <2>1, <2>2 DEF Promise!vars
<1> QED
  BY <1>1, <1>3, <1>4 DEF Fold

LEMMA FinishSettles ==
    ASSUME IInv, IInv', NEW c \in Callers, Finish(c)
    PROVE  Promise!Settle(c)
<1>1. /\ pc \in [Callers -> {"idle", "failed", "returned"} \cup Active]
      /\ pc[c] = "folding" /\ pc' = [pc EXCEPT ![c] = "committing"]
      /\ UNCHANGED <<balance, held, inv, paid, steps, opening>>
  BY DEF Finish, IInv, TypeOK
<1>2. LedgerStatus[c] = "open"
  BY <1>1 DEF LedgerStatus
<1>3. LedgerStatus' = [LedgerStatus EXCEPT ![c] = "settled"]
  <2>1. "committing" \in {"idle", "failed", "returned"} \cup Active
    BY DEF Active
  <2>2. LedgerStatus' = [LedgerStatus EXCEPT ![c] =
                           CASE "committing" = "idle"    -> "none"
                             [] "committing" = "folding" -> "open"
                             [] "committing" = "failed"  -> "refused"
                             [] OTHER                    -> "settled"]
    BY <1>1, <2>1, SeenStatus
  <2> QED
    BY <2>2
<1>4. paid[c] = {}
  BY <1>1 DEF IInv, PaidWhileCommitting
<1>5. \A b \in held[c] : Owed(b) = {}
  BY <1>1 DEF Owed, IInv, Exclusive
<1>6. ASSUME NEW b \in held[c]
      PROVE  Promise!Drawn(b)
  <2>1. b \in Balances
    BY DEF IInv, TypeOK
  <2>2. /\ balance[b] \in Int64 /\ inv[c].draws[b] \in 0 .. MaxInt
        /\ opening[c][b] \in Int64
    BY <2>1 DEF IInv, TypeOK, InvoiceType
  <2>3. balance[b] \in Int /\ inv[c].draws[b] \in Nat /\ opening[c][b] \in Int
    BY <2>2, MaxIntAssumption DEF Int64, MinInt
  <2>4. LedgerBalance[b] = balance[b]
    BY <1>5, <2>1, SeenBalance
  <2>5. LedgerBalance'[b] = balance[b] - inv[c].draws[b]
    BY <1>1, <1>4, <2>1, SeenBalanceNext
  <2>6. inv[c].draws[b] > 0 => inv[c].draws[b] <= balance[b]
    <3>1. balance[b] = opening[c][b] - 0
      BY <1>4 DEF IInv, BalanceSince
    <3> QED
      BY <2>1, <2>3, <3>1 DEF IInv, DrawsCovered
  <2> QED
    BY <2>3, <2>4, <2>5, <2>6 DEF Promise!Drawn
<1>7. ASSUME NEW b \in Balances \ held[c]
      PROVE  Promise!Drawn(b)
  <2>1. Owed(b)' = Owed(b)
    BY <1>1 DEF Owed
  <2>2. CASE Owed(b) = {}
    BY <1>1, <2>1, <2>2, SeenBalance, SeenBalanceNext DEF Promise!Drawn
  <2>3. ASSUME NEW d \in Callers, d \in Owed(b) PROVE Promise!Drawn(b)
    <3>1. LedgerBalance[b] = balance[b] - inv[d].draws[b]
      BY <2>3, SeenBalance DEF Owed
    <3>2. LedgerBalance'[b] = balance'[b] - inv'[d].draws[b]
      BY <2>1, <2>3, SeenBalanceNext DEF Owed
    <3> QED
      BY <1>1, <3>1, <3>2 DEF Promise!Drawn
  <2> QED
    BY <2>2, <2>3 DEF Owed
<1>8. LedgerBalance' \in [Balances -> Int]
  BY SeenBalanceNext DEF LedgerBalance
<1> QED
  BY <1>2, <1>3, <1>6, <1>7, <1>8 DEF Promise!Settle

LEMMA CommitIsUnseen ==
    ASSUME IInv, IInv', NEW c \in Callers, NEW b \in Balances, Commit(c, b)
    PROVE  UNCHANGED Promise!vars
<1>1. /\ b \in held[c] /\ b \notin paid[c]
      /\ inv[c].draws[b] \in 1 .. MaxInt
      /\ balance' = [balance EXCEPT ![b] = balance[b] - inv[c].draws[b]]
  BY CommitFacts
<1>2. /\ pc[c] = "committing"
      /\ paid' = [paid EXCEPT ![c] = @ \cup {b}]
      /\ UNCHANGED <<pc, held, inv, steps, opening>>
  BY DEF Commit
<1>3. /\ balance \in [Balances -> Int64]
      /\ paid \in [Callers -> SUBSET Balances]
  BY DEF IInv, TypeOK
<1>4. /\ \A d \in Callers : paid'[d] = IF d = c THEN paid[c] \cup {b} ELSE paid[d]
      /\ \A x \in Balances : balance'[x] = IF x = b THEN balance[b] - inv[c].draws[b]
                                           ELSE balance[x]
  BY <1>1, <1>2, <1>3
<1>5. ASSUME NEW x \in Balances PROVE LedgerBalance'[x] = LedgerBalance[x]
  <2>1. CASE x = b
    <3>1. LedgerBalance[b] = balance[b] - inv[c].draws[b]
      BY <1>1, <1>2, SeenBalance
    <3>2. Owed(b)' = {}
      BY <1>1, <1>2, <1>4 DEF Owed, IInv, Exclusive
    <3>3. LedgerBalance'[b] = balance'[b]
      BY <3>2, SeenBalanceNext
    <3> QED
      BY <1>4, <2>1, <3>1, <3>3
  <2>2. CASE x # b
    <3>1. Owed(x)' = Owed(x)
      BY <1>2, <1>4, <2>2 DEF Owed
    <3>2. CASE Owed(x) = {}
      BY <1>4, <2>2, <3>1, <3>2, SeenBalance, SeenBalanceNext
    <3>3. ASSUME NEW d \in Callers, d \in Owed(x)
          PROVE  LedgerBalance'[x] = LedgerBalance[x]
      <4>1. LedgerBalance[x] = balance[x] - inv[d].draws[x]
        BY <3>3, SeenBalance DEF Owed
      <4>2. LedgerBalance'[x] = balance'[x] - inv'[d].draws[x]
        BY <3>1, <3>3, SeenBalanceNext DEF Owed
      <4> QED
        BY <1>2, <1>4, <2>2, <4>1, <4>2
    <3> QED
      BY <3>2, <3>3 DEF Owed
  <2> QED
    BY <2>1, <2>2
<1>6. UNCHANGED LedgerBalance
  BY <1>5 DEF LedgerBalance
<1>7. UNCHANGED LedgerStatus
  BY <1>2 DEF LedgerStatus
<1> QED
  BY <1>6, <1>7 DEF Promise!vars

LEMMA ReturnIsUnseen ==
    ASSUME IInv, IInv', NEW c \in Callers, Return(c)
    PROVE  UNCHANGED Promise!vars
<1>1. /\ pc \in [Callers -> {"idle", "failed", "returned"} \cup Active]
      /\ held \in [Callers -> SUBSET Balances]
      /\ paid \in [Callers -> SUBSET Balances]
      /\ inv \in [Callers -> InvoiceType]
      /\ balance \in [Balances -> Int64]
  BY DEF IInv, TypeOK
<1>2. /\ pc[c] = "committing"
      /\ Unpaid(c) = {}
      /\ pc' = [pc EXCEPT ![c] = "returned"]
      /\ UNCHANGED balance
      /\ \A d \in Callers \ {c} : /\ pc'[d] = pc[d] /\ held'[d] = held[d]
                                   /\ paid'[d] = paid[d] /\ inv'[d] = inv[d]
      /\ pc'[c] = "returned"
  BY <1>1 DEF Return, Answer
<1>3. ASSUME NEW x \in Balances PROVE LedgerBalance'[x] = LedgerBalance[x]
  <2>1. CASE x \in held[c] \ paid[c]
    <3>1. LedgerBalance[x] = balance[x] - inv[c].draws[x]
      BY <1>2, <2>1, SeenBalance
    <3>2. inv[c].draws[x] = 0
      <4>1. inv[c].draws[x] \in 0 .. MaxInt
        BY <1>1 DEF InvoiceType
      <4> QED
        BY <1>2, <2>1, <4>1, MaxIntAssumption DEF Unpaid
    <3>3. balance[x] \in Int
      BY <1>1, IntegerRange
    <3>4. Owed(x)' = {}
      BY <1>2, <2>1 DEF Owed, IInv, Exclusive
    <3>5. LedgerBalance'[x] = balance[x]
      BY <1>2, <3>4, SeenBalanceNext
    <3> QED
      BY <3>1, <3>2, <3>3, <3>5
  <2>2. CASE x \notin held[c] \ paid[c]
    <3>1. Owed(x)' = Owed(x)
      BY <1>2, <2>2 DEF Owed
    <3>2. CASE Owed(x) = {}
      BY <1>2, <3>1, <3>2, SeenBalance, SeenBalanceNext
    <3>3. ASSUME NEW d \in Callers, d \in Owed(x)
          PROVE  LedgerBalance'[x] = LedgerBalance[x]
      <4>1. LedgerBalance[x] = balance[x] - inv[d].draws[x]
        BY <3>3, SeenBalance DEF Owed
      <4>2. LedgerBalance'[x] = balance'[x] - inv'[d].draws[x]
        BY <3>1, <3>3, SeenBalanceNext DEF Owed
      <4>3. d # c
        BY <2>2, <3>3 DEF Owed
      <4> QED
        BY <1>2, <4>1, <4>2, <4>3
    <3> QED
      BY <3>2, <3>3 DEF Owed
  <2> QED
    BY <2>1, <2>2
<1>4. UNCHANGED LedgerBalance
  BY <1>3 DEF LedgerBalance
<1>5. LedgerStatus' = [LedgerStatus EXCEPT ![c] = "settled"]
  BY <1>1, <1>2, SeenStatus DEF Active
<1>6. LedgerStatus[c] = "settled"
  BY <1>2 DEF LedgerStatus
<1>7. UNCHANGED LedgerStatus
  BY <1>5, <1>6 DEF LedgerStatus
<1> QED
  BY <1>4, <1>7 DEF Promise!vars

\* The draws of a composition take effect all at once or not at all, whatever
\* else runs: Compose implements the ledger.
THEOREM ComposeImplementsLedger == Spec => ImplementsLedger
<1>1. Init => Promise!Init
  <2> SUFFICES ASSUME Init PROVE Promise!Init
    OBVIOUS
  <2>1. \A b \in Balances : Owed(b) = {}
    BY DEF Init, Owed
  <2>2. LedgerBalance \in [Balances -> Openings]
    BY <2>1 DEF Init, LedgerBalance
  <2>3. LedgerStatus = [c \in Callers |-> "none"]
    BY DEF Init, LedgerStatus
  <2> QED
    BY <2>2, <2>3 DEF Promise!Init
<1>2. IInv /\ IInv' /\ [Next]_vars => [Promise!Next]_(Promise!vars)
  <2> SUFFICES ASSUME IInv, IInv', [Next]_vars
               PROVE  Promise!Next \/ UNCHANGED Promise!vars
    OBVIOUS
  <2>1. ASSUME NEW c \in Callers, Begin(c)
        PROVE  Promise!Next \/ UNCHANGED Promise!vars
    BY <2>1, BeginOpens DEF Promise!Next
  <2>2. ASSUME NEW c \in Callers, Step(c)
        PROVE  Promise!Next \/ UNCHANGED Promise!vars
    BY <2>2, StepIsUnseen DEF Promise!Next
  <2>3. ASSUME NEW c \in Callers, Finish(c)
        PROVE  Promise!Next \/ UNCHANGED Promise!vars
    BY <2>3, FinishSettles DEF Promise!Next
  <2>4. ASSUME NEW c \in Callers, NEW b \in Balances, Commit(c, b)
        PROVE  Promise!Next \/ UNCHANGED Promise!vars
    BY <2>4, CommitIsUnseen
  <2>5. ASSUME NEW c \in Callers, Return(c)
        PROVE  Promise!Next \/ UNCHANGED Promise!vars
    BY <2>5, ReturnIsUnseen
  <2>6. CASE UNCHANGED vars
    <3>1. UNCHANGED <<balance, pc, held, paid, inv>>
      BY <2>6 DEF vars
    <3>2. \A b \in Balances : Owed(b)' = Owed(b)
      BY <3>1 DEF Owed
    <3>3. UNCHANGED LedgerBalance
      BY <3>1, <3>2, SeenBalanceKept
    <3>4. UNCHANGED LedgerStatus
      BY <3>1 DEF LedgerStatus
    <3> QED
      BY <3>3, <3>4 DEF Promise!vars
  <2> QED
    BY <2>1, <2>2, <2>3, <2>4, <2>5, <2>6 DEF Next, Run
<1> QED
  BY <1>1, <1>2, Inductive, PTL DEF Spec, ImplementsLedger, Promise!Spec
=============================================================================
