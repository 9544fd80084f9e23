----------------------------- MODULE Allocation -----------------------------
(***************************************************************************)
(* allocate.go, loop by loop: the weights are summed, every part gets the  *)
(* floor of its exact share, the leftover units go to the parts with the   *)
(* largest remainders, and the sign of the total is put back.  Amounts in  *)
(* between are big.Int in the code and plain integers here.                *)
(***************************************************************************)
EXTENDS Apportion

CONSTANTS Totals,     \* totals to split
          WeightSeqs  \* sequences of weights; negative ones are refused

ASSUME TotalsAssumption == Totals \subseteq Int64
ASSUME WeightsAssumption == WeightSeqs \subseteq Seq(Int)

VARIABLES total, weights,   \* the arguments
          pc,               \* "sum", "divide", "hand", "done" or "refused"
          i,                \* the loop variable, from 1
          sum,              \* the sum of the weights
          eff,              \* the weights in effect
          share, rem,       \* floor and remainder of each part
          allocated,        \* the sum of the floors
          order,            \* the parts by decreasing remainder
          result

args == <<total, weights>>
vars == <<total, weights, pc, i, sum, eff, share, rem, allocated, order, result>>

Parts == 1 .. Len(weights)

\* Faulty: the total is split with its sign on.
MagnitudeSigned == total

Magnitude == IF total < 0 THEN -total ELSE total

Zeros == [j \in Parts |-> 0]

Init ==
    /\ total \in Totals
    /\ weights \in WeightSeqs
    /\ pc = "sum"
    /\ i = 1
    /\ sum = 0
    /\ eff = weights
    /\ share = Zeros
    /\ rem = Zeros
    /\ allocated = 0
    /\ order = Zeros
    /\ result = Zeros

\* No parts, or a negative weight.
Refuse ==
    /\ pc = "sum"
    /\ \/ Len(weights) = 0
       \/ i \in Parts /\ weights[i] < 0
    /\ pc' = "refused"
    /\ UNCHANGED <<args, i, sum, eff, share, rem, allocated, order, result>>

AddWeight ==
    /\ pc = "sum"
    /\ i \in Parts
    /\ weights[i] >= 0
    /\ sum' = sum + weights[i]
    /\ i' = i + 1
    /\ UNCHANGED <<args, pc, eff, share, rem, allocated, order, result>>

\* Weights that are all zero are replaced by ones: an even split.
Normalise ==
    /\ pc = "sum"
    /\ Len(weights) > 0
    /\ i > Len(weights)
    /\ \/ /\ sum > 0
          /\ UNCHANGED <<eff, sum>>
       \/ /\ sum = 0
          /\ eff' = [j \in Parts |-> 1]
          /\ sum' = Len(weights)
    /\ pc' = "divide"
    /\ i' = 1
    /\ UNCHANGED <<args, share, rem, allocated, order, result>>

\* Faulty: a share is rounded to the nearest unit, not down.
DivideNearest ==
    /\ pc = "divide"
    /\ i \in Parts
    /\ share' = [share EXCEPT ![i] = Round("half_up", Magnitude * eff[i], sum)]
    /\ rem' = [rem EXCEPT ![i] = (Magnitude * eff[i]) % sum]
    /\ allocated' = allocated + share'[i]
    /\ i' = i + 1
    /\ UNCHANGED <<args, pc, sum, eff, order, result>>

Divide ==
    /\ pc = "divide"
    /\ i \in Parts
    /\ share' = [share EXCEPT ![i] = (Magnitude * eff[i]) \div sum]
    /\ rem' = [rem EXCEPT ![i] = (Magnitude * eff[i]) % sum]
    /\ allocated' = allocated + share'[i]
    /\ i' = i + 1
    /\ UNCHANGED <<args, pc, sum, eff, order, result>>

\* The stable sort: a part has before it those with a larger remainder and,
\* among equals, the earlier ones.
\* Faulty: the sort is not stable, a later part may overtake its equals.
AheadLatest(j) == {x \in Parts : rem[x] > rem[j] \/ (rem[x] = rem[j] /\ x > j)}

Ahead(j) == {x \in Parts : rem[x] > rem[j] \/ (rem[x] = rem[j] /\ x < j)}

Sorted == [k \in Parts |-> CHOOSE j \in Parts : Cardinality(Ahead(j)) = k - 1]

Sort ==
    /\ pc = "divide"
    /\ i > Len(weights)
    /\ order' = Sorted
    /\ pc' = "hand"
    /\ i' = 1
    /\ UNCHANGED <<args, sum, eff, share, rem, allocated, result>>

\* Faulty: one unit too many.
LeftoverOff == Magnitude - allocated + 1

Leftover == Magnitude - allocated

\* One leftover unit to the next part in order.
Hand ==
    /\ pc = "hand"
    /\ i <= Leftover
    /\ share' = [share EXCEPT ![order[i]] = @ + 1]
    /\ i' = i + 1
    /\ UNCHANGED <<args, pc, sum, eff, rem, allocated, order, result>>

\* The sign goes back on before the shares become int64 again.
Sign ==
    /\ pc = "hand"
    /\ i > Leftover
    /\ result' = [j \in Parts |-> IF total < 0 THEN -share[j] ELSE share[j]]
    /\ pc' = "done"
    /\ UNCHANGED <<args, i, sum, eff, share, rem, allocated, order>>

Next == Refuse \/ AddWeight \/ Normalise \/ Divide \/ Sort \/ Hand \/ Sign

Spec == Init /\ [][Next]_vars

-----------------------------------------------------------------------------
(***************************************************************************)
(* Properties.                                                             *)
(***************************************************************************)
\* What is handed out is of the integer type, the negative of the largest
\* magnitude too (the conversion at the end of allocate).
TypeOK ==
    /\ total \in Totals
    /\ weights \in WeightSeqs
    /\ pc \in {"sum", "divide", "hand", "done", "refused"}
    /\ i \in Nat \ {0}
    /\ sum \in Nat
    /\ eff \in [Parts -> Int]
    /\ share \in [Parts -> Nat]
    /\ rem \in [Parts -> Nat]
    /\ allocated \in Nat
    /\ order \in [Parts -> Int]
    /\ result \in [Parts -> Int64]

\* allocate.go: the leftover is "an integer in [0, n)", and "the count of
\* parts with a non-zero remainder is always at least the leftover", so that
\* the loop that hands it out neither runs off the parts nor reaches a part
\* whose exact share is whole.
LeftoverFits ==
    pc = "hand" =>
      /\ 0 <= Leftover /\ Leftover < Len(weights)
      /\ Leftover <= Cardinality({j \in Parts : rem[j] > 0})

\* The parts sum exactly to the total (Allocate: "losing nothing").
LosesNothing == pc = "done" => SumOf(result) = total

\* The loops of allocate compute the largest-remainder method.
IsLargestRemainder == pc = "done" => result = Apportion(total, weights)

=============================================================================
