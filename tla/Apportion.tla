----------------------------- MODULE Apportion -----------------------------
(***************************************************************************)
(* The largest-remainder method as a definition: what allocate.go is to    *)
(* compute, without its loops.  Weights are a sequence of naturals.        *)
(***************************************************************************)
EXTENDS Money, Sequences, FiniteSets, SequencesExt

Abs(z) == IF z < 0 THEN -z ELSE z

SumOf(seq) == FoldLeft(LAMBDA x, y : x + y, 0, seq)

\* When no part has a weight the split is even.
Effective(weights) ==
    IF SumOf(weights) = 0 THEN [i \in DOMAIN weights |-> 1] ELSE weights

\* The parts that come before part i when the leftover is handed out: a
\* larger remainder first, and among equals the earlier part.
Precede(rem, i) ==
    {j \in DOMAIN rem : rem[j] > rem[i] \/ (rem[j] = rem[i] /\ j < i)}

\* The whole units of each part's exact share of m, and what it leaves.
FloorShares(m, weights) == [i \in DOMAIN weights |-> (m * weights[i]) \div SumOf(weights)]
Remainders(m, weights)  == [i \in DOMAIN weights |-> (m * weights[i]) % SumOf(weights)]

Apportion(total, weights) ==
    LET w        == Effective(weights)
        floors   == FloorShares(Abs(total), w)
        rem      == Remainders(Abs(total), w)
        leftover == Abs(total) - SumOf(floors)
        share    == [i \in DOMAIN w |->
                       IF Cardinality(Precede(rem, i)) < leftover
                       THEN floors[i] + 1 ELSE floors[i]]
    IN  [i \in DOMAIN w |-> IF total < 0 THEN -share[i] ELSE share[i]]

=============================================================================
