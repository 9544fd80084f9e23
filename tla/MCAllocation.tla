---------------------------- MODULE MCAllocation ----------------------------
(***************************************************************************)
(* Every total of a small integer type over every short list of weights.   *)
(***************************************************************************)
EXTENDS Allocation

AllTotals == Int64
ShortWeights == UNION {[1 .. n -> 0 .. 4] : n \in 0 .. 3}
                \cup [1 .. 2 -> -1 .. 1] \cup [1 .. 4 -> {0, 1, 3}]

=============================================================================
