CONSTANTS
    MaxInt = 7
    Totals <- AllTotals
    WeightSeqs <- ShortWeights
SPECIFICATION Spec
INVARIANTS TypeOK LeftoverFits LosesNothing IsLargestRemainder
CHECK_DEADLOCK FALSE
