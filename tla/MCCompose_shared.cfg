CONSTANTS
    MaxInt = 3
    Nil = nil
    Balances = {b1, b2}
    Callers = {c1, c2}
    MaxSteps = 3
    Openings <- FewOpenings
    Roundings <- FewRoundings
    Ratings <- FewRatings
    Percents <- FewPercents
    Amounts <- FewAmounts
    Floors <- FewFloors
SPECIFICATION Spec
INVARIANTS IInv
PROPERTIES NoOverdraft ImplementsLedger
