CONSTANTS
    MaxInt = 5
    Nil = nil
    Balances = {b1, b2}
    Callers = {c1}
    MaxSteps = 4
    Openings <- RichOpenings
    Roundings <- RichRoundings
    Ratings <- RichRatings
    Percents <- RichPercents
    Amounts <- RichAmounts
    Floors <- RichFloors
SPECIFICATION Spec
INVARIANTS TypeOK Reconciles DeficitIsFixedDiscount CreditShown
PROPERTIES AllOrNothing
