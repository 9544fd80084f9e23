CONSTANTS
    MaxInt = 5
    Nil = nil
    Balances = {b1}
    Callers = {c1}
    MaxSteps = 2
    Openings <- RichOpenings
    Roundings <- RichRoundings
    Ratings <- RichRatings
    Percents <- RichPercents
    Amounts <- RichAmounts
    Floors <- RichFloors
SPECIFICATION Spec
INVARIANTS TotalIsRendered
