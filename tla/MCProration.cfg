CONSTANTS
    MaxInt = 5
    TicksPerSecond = 2
    TicksPerDay = 4
    First = 0
    LastTick = 13
    Plans <- SmallPlans
SPECIFICATION Spec
INVARIANTS CreditAndCharge GuardsAreDefensive UsedAndRemaining EachDayCountsOnce SamePriceIsFree
PROPERTIES LaterIsLess
CHECK_DEADLOCK FALSE
