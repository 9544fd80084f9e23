CONSTANTS
    MaxInt = 5
    TicksPerSecond = 2
    TicksPerDay = 4
    First = 0
    LastTick = 13
    Plans <- SmallPlans
SPECIFICATION Spec
INVARIANTS WithinPrices
CHECK_DEADLOCK FALSE
