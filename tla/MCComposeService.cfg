CONSTANTS
    MaxInt = 5
    Nil = nil
    NoRate = norate
    Scale = 1
    TicksPerSecond = 2
    TicksPerDay = 4
    MaxRateLen = 8
    MaxRateExp = 3
    MaxExact = 4
    MaxWalk = 14
    MaxComposeSteps = 4
    Balances <- Positions
    Requests <- SmallRequests
    Calls <- SmallCalls
SPECIFICATION FrontSpec
INVARIANTS NoPrefixFails EffectsAreMoves BalancesMatchEffects
           FrontEndsAgree EveryErrorIsNamed RunningTellsTheTotal
PROPERTIES AnswersLeadOn
CHECK_DEADLOCK FALSE
