CONSTANTS
    TicksPerDay = 3
    Cycles <- SkippedMidnight
SPECIFICATION Spec
INVARIANT AlignedOnNextFirst
CHECK_DEADLOCK FALSE
