CONSTANTS
    TicksPerDay = 3
    Cycles <- SmallCycles
SPECIFICATION Spec
INVARIANTS DatesAreNumberedInTurn AlignedInOrdinaryZones
PROPERTIES NoCycleIsPassedOver BoundariesAreAnniversaries
CHECK_DEADLOCK FALSE
