CONSTANTS
    MaxInt = 9
    Scale = 1
    NoRate = norate
    MaxQuantity = 6
    Charges <- SmallCharges
SPECIFICATION Spec
INVARIANTS RatedAsComposeAssumes EveryUnitIsPricedOnce GraduatedIsMarginal
           PricedAsAWhole
PROPERTIES MoreUsageNeverCostsLess
CHECK_DEADLOCK FALSE
