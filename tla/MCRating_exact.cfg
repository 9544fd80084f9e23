CONSTANTS
    MaxInt = 9
    Scale = 1
    NoRate = norate
    MaxQuantity = 6
    Charges <- SmallCharges
SPECIFICATION Spec
INVARIANTS ExactTierKeepsItsAmount
CHECK_DEADLOCK FALSE
