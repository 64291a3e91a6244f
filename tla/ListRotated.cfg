SPECIFICATION Spec
CONSTANTS
    Item <- MCItem
    ZERO = 0
    MaxCapacity = 4
    RotatedRemove = TRUE
INVARIANTS
    OwnsWhatItHolds
