SPECIFICATION Spec
CONSTANTS
    Item <- MCItem
    ZERO = 0
    MaxCapacity = 5
    RotatedRemove = FALSE
INVARIANTS
    LiveOpen
    OwnsWhatItHolds
    IndInv
PROPERTY
    ImplementsListSpec
