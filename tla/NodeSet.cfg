SPECIFICATION Spec
CONSTANTS
    a = a
    b = b
    c = c
    d = d
    e = e
    NULL = NULL
    TOMBSTONE = TOMBSTONE
    InitialCapacity = 2
    Item <- MCItem
    IdOf <- MCIdOf
    Key <- MCKey
INVARIANTS
    ChainsIntact
    BoundsCover
    CopyNeverGrows
    SlotAvailable
PROPERTY
    ImplementsIdSet
