SPECIFICATION Spec
CONSTANTS
    n1 = n1
    n2 = n2
    n3 = n3
    Item <- MCItem
    ID <- MCID
    NULL = NULL
    TOMBSTONE = TOMBSTONE
    InitialCapacity = 2
    root = root
    sub = sub
SYMMETRY Symmetry
INVARIANTS
    ListedIsFound
    RootFindsAll
CHECK_DEADLOCK FALSE
