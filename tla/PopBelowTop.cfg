SPECIFICATION Spec
CONSTANTS
    a1 = a1
    a2 = a2
    a3 = a3
    d1 = d1
    d2 = d2
    Disc = {d1, d2}
    Method = {"ins", "del"}
    Methods <- MCMethods
    Address = {a1, a2, a3}
    NULL = NULL
    MaxNested = 2
    OnlyTop = FALSE
SYMMETRY MCSymmetry
CHECK_DEADLOCK FALSE
INVARIANT
    StackHolds
