SPECIFICATION Spec
CONSTANTS
    INT_MAX = 9999
    Jobs <- MCJobs
    Aux <- MCAux
CHECK_DEADLOCK FALSE
INVARIANTS
    TypeOK
    RangesNested
    CutvaluesExact
    NoCheaperShift
    RoundsBounded
    NoTrouble
    RankSetsHold
    EdgesSpan
    OnlyCyclesTurn
    BoundsExact
    LeavesNothingBehind
PROPERTIES
    PivotKeepsTight
    LengthNeverRises
    FailsOnlyIfApart
