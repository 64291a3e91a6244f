SPECIFICATION TreeSpec
CONSTANTS
    NULL = NULL
    Text <- MCText
    Local <- MCLocal
    Html <- MCHtml
    Node <- MCNode
    Graph <- MCGraph
    root = g
    g = g
    s1 = s1
    s2 = s2
    n1 = n1
    n2 = n2
    MaxAnonymous = 2
    MaxCount = 2
    OnlyChildren = TRUE
SYMMETRY Symmetry
INVARIANTS
    StringsOutliveUsers
    StringsGoWithUsers
    FoundByName
PROPERTIES
    ImplementsNames
