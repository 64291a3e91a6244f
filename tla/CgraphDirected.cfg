SPECIFICATION Spec
CONSTANTS
    s1 = s1
    s2 = s2
    n1 = n1
    n2 = n2
    e1 = e1
    e2 = e2
    root = root
    NULL = NULL
    Graph <- MCGraph
    Node <- MCNode
    Edge <- MCEdge
    NodeName = {A}
    EdgeName = {K}
    GraphName = {S}
    Directed = TRUE
    Strict = FALSE
    NoLoop = FALSE
    LocalOperands = TRUE
    MayUnlink = FALSE
SYMMETRY Symmetry
INVARIANTS
    Nested
    EndpointsPresent
    NoDangling
    NoLeak
    CursorsLive
    KeysUnique
    NoNullDereference
