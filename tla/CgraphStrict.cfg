SPECIFICATION FairSpec
CONSTANTS
    s1 = s1
    s2 = s2
    n1 = n1
    n2 = n2
    e1 = e1
    e2 = e2
    root = root
    NULL = NULL
    Graph <- MCGraph
    Node <- MCNode
    Edge <- MCEdge
    NodeName = {}
    EdgeName = {}
    GraphName = {}
    Directed = FALSE
    Strict = TRUE
    NoLoop = FALSE
    LocalOperands = TRUE
    MayUnlink = TRUE
INVARIANTS
    AtMostOneEdge
PROPERTIES
    CallsReturn
