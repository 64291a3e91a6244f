SPECIFICATION Spec
CONSTANTS
    NULL = NULL
    ANY = ANY
    Node <- MCNode
    Edge <- MCEdge
    NodeID <- MCNodeID
    EdgeID <- MCEdgeID
    MaxNodes = 3
    MaxEdges = 3
    MaxObjects = 9
    MovesRarely = FALSE
    MovesFree = TRUE
INVARIANTS
    SizesAgree
