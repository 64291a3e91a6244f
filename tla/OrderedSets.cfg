SPECIFICATION Spec
CONSTANTS
    NULL = NULL
    ANY = ANY
    Node <- MCNode
    Edge <- MCEdge
    NodeID <- MCNodeID
    EdgeID <- MCEdgeID
    MaxNodes = 3
    MaxEdges = 3
    MaxObjects = 11
    MovesRarely = TRUE
    MovesFree = TRUE
VIEW View
INVARIANTS
    TreesInOrder
PROPERTIES
    ImplementsOrderedGraph
