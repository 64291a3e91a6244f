--------------------------- MODULE MCOrderedSets ---------------------------
(* Up to three nodes and three edges.                                     *)
EXTENDS OrderedSets

MCNode == 1..3
MCEdge == 1..3
MCNodeID == 1..3
MCEdgeID == 1..2
=============================================================================
