----------------------------- MODULE MCCgraph ------------------------------
EXTENDS Cgraph, TLC

CONSTANTS s1, s2, n1, n2, e1, e2

MCGraph == {root, s1, s2}
MCNode  == {n1, n2}
MCEdge  == {e1, e2}
Symmetry == Permutations({s1, s2}) \cup Permutations(MCNode) \cup Permutations(MCEdge)
=============================================================================
