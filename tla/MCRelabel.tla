----------------------------- MODULE MCRelabel -----------------------------
(* Three nodes and three IDs that collide in tables of 2 and of 4 slots.  *)
EXTENDS Relabel, TLC

CONSTANTS n1, n2, n3

MCItem   == {n1, n2, n3}
MCID     == {1, 3, 5}
Symmetry == Permutations(MCItem)
=============================================================================
