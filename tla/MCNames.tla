------------------------------ MODULE MCNames ------------------------------
(* Two nodes, two subgraphs, a plain name that is also HTML-like, and one  *)
(* for the internal map.                                                   *)
EXTENDS NameTrees, TLC

CONSTANTS g, s1, s2, n1, n2

MCText   == {"a", "%c"}
MCLocal  == {"%c"}
MCHtml   == {"a"}
MCNode   == {n1, n2}
MCGraph  == {g, s1, s2}
Symmetry == Permutations(MCNode) \cup Permutations({s1, s2})
=============================================================================
