----------------------------- MODULE MCNodeSet -----------------------------
(* Five nodes whose IDs collide in a table of 2, 4 and 8 slots, two growths. *)
EXTENDS NodeSet, TLC

CONSTANTS a, b, c, d, e

MCItem == {a, b, c, d, e}
MCIdOf == a :> 1 @@ b :> 3 @@ c :> 7 @@ d :> 9 @@ e :> 11
MCKey  == {0, 1, 3, 7, 9, 11, 13}
=============================================================================
