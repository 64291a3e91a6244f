------------------------------- MODULE MCList -------------------------------
(* Three values; storage for up to five: 1, 2 and 4 by doubling, 3 and 5 by *)
(* one more slot, by LIST_RESERVE or by LIST_SHRINK_TO_FIT.                 *)
EXTENDS List

MCItem == 1..3
=============================================================================
