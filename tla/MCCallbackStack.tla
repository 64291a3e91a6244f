-------------------------- MODULE MCCallbackStack --------------------------
(***************************************************************************)
(* CallbackStack with two sets of callbacks, of which one has a method for *)
(* only one of two kinds of events.                                        *)
(***************************************************************************)
EXTENDS CallbackStack, TLC

CONSTANTS a1, a2, a3, d1, d2

MCMethods == [d \in Disc |-> IF d = d1 THEN {"ins", "del"} ELSE {"ins"}]
MCSymmetry == Permutations(Address)
============================================================================
