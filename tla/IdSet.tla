------------------------------- MODULE IdSet -------------------------------
(***************************************************************************)
(* What the callers of a node set rely on (lib/cgraph/node_set.h and its   *)
(* uses in graph.c, node.c): a set of items with distinct IDs, searched    *)
(* and pruned by ID.  `answer' is the last search: its key and its result.  *)
(***************************************************************************)
CONSTANTS
    Item,    \* the objects the set holds
    IdOf,    \* the ID of each item
    Key,     \* the IDs callers search for and remove
    NoItem   \* the answer of a failed search

VARIABLES members, answer

vars == <<members, answer>>

Named(key) == {x \in members : IdOf[x] = key}

Init == members = {} /\ answer = NoItem

\* Only an item whose ID is absent may be added.
Insert(x) ==
    /\ Named(IdOf[x]) = {}
    /\ members' = members \cup {x}
    /\ UNCHANGED answer

Query(key) ==
    /\ \E x \in IF Named(key) = {} THEN {NoItem} ELSE Named(key) :
          answer' = [key |-> key, item |-> x]
    /\ UNCHANGED members

Delete(key) ==
    /\ members' = members \ Named(key)
    /\ UNCHANGED answer

Clear == members' = {} /\ UNCHANGED answer

Next ==
    \/ \E x \in Item : Insert(x)
    \/ \E key \in Key : Query(key) \/ Delete(key)
    \/ Clear

Spec == Init /\ [][Next]_vars
=============================================================================
