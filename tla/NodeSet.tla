------------------------------ MODULE NodeSet ------------------------------
(***************************************************************************)
(* The operations on a graph's node-by-ID set (lib/cgraph/node.c,          *)
(* struct graphviz_node_set).  node_set_add is the only one whose loop     *)
(* writes: it may replace the backing store, modelled slot by slot, so that*)
(* the half-copied table is a state of the model.                          *)
(***************************************************************************)
EXTENDS NodeTable

CONSTANTS
    IdOf,   \* the ID of each item's node
    Key     \* the IDs that callers search for and remove

ASSUME IdConstants ==
    /\ IdOf \in [Item -> Nat]
    /\ Key \subseteq Nat
    /\ IsFiniteSet(Item)

VARIABLES
    table,    \* *self
    fresh,    \* new_self, while the set grows
    index,    \* the next slot of `table' to copy
    pending,  \* the item of the node_set_add in progress
    phase,    \* where that call is
    answer    \* the last node_set_find: its key and what it returned

vars == <<table, fresh, index, pending, phase, answer>>

Init ==
    /\ table = NoTable
    /\ fresh = NoTable
    /\ index = 0
    /\ pending = NULL
    /\ phase = "idle"
    /\ answer = NULL

\* node_set_add up to the copy loop.  Its callers add a node only after
\* node_set_find failed to find its ID (node.c agidnode, agnode, agsubnode).
Add(x) ==
    /\ phase = "idle"
    /\ Find(table, IdOf, IdOf[x]) = NULL
    /\ pending' = x
    /\ IF NeedsGrowth(table)
       THEN /\ phase' = "copy"
            /\ fresh' = BlankTable(GrownCapacity(table))
            /\ index' = 0
       ELSE /\ phase' = "place"
            /\ UNCHANGED <<fresh, index>>
    /\ UNCHANGED <<table, answer>>

\* One round of the copy loop: skip an empty or deleted slot, or add the item
\* to new_self by a recursive call, which does not grow (CopyNeverGrows).
CopySlot ==
    /\ phase = "copy"
    /\ index < table.cap
    /\ index' = index + 1
    /\ \/ /\ table.slots[index] \in {NULL, TOMBSTONE}
          /\ UNCHANGED fresh
       \/ /\ table.slots[index] \in Item
          /\ ~NeedsGrowth(fresh)
          /\ LET x == table.slots[index] IN Inserts(fresh, fresh', x, IdOf[x])
    /\ UNCHANGED <<table, pending, phase, answer>>

\* free(self->slots); *self = new_self.
Replace ==
    /\ phase = "copy"
    /\ index = table.cap
    /\ table' = fresh
    /\ fresh' = NoTable
    /\ index' = 0
    /\ phase' = "place"
    /\ UNCHANGED <<pending, answer>>

\* The rest of node_set_add.
Place ==
    /\ phase = "place"
    /\ Inserts(table, table', pending, IdOf[pending])
    /\ pending' = NULL
    /\ phase' = "idle"
    /\ UNCHANGED <<fresh, index, answer>>

Search(key) ==
    /\ phase = "idle"
    /\ answer' = [key |-> key, item |-> Find(table, IdOf, key)]
    /\ UNCHANGED <<table, fresh, index, pending, phase>>

Remove(key) ==
    /\ phase = "idle"
    /\ table' = Removed(table, IdOf, key)
    /\ UNCHANGED <<fresh, index, pending, phase, answer>>

\* node_set_free at the graph's close, node_set_new when the next one opens.
Renew ==
    /\ phase = "idle"
    /\ table' = NoTable
    /\ UNCHANGED <<fresh, index, pending, phase, answer>>

Next ==
    \/ \E x \in Item : Add(x)
    \/ CopySlot
    \/ Replace
    \/ Place
    \/ \E key \in Key : Search(key) \/ Remove(key)
    \/ Renew

Spec == Init /\ [][Next]_vars

----------------------------------------------------------------------------
(* Properties                                                              *)

\* No probe chain is broken: an item is reached from its hash without
\* crossing an empty slot, whatever was added, removed and copied before.
ChainsIntact == Reachable(table, IdOf) /\ Reachable(fresh, IdOf)

\* The early exits of node_set_find never hide a stored item.
BoundsCover == Covers(table, IdOf) /\ Covers(fresh, IdOf)

\* The recursive node_set_add of the copy loop never grows new_self in turn.
CopyNeverGrows == phase = "copy" => ~NeedsGrowth(fresh)

\* assert(capacity > self->size) and UNREACHABLE(): the insertion loop always
\* finds a slot.
SlotAvailable ==
    phase = "place" =>
        /\ table.size < table.cap
        /\ \E i \in 0..(table.cap - 1) : IsFirstFree(table, IdOf[pending], i)

\* What callers see is a set: an unfinished growth is invisible, searches
\* find exactly the members.
Abstract == INSTANCE IdSet WITH members <- Stored(table), NoItem <- NULL

ImplementsIdSet == Abstract!Spec

----------------------------------------------------------------------------
(* The inductive invariant                                                 *)

TypeOK ==
    /\ phase \in {"idle", "copy", "place"}
    /\ index \in Nat
    /\ pending \in Item \cup {NULL}
    /\ answer = NULL \/ answer \in [key : Key, item : Item \cup {NULL}]

\* The loop over the old slots has copied the items of those before index into
\* a larger backing store, one slot each at most; no other new_self exists.
CopyOK ==
    IF phase = "copy"
    THEN /\ index <= table.cap
         /\ fresh.cap = GrownCapacity(table)
         /\ fresh.size <= index
         /\ Stored(fresh) = Item \cap {table.slots[c] : c \in 0..(index - 1)}
    ELSE fresh = NoTable /\ index = 0

\* The item that is being added has an ID that the table lacks, and room once
\* the table has grown.
PlaceOK ==
    /\ phase # "idle" => pending \in Item /\ Lacks(table, IdOf, IdOf[pending])
    /\ phase = "place" => table.size < table.cap

IndInv ==
    /\ TypeOK
    /\ TableOK(table, IdOf)
    /\ TableOK(fresh, IdOf)
    /\ CopyOK
    /\ PlaceOK
=============================================================================
