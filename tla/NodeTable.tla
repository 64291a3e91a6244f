----------------------------- MODULE NodeTable -----------------------------
(***************************************************************************)
(* The hash table behind g->n_id, the set of a graph's nodes by ID         *)
(* (lib/cgraph/node.c, struct graphviz_node_set): open                     *)
(* addressing, linear probing, tombstones, and a growth watermark at 70%   *)
(* of the capacity.  This module is the pure part: what a table is and     *)
(* what one probe loop computes.  NodeSet runs the operations on it.       *)
(*                                                                         *)
(* An item is an Agsubnode_t*; idOf gives the ID its node has now, which   *)
(* the table reads through the pointer and never stores.  A probe loop     *)
(* "for i in 0..capacity-1, stop at the first slot that ..." is written as *)
(* the first index that satisfies the loop's exit.                         *)
(*                                                                         *)
(* X_Y, just before X, is X with a mistake: no specification uses it.      *)
(***************************************************************************)
EXTENDS Naturals, FiniteSets

CONSTANTS
    Item,             \* the Agsubnode_t objects
    NULL,             \* an empty slot, and the answer of a failed search
    TOMBSTONE,        \* a slot whose item was removed
    InitialCapacity   \* capacity of the first backing store: 1 << 10 in the code

ASSUME TableConstants ==
    /\ NULL \notin Item
    /\ TOMBSTONE \notin Item
    /\ NULL # TOMBSTONE
    /\ InitialCapacity \in Nat \ {0}

Slot == Item \cup {NULL, TOMBSTONE}

\* A table with a zeroed backing store.  min and max bound the IDs inserted so
\* far; `seen' is min_initialized.
BlankTable(capacity) ==
    [ cap   |-> capacity,
      slots |-> [c \in 0..(capacity - 1) |-> NULL],
      size  |-> 0,
      seen  |-> FALSE,
      min   |-> 0,
      max   |-> 0 ]

\* node_set_new: slots == NULL, so the capacity is 0.
NoTable == BlankTable(0)

\* The i-th slot the loops look at; the hash of an ID is the ID itself.
Probe(t, id, i) == (id + i) % t.cap

\* The items a table holds.
Stored(t) == {x \in Item : \E c \in DOMAIN t.slots : t.slots[c] = x}

----------------------------------------------------------------------------
(* Growth                                                                  *)

NeedsGrowth_WhenFull(t) == 100 * t.size > 100 * t.cap

\* The watermark of 70%; an empty backing store always grows.
NeedsGrowth(t) == 100 * t.size >= 70 * t.cap

GrownCapacity_Same(t) == IF t.cap = 0 THEN InitialCapacity ELSE t.cap

GrownCapacity(t) == IF t.cap = 0 THEN InitialCapacity ELSE 2 * t.cap

----------------------------------------------------------------------------
(* node_set_add, after the growth                                          *)

\* The insertion loop stops at i: the first slot empty or deleted.
IsFirstFree(t, id, i) ==
    /\ i \in 0..(t.cap - 1)
    /\ t.slots[Probe(t, id, i)] \in {NULL, TOMBSTONE}
    /\ \A j \in 0..(i - 1) : t.slots[Probe(t, id, j)] \notin {NULL, TOMBSTONE}

Put_ElseMax(t, c, x, id) ==
    LET lower == ~t.seen \/ id < t.min
    IN  [ t EXCEPT !.slots[c] = x,
                   !.size = @ + 1,
                   !.seen = TRUE,
                   !.min = IF lower THEN id ELSE @,
                   !.max = IF ~lower /\ id > t.max THEN id ELSE @ ]

\* Widen the bounds, then fill slot c.
Put(t, c, x, id) ==
    [ t EXCEPT !.slots[c] = x,
               !.size = @ + 1,
               !.seen = TRUE,
               !.min = IF ~t.seen \/ id < t.min THEN id ELSE @,
               !.max = IF id > t.max THEN id ELSE @ ]

\* u is t after that loop and that assignment.
Inserts(t, u, x, id) ==
    \E i \in 0..(t.cap - 1) : IsFirstFree(t, id, i) /\ u = Put(t, Probe(t, id, i), x, id)

----------------------------------------------------------------------------
(* node_set_find and node_set_remove                                       *)

IsHit_StopAtTombstone(t, idOf, key, i) ==
    LET at(j) == t.slots[Probe(t, key, j)]
    IN  /\ i \in 0..(t.cap - 1)
        /\ at(i) \in Item /\ idOf[at(i)] = key
        /\ \A j \in 0..(i - 1) : at(j) \in Item /\ idOf[at(j)] # key

\* The search loop stops at i with a hit: an item of this ID, with no empty
\* slot and no other item of this ID before it; tombstones are skipped.
IsHit(t, idOf, key, i) ==
    LET at(j) == t.slots[Probe(t, key, j)]
    IN  /\ i \in 0..(t.cap - 1)
        /\ at(i) \in Item /\ idOf[at(i)] = key
        /\ \A j \in 0..(i - 1) :
              /\ at(j) # NULL
              /\ at(j) \in Item => idOf[at(j)] # key

\* The early exits of node_set_find.
OutOfBounds(t, key) == (t.seen /\ key < t.min) \/ key > t.max

\* node_set_find.
Find(t, idOf, key) ==
    IF ~OutOfBounds(t, key) /\ \E i \in 0..(t.cap - 1) : IsHit(t, idOf, key, i)
    THEN t.slots[Probe(t, key, CHOOSE i \in 0..(t.cap - 1) : IsHit(t, idOf, key, i))]
    ELSE NULL

Erase_ToEmpty(t, c) == [t EXCEPT !.slots[c] = NULL, !.size = @ - 1]

\* The slot of a removed item is marked, so that later searches pass over it.
Erase(t, c) == [t EXCEPT !.slots[c] = TOMBSTONE, !.size = @ - 1]

\* node_set_remove; an absent key changes nothing.
Removed(t, idOf, key) ==
    IF \E i \in 0..(t.cap - 1) : IsHit(t, idOf, key, i)
    THEN Erase(t, Probe(t, key, CHOOSE i \in 0..(t.cap - 1) : IsHit(t, idOf, key, i)))
    ELSE t

----------------------------------------------------------------------------
(* What makes a table one that the loops can work on                       *)

IsTable(t) ==
    /\ t.cap \in Nat
    /\ t \in [cap : {t.cap}, slots : [0..(t.cap - 1) -> Slot], size : Nat,
              seen : BOOLEAN, min : Nat, max : Nat]

\* No probe chain is broken: an item is reached from its hash without
\* crossing an empty slot.
Reachable(t, idOf) ==
    \A c \in DOMAIN t.slots :
        t.slots[c] \in Item =>
            \E i \in 0..(t.cap - 1) :
                /\ c = Probe(t, idOf[t.slots[c]], i)
                /\ \A j \in 0..(i - 1) : t.slots[Probe(t, idOf[t.slots[c]], j)] # NULL

\* The early exits of node_set_find do not hide a stored item.
Covers(t, idOf) ==
    \A x \in Stored(t) : t.seen /\ t.min <= idOf[x] /\ idOf[x] <= t.max

\* Each item is in one slot and `size' counts them.
Sized(t) ==
    /\ \A c, d \in DOMAIN t.slots : t.slots[c] \in Item /\ t.slots[c] = t.slots[d] => c = d
    /\ IsFiniteSet(Stored(t))
    /\ t.size = Cardinality(Stored(t))

Lacks(t, idOf, id) == \A y \in Stored(t) : idOf[y] # id

\* The items have IDs, all different.
Distinct(t, idOf) ==
    /\ \A x \in Stored(t) : idOf[x] \in Nat
    /\ \A x, y \in Stored(t) : idOf[x] = idOf[y] => x = y

TableOK(t, idOf) ==
    /\ IsTable(t)
    /\ Sized(t)
    /\ Distinct(t, idOf)
    /\ Reachable(t, idOf)
    /\ Covers(t, idOf)
=============================================================================
