--------------------------- MODULE NodeSetProofs ----------------------------
(***************************************************************************)
(* Proofs about NodeSet for every set of items and IDs and every initial   *)
(* capacity: its invariants, and that it implements IdSet.                 *)
(***************************************************************************)
EXTENDS NodeSet, NodeTableProofs

----------------------------------------------------------------------------
(* The invariant                                                           *)

LEMMA InitInv == Init => IndInv
  <1> SUFFICES ASSUME Init
               PROVE  IndInv
    OBVIOUS
  <1>1. TableOK(NoTable, IdOf) /\ NoTable.cap = 0 /\ NoTable.size = 0
    BY BlankOK DEF NoTable
  <1> QED
    BY <1>1 DEF Init, IndInv, TypeOK, CopyOK, PlaceOK

\* Growth is due at 70% of the capacity, so a table that does not need it has a
\* slot left.
LEMMA Watermark ==
    ASSUME NEW t, IsTable(t), ~NeedsGrowth(t)
    PROVE  t.size < t.cap
  BY DEF IsTable, NeedsGrowth

LEMMA AddStep ==
    ASSUME IndInv, NEW x \in Item, Add(x)
    PROVE  IndInv'
  <1>1. IdOf[x] \in Nat /\ TableOK(table, IdOf)
    BY IdConstants DEF IndInv
  <1>2. Lacks(table, IdOf, IdOf[x])
    BY <1>1, FindOK, TableConstants DEF Add, Lacks, Stored
  <1>3. CASE NeedsGrowth(table)
    <2>1. GrownCapacity(table) \in Nat
      BY <1>1, TableConstants DEF GrownCapacity, TableOK, IsTable
    <2>2. /\ TableOK(fresh', IdOf) /\ Stored(fresh') = {} /\ fresh'.size = 0
          /\ fresh'.cap = GrownCapacity(table)
      BY <1>3, <2>1, BlankOK DEF Add
    <2> QED
      BY <1>1, <1>2, <1>3, <2>2 DEF Add, IndInv, TypeOK, CopyOK, PlaceOK, TableOK, IsTable
  <1>4. CASE ~NeedsGrowth(table)
    <2>1. table.size < table.cap
      BY <1>1, <1>4, Watermark DEF TableOK
    <2> QED
      BY <1>1, <1>2, <1>4, <2>1 DEF Add, IndInv, TypeOK, CopyOK, PlaceOK
  <1> QED
    BY <1>3, <1>4

\* One more slot copied: the item is new to the table that grows, which never
\* has more items than slots were looked at.
LEMMA CopySlotStep ==
    ASSUME IndInv, CopySlot
    PROVE  IndInv'
  <1> DEFINE Copied(k) == Item \cap {table.slots[c] : c \in 0..(k - 1)}
  <1>1. /\ TableOK(table, IdOf) /\ TableOK(fresh, IdOf) /\ phase = "copy" /\ table' = table
        /\ table.cap \in Nat /\ table.slots \in [0..(table.cap - 1) -> Slot]
        /\ DOMAIN table.slots = 0..(table.cap - 1)
        /\ index \in Nat /\ index < table.cap /\ index' = index + 1
    BY DEF CopySlot, IndInv, TypeOK, TableOK, IsTable
  <1>2. /\ fresh.cap = GrownCapacity(table) /\ fresh.size <= index /\ Stored(fresh) = Copied(index)
        /\ fresh.size \in Nat
    BY <1>1 DEF IndInv, CopyOK, TableOK, IsTable
  <1>3. 0..(index' - 1) = 0..(index - 1) \cup {index}
    BY <1>1
  <1>4. Copied(index') = Copied(index) \cup (Item \cap {table.slots[index]})
    BY <1>3
  <1>5. CASE table.slots[index] \notin Item
    <2>1. fresh' = fresh
      BY <1>5 DEF CopySlot
    <2>2. Stored(fresh') = Copied(index')
      BY <1>2, <1>4, <1>5, <2>1
    <2> QED
      BY <1>1, <1>2, <2>1, <2>2 DEF CopySlot, IndInv, TypeOK, CopyOK, PlaceOK
  <1>6. CASE table.slots[index] \in Item
    <2>0. PICK x \in Item : x = table.slots[index]
      BY <1>6
    <2>1. Inserts(fresh, fresh', x, IdOf[x])
      BY <1>6, <2>0, TableConstants DEF CopySlot
    <2>2. x \in Stored(table) /\ index \in DOMAIN table.slots
      BY <1>1, <2>0 DEF Stored
    <2>3. Lacks(fresh, IdOf, IdOf[x])
      <3> SUFFICES ASSUME NEW y \in Copied(index), IdOf[y] = IdOf[x]
                   PROVE  FALSE
        BY <1>2 DEF Lacks
      <3>1. PICK c \in 0..(index - 1) : y = table.slots[c]
        OBVIOUS
      <3>2. c \in DOMAIN table.slots /\ c # index /\ y \in Stored(table)
        BY <1>1, <3>1 DEF Stored
      <3>3. y = x
        BY <1>1, <2>2, <3>2 DEF TableOK, Distinct
      <3> QED
        BY <1>1, <2>0, <2>2, <3>1, <3>2, <3>3 DEF TableOK, Sized
    <2>4. IdOf[x] \in Nat
      BY IdConstants
    <2>5. /\ TableOK(fresh', IdOf) /\ Stored(fresh') = Stored(fresh) \cup {x}
          /\ fresh'.cap = fresh.cap /\ fresh'.size = fresh.size + 1
      BY <1>1, <2>1, <2>3, <2>4, PutOK
    <2>6. Stored(fresh') = Copied(index') /\ fresh'.size <= index'
      BY <1>1, <1>2, <1>4, <2>0, <2>5
    <2> QED
      BY <1>1, <1>2, <2>5, <2>6 DEF CopySlot, IndInv, TypeOK, CopyOK, PlaceOK
  <1> QED
    BY <1>5, <1>6

\* When every slot is copied, the tables have the same items.
LEMMA CopyDone ==
    ASSUME IndInv, phase = "copy", index = table.cap
    PROVE  Stored(fresh) = Stored(table)
  BY DEF IndInv, CopyOK, TableOK, IsTable, Stored

\* The new table has room for one more: its capacity is at least that of the
\* old one and one more.
LEMMA ReplaceStep ==
    ASSUME IndInv, Replace
    PROVE  IndInv'
  <1>1. /\ phase = "copy" /\ index = table.cap /\ phase' = "place"
        /\ table' = fresh /\ fresh' = NoTable /\ index' = 0 /\ pending' = pending /\ answer' = answer
    BY DEF Replace
  <1>2. Stored(table') = Stored(table)
    BY <1>1, CopyDone
  <1>3. table'.size < table'.cap
    <2>1. table.cap \in Nat /\ fresh.size \in Nat /\ fresh.size <= table.cap
      BY <1>1 DEF IndInv, CopyOK, TableOK, IsTable
    <2>2. fresh.cap = IF table.cap = 0 THEN InitialCapacity ELSE 2 * table.cap
      BY <1>1 DEF IndInv, CopyOK, GrownCapacity
    <2> QED
      BY <1>1, <2>1, <2>2, TableConstants
  <1>4. TableOK(NoTable, IdOf)
    BY BlankOK DEF NoTable
  <1> QED
    BY <1>1, <1>2, <1>3, <1>4 DEF IndInv, TypeOK, CopyOK, PlaceOK, Lacks

\* Filling the slot makes the item a member.
LEMMA PlaceEffect ==
    ASSUME IndInv, Place
    PROVE  TableOK(table', IdOf) /\ Stored(table') = Stored(table) \cup {pending}
  <1>1. Inserts(table, table', pending, IdOf[pending])
    BY DEF Place
  <1>2. /\ TableOK(table, IdOf) /\ pending \in Item /\ IdOf[pending] \in Nat
        /\ Lacks(table, IdOf, IdOf[pending])
    BY IdConstants DEF Place, IndInv, PlaceOK
  <1> QED
    BY <1>1, <1>2, PutOK

LEMMA PlaceStep ==
    ASSUME IndInv, Place
    PROVE  IndInv'
  BY PlaceEffect DEF Place, IndInv, TypeOK, CopyOK, PlaceOK

\* A search answers with a member or with NULL.
LEMMA FindType ==
    ASSUME NEW t, TableOK(t, IdOf), NEW key \in Nat
    PROVE  Find(t, IdOf, key) \in Stored(t) \cup {NULL}
  BY FindOK

LEMMA SearchStep ==
    ASSUME IndInv, NEW key \in Key, Search(key)
    PROVE  IndInv'
  <1>1. Find(table, IdOf, key) \in Item \cup {NULL}
    BY IdConstants, FindType DEF IndInv, Stored
  <1> QED
    BY <1>1 DEF Search, IndInv, TypeOK, CopyOK, PlaceOK

LEMMA RemoveStep ==
    ASSUME IndInv, NEW key \in Key, Remove(key)
    PROVE  /\ IndInv'
           /\ Stored(table') = {x \in Stored(table) : IdOf[x] # key}
  <1>1. /\ TableOK(table', IdOf)
        /\ Stored(table') = {x \in Stored(table) : IdOf[x] # key}
    BY IdConstants, RemovedOK DEF Remove, IndInv
  <1> QED
    BY <1>1 DEF Remove, IndInv, TypeOK, CopyOK, PlaceOK

LEMMA RenewStep ==
    ASSUME IndInv, Renew
    PROVE  IndInv' /\ Stored(table') = {}
  <1>1. TableOK(table', IdOf) /\ Stored(table') = {}
    BY BlankOK DEF Renew, NoTable
  <1> QED
    BY <1>1 DEF Renew, IndInv, TypeOK, CopyOK, PlaceOK

LEMMA Invariance == IndInv /\ [Next]_vars => IndInv'
  <1> SUFFICES ASSUME IndInv, [Next]_vars
               PROVE  IndInv'
    OBVIOUS
  <1>1. CASE UNCHANGED vars
    BY <1>1 DEF vars, IndInv, TypeOK, CopyOK, PlaceOK
  <1>2. ASSUME NEW x \in Item, Add(x)
        PROVE  IndInv'
    BY <1>2, AddStep
  <1>3. ASSUME NEW key \in Key, Search(key) \/ Remove(key)
        PROVE  IndInv'
    BY <1>3, SearchStep, RemoveStep
  <1> QED
    BY <1>1, <1>2, <1>3, CopySlotStep, ReplaceStep, PlaceStep, RenewStep DEF Next

\* The table and the one that replaces it are well formed at every step of
\* node_set_add, node_set_find, node_set_remove and node_set_free.
THEOREM Inductive == Spec => []IndInv
  <1> QED
    BY InitInv, Invariance, PTL DEF Spec

----------------------------------------------------------------------------
(* What the invariant says                                                 *)

\* node_set_find and node_set_remove reach every item from its hash without
\* crossing an empty slot, whatever was added, removed and copied before.
THEOREM ChainsUnbroken == Spec => []ChainsIntact
  <1>1. IndInv => ChainsIntact
    BY DEF IndInv, TableOK, ChainsIntact
  <1> QED
    BY <1>1, Inductive, PTL

\* The early exits of node_set_find hide no stored item.
THEOREM BoundsHold == Spec => []BoundsCover
  <1>1. IndInv => BoundsCover
    BY DEF IndInv, TableOK, BoundsCover
  <1> QED
    BY <1>1, Inductive, PTL

\* The node_set_add that the copy loop calls never grows new_self in turn.
THEOREM CopyDoesNotGrow == Spec => []CopyNeverGrows
  <1>1. IndInv => CopyNeverGrows
    <2> SUFFICES ASSUME IndInv, phase = "copy"
                 PROVE  ~NeedsGrowth(fresh)
      BY DEF CopyNeverGrows
    <2>1. /\ table.cap \in Nat /\ fresh.size \in Nat /\ index \in Nat
          /\ fresh.size <= index /\ index <= table.cap
          /\ fresh.cap = IF table.cap = 0 THEN InitialCapacity ELSE 2 * table.cap
      BY DEF IndInv, TypeOK, CopyOK, TableOK, IsTable, GrownCapacity
    <2> QED
      BY <2>1, TableConstants DEF NeedsGrowth
  <1> QED
    BY <1>1, Inductive, PTL

\* The insertion loop of node_set_add never reaches UNREACHABLE(), and its
\* assertion on the capacity holds.
THEOREM SlotFound == Spec => []SlotAvailable
  <1>1. IndInv => SlotAvailable
    <2> SUFFICES ASSUME IndInv, phase = "place"
                 PROVE  /\ table.size < table.cap
                        /\ \E i \in 0..(table.cap - 1) : IsFirstFree(table, IdOf[pending], i)
      BY DEF SlotAvailable
    <2>1. /\ TableOK(table, IdOf) /\ table.size < table.cap /\ IdOf[pending] \in Nat
      BY IdConstants DEF IndInv, PlaceOK
    <2>2. \E c \in 0..(table.cap - 1) : table.slots[c] \notin Item
      BY <2>1, RoomLeft DEF TableOK
    <2> QED
      BY <2>1, <2>2, FirstFree DEF TableOK
  <1> QED
    BY <1>1, Inductive, PTL

----------------------------------------------------------------------------
(* The refinement                                                          *)

\* Every step of NodeSet is a step of IdSet on the items stored, or leaves them
\* alone: a growth is invisible, and it is Place that inserts.
LEMMA StepRefines ==
    ASSUME IndInv, IndInv', [Next]_vars
    PROVE  [Abstract!Next]_(Abstract!vars)
  <1>1. CASE UNCHANGED vars
    BY <1>1 DEF vars, Abstract!vars
  <1>2. ASSUME NEW x \in Item, Add(x)
        PROVE  UNCHANGED Abstract!vars
    BY <1>2 DEF Add, Abstract!vars
  <1>3. CASE CopySlot
    BY <1>3 DEF CopySlot, Abstract!vars
  <1>4. CASE Replace
    BY <1>4, CopyDone DEF Replace, Abstract!vars
  <1>5. CASE Place
    <2>1. Abstract!Insert(pending)
      BY <1>5, PlaceEffect DEF Place, IndInv, PlaceOK, Abstract!Insert, Abstract!Named, Lacks
    <2>2. pending \in Item
      BY <1>5 DEF Place, IndInv, PlaceOK
    <2> QED
      BY <2>1, <2>2 DEF Abstract!Next
  <1>6. ASSUME NEW key \in Key, Search(key)
        PROVE  Abstract!Query(key)
    <2> DEFINE x == Find(table, IdOf, key)
    <2>1. TableOK(table, IdOf) /\ key \in Nat
      BY IdConstants DEF IndInv
    <2>2. x \in IF Abstract!Named(key) = {} THEN {NULL} ELSE Abstract!Named(key)
      BY <2>1, FindOK DEF Abstract!Named
    <2> QED
      BY <1>6, <2>2 DEF Search, Abstract!Query
  <1>7. ASSUME NEW key \in Key, Remove(key)
        PROVE  Abstract!Delete(key)
    BY <1>7, RemoveStep DEF Remove, Abstract!Delete, Abstract!Named
  <1>8. CASE Renew
    <2>1. Abstract!Clear
      BY <1>8, RenewStep DEF Renew, Abstract!Clear
    <2> QED
      BY <2>1 DEF Abstract!Next
  <1> QED
    BY <1>1, <1>2, <1>3, <1>4, <1>5, <1>6, <1>7, <1>8 DEF Next, Abstract!Next

\* To its callers struct graphviz_node_set is a set of nodes with distinct IDs:
\* searches find exactly its members, and no growth shows.
THEOREM Implements == Spec => ImplementsIdSet
  <1>1. Init => Abstract!Init
    BY BlankOK DEF Init, NoTable, Abstract!Init
  <1>2. IndInv /\ IndInv' /\ [Next]_vars => [Abstract!Next]_(Abstract!vars)
    BY StepRefines
  <1> QED
    BY <1>1, <1>2, Inductive, PTL DEF Spec, ImplementsIdSet, Abstract!Spec
=============================================================================
