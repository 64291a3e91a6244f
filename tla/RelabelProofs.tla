---------------------------- MODULE RelabelProofs ----------------------------
(***************************************************************************)
(* Proofs that renaming nodes keeps the set by ID of the root sound, and   *)
(* that of a subgraph as long as none of its nodes is renamed, for every   *)
(* set of nodes and IDs and every initial capacity.                        *)
(***************************************************************************)
EXTENDS Relabel, NodeTableProofs

----------------------------------------------------------------------------
(* node_set_add                                                            *)

\* A table is sound for every assignment of IDs that agrees on its items.
LEMMA SameIds ==
    ASSUME NEW t, NEW f, NEW g, TableOK(t, f), \A x \in Stored(t) : f[x] = g[x]
    PROVE  TableOK(t, g)
  <1>1. IsTable(t) /\ Sized(t)
    BY DEF TableOK
  <1>2. Distinct(t, g)
    BY DEF TableOK, Distinct
  <1>3. Covers(t, g)
    BY DEF TableOK, Covers
  <1>4. \A c \in DOMAIN t.slots : t.slots[c] \in Item => f[t.slots[c]] = g[t.slots[c]]
    BY DEF Stored
  <1>5. Reachable(t, g)
    <2> SUFFICES ASSUME NEW c \in DOMAIN t.slots, t.slots[c] \in Item
                 PROVE  \E i \in 0..(t.cap - 1) :
                            /\ c = Probe(t, g[t.slots[c]], i)
                            /\ \A j \in 0..(i - 1) : t.slots[Probe(t, g[t.slots[c]], j)] # NULL
      BY DEF Reachable
    <2> QED
      BY <1>4 DEF TableOK, Reachable
  <1> QED
    BY <1>1, <1>2, <1>3, <1>5 DEF TableOK

\* The insertion loop, when the table is not full.
LEMMA PlacedOK ==
    ASSUME NEW t, NEW f, TableOK(t, f), t.size < t.cap,
           NEW x \in Item, f[x] \in Nat, Lacks(t, f, f[x])
    PROVE  /\ TableOK(Placed(t, f, x), f)
           /\ Stored(Placed(t, f, x)) = Stored(t) \cup {x}
           /\ Placed(t, f, x).cap = t.cap
           /\ Placed(t, f, x).size = t.size + 1
  <1>1. IsTable(t) /\ Sized(t)
    BY DEF TableOK
  <1>2. PICK c \in 0..(t.cap - 1) : t.slots[c] \notin Item
    BY <1>1, RoomLeft
  <1>3. \E j \in 0..(t.cap - 1) : IsFirstFree(t, f[x], j)
    BY <1>1, <1>2, FirstFree
  <1>4. PICK i : i = CHOOSE j \in 0..(t.cap - 1) : IsFirstFree(t, f[x], j)
    OBVIOUS
  <1>5. i \in 0..(t.cap - 1) /\ IsFirstFree(t, f[x], i)
    BY <1>3, <1>4
  <1>6. Placed(t, f, x) = Put(t, Probe(t, f[x], i), x, f[x])
    BY <1>4 DEF Placed
  <1>7. Inserts(t, Placed(t, f, x), x, f[x])
    BY <1>5, <1>6 DEF Inserts
  <1> QED
    BY <1>7, PutOK

\* The function that the copy loop computes is well defined.
LEMMA CopiesDefined ==
    ASSUME NEW t, NEW f, t.cap \in Nat
    PROVE  Copies(t, f) = [c \in 0..t.cap |->
               IF c = 0 THEN BlankTable(GrownCapacity(t))
                        ELSE WithSlot(t, f, Copies(t, f)[c - 1], c - 1)]
  <1> DEFINE R(g, n) == g = [c \in 0..n |->
                 IF c = 0 THEN BlankTable(GrownCapacity(t)) ELSE WithSlot(t, f, g[c - 1], c - 1)]
             T == {n \in Nat : \E g : R(g, n)}
  <1>1. 0 \in T
    <2> DEFINE g == [c \in 0..0 |-> BlankTable(GrownCapacity(t))]
    <2>1. R(g, 0)
      OBVIOUS
    <2> QED
      BY <2>1
  <1>2. ASSUME NEW n \in Nat \cap T
        PROVE  n + 1 \in T
    <2>1. PICK g : R(g, n)
      OBVIOUS
    <2> DEFINE h == [c \in 0..(n + 1) |-> IF c = n + 1 THEN WithSlot(t, f, g[n], n) ELSE g[c]]
    <2>2. \A c \in 0..(n + 1) : h[c] =
             IF c = 0 THEN BlankTable(GrownCapacity(t)) ELSE WithSlot(t, f, h[c - 1], c - 1)
      <3> SUFFICES ASSUME NEW c \in 0..(n + 1)
                   PROVE  h[c] = IF c = 0 THEN BlankTable(GrownCapacity(t))
                                          ELSE WithSlot(t, f, h[c - 1], c - 1)
        OBVIOUS
      <3>1. CASE c = n + 1
        <4>1. h[c] = WithSlot(t, f, g[n], n) /\ h[c - 1] = g[n] /\ c - 1 = n /\ c # 0
          BY <3>1
        <4> QED
          BY <4>1
      <3>2. CASE c # n + 1
        <4>1. c \in 0..n /\ h[c] = g[c]
          BY <3>2
        <4>2. c # 0 => h[c - 1] = g[c - 1]
          BY <4>1
        <4>3. g[c] = IF c = 0 THEN BlankTable(GrownCapacity(t)) ELSE WithSlot(t, f, g[c - 1], c - 1)
          BY <2>1, <4>1
        <4> QED
          BY <4>1, <4>2, <4>3
      <3> QED
        BY <3>1, <3>2
    <2>3. h = [c \in 0..(n + 1) |-> h[c]]
      OBVIOUS
    <2> HIDE DEF h
    <2>4. R(h, n + 1)
      BY <2>2, <2>3
    <2> QED
      BY <2>4
  <1>3. Nat \subseteq T
    <2> HIDE DEF T
    <2> QED
      BY <1>1, <1>2, Induction
  <1>4. \E g : R(g, t.cap)
    BY <1>3
  <1> QED
    BY <1>4, Zenon DEF Copies

Passed(t, c) == {x \in Item : \E d \in 0..(c - 1) : t.slots[d] = x}

\* The copy loop moves every item, and its new table stays sound and has a
\* free slot at each.
LEMMA CopiesOK ==
    ASSUME NEW t, NEW f, TableOK(t, f), NEW c \in 0..t.cap
    PROVE  /\ TableOK(Copies(t, f)[c], f)
           /\ Stored(Copies(t, f)[c]) = Passed(t, c)
           /\ Copies(t, f)[c].cap = GrownCapacity(t)
           /\ Copies(t, f)[c].size <= c
  <1> DEFINE OK(u, d) == /\ TableOK(u, f)
                         /\ Stored(u) = Passed(t, d)
                         /\ u.cap = GrownCapacity(t)
                         /\ u.size <= d
             T == {n \in Nat : n <= t.cap => OK(Copies(t, f)[n], n)}
  <1>1. t.cap \in Nat /\ DOMAIN t.slots = 0..(t.cap - 1)
    BY DEF TableOK, IsTable
  <1>2. \A d \in 0..t.cap : Copies(t, f)[d] =
           IF d = 0 THEN BlankTable(GrownCapacity(t)) ELSE WithSlot(t, f, Copies(t, f)[d - 1], d - 1)
    <2> DEFINE C == Copies(t, f)
    <2>1. C = [d \in 0..t.cap |-> IF d = 0 THEN BlankTable(GrownCapacity(t))
                                           ELSE WithSlot(t, f, C[d - 1], d - 1)]
      BY <1>1, CopiesDefined
    <2> HIDE DEF C
    <2>2. \A d \in 0..t.cap : C[d] = IF d = 0 THEN BlankTable(GrownCapacity(t))
                                           ELSE WithSlot(t, f, C[d - 1], d - 1)
      BY <2>1
    <2> QED
      BY <2>2 DEF C
  <1>3. GrownCapacity(t) \in Nat /\ (t.cap > 0 => GrownCapacity(t) > t.cap)
    BY <1>1, TableConstants DEF GrownCapacity
  <1>4. 0 \in T
    <2>1. Copies(t, f)[0] = BlankTable(GrownCapacity(t))
      BY <1>1, <1>2
    <2>2. Passed(t, 0) = {}
      BY DEF Passed
    <2>3. OK(BlankTable(GrownCapacity(t)), 0)
      BY <1>3, <2>2, BlankOK
    <2> QED
      BY <2>1, <2>3
  <1>5. ASSUME NEW n \in Nat \cap T
        PROVE  n + 1 \in T
    <2> SUFFICES ASSUME n + 1 <= t.cap
                 PROVE  OK(Copies(t, f)[n + 1], n + 1)
      OBVIOUS
    <2>1. PICK u : u = Copies(t, f)[n]
      OBVIOUS
    <2>2. OK(u, n)
      BY <1>1, <2>1
    <2>3. Copies(t, f)[n + 1] = WithSlot(t, f, u, n)
      <3>1. n + 1 \in 0..t.cap /\ n + 1 # 0 /\ (n + 1) - 1 = n
        BY <1>1
      <3> QED
        BY <1>2, <2>1, <3>1
    <2>4. n \in 0..(t.cap - 1) /\ 0..((n + 1) - 1) = 0..(n - 1) \cup {n}
      BY <1>1
    <2>5. Passed(t, n + 1) = Passed(t, n) \cup (Item \cap {t.slots[n]})
      BY <2>4 DEF Passed
    <2>6. CASE t.slots[n] \notin Item
      <3>1. WithSlot(t, f, u, n) = u
        BY <2>6 DEF WithSlot
      <3>2. u.size \in Nat
        BY <2>2 DEF TableOK, IsTable
      <3> QED
        BY <2>2, <2>3, <2>5, <2>6, <3>1, <3>2
    <2>7. CASE t.slots[n] \in Item
      <3>1. PICK x \in Item : x = t.slots[n]
        BY <2>7
      <3>2. x \in Stored(t) /\ f[x] \in Nat
        BY <1>1, <2>4, <3>1 DEF Stored, TableOK, Distinct
      <3>3. Lacks(u, f, f[x])
        <4> SUFFICES ASSUME NEW y \in Passed(t, n), f[y] = f[x]
                     PROVE  FALSE
          BY <2>2 DEF Lacks
        <4>1. PICK d \in 0..(n - 1) : y = t.slots[d]
          BY DEF Passed
        <4>2. d \in DOMAIN t.slots /\ d # n /\ y \in Stored(t)
          BY <1>1, <2>4, <4>1 DEF Stored, Passed
        <4>3. y = x
          BY <3>2, <4>2 DEF TableOK, Distinct
        <4> QED
          BY <1>1, <2>4, <3>1, <4>1, <4>2, <4>3 DEF TableOK, Sized
      <3>4. u.size \in Nat /\ u.size < u.cap
        BY <1>1, <1>3, <2>2, <2>4 DEF TableOK, IsTable
      <3>5. PICK v : v = Placed(u, f, x)
        OBVIOUS
      <3>6. TableOK(v, f) /\ Stored(v) = Stored(u) \cup {x} /\ v.cap = u.cap /\ v.size = u.size + 1
        BY <2>2, <3>2, <3>3, <3>4, <3>5, PlacedOK
      <3>7. Copies(t, f)[n + 1] = v
        BY <2>3, <2>7, <3>1, <3>5 DEF WithSlot
      <3>8. OK(v, n + 1)
        BY <2>2, <2>5, <3>1, <3>4, <3>6
      <3> HIDE DEF OK
      <3> QED
        BY <3>7, <3>8
    <2> QED
      BY <2>6, <2>7
  <1>6. Nat \subseteq T
    <2> HIDE DEF T
    <2> QED
      BY <1>4, <1>5, Induction
  <1> QED
    BY <1>1, <1>6

\* node_set_add of an item whose ID the table lacks.
LEMMA AddedOK ==
    ASSUME NEW t, NEW f, TableOK(t, f),
           NEW x \in Item, f[x] \in Nat, Lacks(t, f, f[x])
    PROVE  /\ TableOK(Added(t, f, x), f)
           /\ Stored(Added(t, f, x)) = Stored(t) \cup {x}
  <1>1. PICK u : u = IF NeedsGrowth(t) THEN Grown(t, f) ELSE t
    OBVIOUS
  <1>2. t.cap \in Nat /\ t.size \in Nat /\ DOMAIN t.slots = 0..(t.cap - 1)
    BY DEF TableOK, IsTable
  <1>3. TableOK(u, f) /\ Stored(u) = Stored(t) /\ u.size < u.cap
    <2>1. CASE NeedsGrowth(t)
      <3>1. u = Copies(t, f)[t.cap] /\ t.cap \in 0..t.cap
        BY <1>1, <1>2, <2>1 DEF Grown
      <3>2. TableOK(u, f) /\ Stored(u) = Passed(t, t.cap) /\ u.cap = GrownCapacity(t) /\ u.size <= t.cap
        BY <3>1, CopiesOK
      <3>3. Passed(t, t.cap) = Stored(t)
        BY <1>2 DEF Passed, Stored
      <3>4. GrownCapacity(t) \in Nat /\ t.cap < GrownCapacity(t) /\ u.size \in Nat
        BY <1>2, <3>2, TableConstants DEF GrownCapacity, TableOK, IsTable
      <3> QED
        BY <1>2, <3>2, <3>3, <3>4
    <2>2. CASE ~NeedsGrowth(t)
      BY <1>1, <1>2, <2>2 DEF NeedsGrowth
    <2> QED
      BY <2>1, <2>2
  <1>4. Added(t, f, x) = Placed(u, f, x)
    BY <1>1 DEF Added
  <1>5. Lacks(u, f, f[x])
    BY <1>3 DEF Lacks
  <1> QED
    BY <1>3, <1>4, <1>5, PlacedOK

----------------------------------------------------------------------------
(* The calls                                                               *)

\* A failed search for a key means that no listed node has it.
LEMMA NotHeld ==
    ASSUME NEW t, NEW f, TableOK(t, f), NEW key \in Nat, Find(t, f, key) = NULL
    PROVE  Lacks(t, f, key)
  <1> SUFFICES ASSUME NEW x \in Stored(t), f[x] = key
               PROVE  FALSE
    BY DEF Lacks
  <1>1. Find(t, f, key) = x /\ x \in Item
    BY FindOK DEF Stored
  <1> QED
    BY <1>1, TableConstants

LEMMA GraphPair == root \in Graph /\ sub \in Graph /\ root # sub
  BY RelabelConstants DEF Graph

LEMMA HeapIds ==
    ASSUME IndInv
    PROVE  /\ \A n \in heap : n \in Item /\ id[n] \in Nat
           /\ \A m, n \in heap : id[m] = id[n] => m = n
  <1>1. TableOK(n_id[root], id) /\ Stored(n_id[root]) = heap /\ heap \subseteq Item
    BY DEF IndInv, Files, TypeOK
  <1> QED
    BY <1>1 DEF TableOK, Distinct

\* The ID of a node is assigned.
LEMMA NewId ==
    ASSUME TypeOK, NEW n \in Item, NEW key \in ID \cup {NULL}, id' = [id EXCEPT ![n] = key]
    PROVE  /\ id' \in [Item -> ID \cup {NULL}]
           /\ id'[n] = key
           /\ \A m \in Item : m # n => id'[m] = id[m]
  BY DEF TypeOK

\* A table none of whose nodes gets another ID.
LEMMA FilesSame ==
    ASSUME NEW t, NEW f, NEW g, NEW N, Files(t, f, N), \A m \in N : g[m] = f[m]
    PROVE  Files(t, g, N)
  <1>1. TableOK(t, f) /\ Stored(t) = N /\ \A x \in Stored(t) : f[x] = g[x]
    BY DEF Files
  <1> QED
    BY <1>1, SameIds DEF Files

\* A node enters under an ID that no other has.
LEMMA FilesMore ==
    ASSUME NEW t, NEW f, NEW g, NEW N, Files(t, f, N), NEW n \in Item, g[n] \in Nat,
           \A m \in N : g[m] = f[m] /\ f[m] # g[n]
    PROVE  Files(Added(t, g, n), g, N \cup {n})
  <1>1. Files(t, g, N)
    BY FilesSame
  <1>2. Lacks(t, g, g[n])
    BY DEF Lacks, Files
  <1> QED
    BY <1>1, <1>2, AddedOK DEF Files

\* A node leaves.
LEMMA FilesLess ==
    ASSUME NEW t, NEW f, NEW N, Files(t, f, N), NEW n \in N,
           \A m \in N : f[m] = f[n] => m = n
    PROVE  Files(Removed(t, f, f[n]), f, N \ {n})
  <1>1. TableOK(t, f) /\ Stored(t) = N /\ f[n] \in Nat
    BY DEF Files, TableOK, Distinct
  <1>2. TableOK(Removed(t, f, f[n]), f) /\ Stored(Removed(t, f, f[n])) = {x \in Stored(t) : f[x] # f[n]}
    BY <1>1, RemovedOK
  <1> QED
    BY <1>1, <1>2 DEF Files

\* The root has no node of an ID that it does not find.
LEMMA NewKey ==
    ASSUME IndInv, NEW key \in ID, Held(root, key) = NULL
    PROVE  \A m \in heap : id[m] # key
  <1>1. key \in Nat /\ Files(n_id[root], id, heap) /\ Find(n_id[root], id, key) = NULL
    BY RelabelConstants DEF Held, IndInv
  <1>2. Lacks(n_id[root], id, key)
    BY <1>1, NotHeld DEF Files
  <1> QED
    BY <1>1, <1>2 DEF Lacks, Files

LEMMA agnodeStep ==
    ASSUME IndInv, NEW g \in Graph, NEW key \in ID, agnode(g, key)
    PROVE  IndInv'
  <1>1. PICK n \in Item \ heap :
          /\ heap' = heap \cup {n}
          /\ id' = [id EXCEPT ![n] = key]
          /\ n_id' = [x \in Graph |-> IF x \in {g, root} THEN Added(n_id[x], id', n) ELSE n_id[x]]
          /\ n_seq' = [x \in Graph |-> IF x \in {g, root} THEN n_seq[x] \cup {n} ELSE n_seq[x]]
    BY DEF agnode
  <1>2. key \in Nat /\ renamed' = renamed
    BY RelabelConstants DEF agnode
  <1>3. /\ id' \in [Item -> ID \cup {NULL}] /\ id'[n] = key /\ heap \subseteq Item
        /\ \A m \in heap : id'[m] = id[m]
    BY <1>1, NewId DEF IndInv, TypeOK
  <1>4. \A m \in heap : id[m] # key
    BY NewKey DEF agnode
  <1>5. TypeOK'
    BY <1>1, <1>2, <1>3 DEF IndInv, TypeOK
  <1>6. n_seq'[root] = heap' /\ Files(n_id'[root], id', heap')
    <2>1. n_id'[root] = Added(n_id[root], id', n) /\ n_seq'[root] = n_seq[root] \cup {n}
      BY <1>1, GraphPair
    <2>2. Files(Added(n_id[root], id', n), id', heap \cup {n})
      BY <1>2, <1>3, <1>4, FilesMore DEF IndInv
    <2> QED
      BY <1>1, <2>1, <2>2 DEF IndInv
  <1>7. ASSUME ~renamed
        PROVE  n_seq'[sub] \subseteq heap' /\ Files(n_id'[sub], id', n_seq'[sub])
    <2>1. n_seq[sub] \subseteq heap /\ Files(n_id[sub], id, n_seq[sub])
      BY <1>7 DEF IndInv
    <2>2. CASE g = sub
      <3>1. n_id'[sub] = Added(n_id[sub], id', n) /\ n_seq'[sub] = n_seq[sub] \cup {n}
        BY <1>1, <2>2, GraphPair
      <3>2. Files(Added(n_id[sub], id', n), id', n_seq[sub] \cup {n})
        BY <1>2, <1>3, <1>4, <2>1, FilesMore
      <3> QED
        BY <1>1, <2>1, <3>1, <3>2
    <2>3. CASE g # sub
      <3>1. n_id'[sub] = n_id[sub] /\ n_seq'[sub] = n_seq[sub]
        BY <1>1, <2>3, GraphPair
      <3>2. Files(n_id[sub], id', n_seq[sub])
        BY <1>3, <2>1, FilesSame
      <3> QED
        BY <1>1, <2>1, <3>1, <3>2
    <2> QED
      BY <2>2, <2>3
  <1> QED
    BY <1>2, <1>5, <1>6, <1>7 DEF IndInv

LEMMA agsubnodeStep ==
    ASSUME IndInv, NEW n \in Item, agsubnode(n)
    PROVE  IndInv'
  <1>1. /\ n \in heap /\ Find(n_id[sub], id, id[n]) = NULL
        /\ n_id'[sub] = Added(n_id[sub], id, n) /\ n_seq'[sub] = n_seq[sub] \cup {n}
        /\ n_id'[root] = n_id[root] /\ n_seq'[root] = n_seq[root]
        /\ UNCHANGED <<heap, id, renamed>>
    BY GraphPair DEF agsubnode, Held, IndInv, TypeOK
  <1>2. TypeOK'
    BY <1>1, GraphPair DEF agsubnode, IndInv, TypeOK
  <1>3. ASSUME ~renamed
        PROVE  Files(Added(n_id[sub], id, n), id, n_seq[sub] \cup {n})
    <2>1. Files(n_id[sub], id, n_seq[sub]) /\ id[n] \in Nat
      BY <1>1, <1>3, HeapIds DEF IndInv
    <2>2. Lacks(n_id[sub], id, id[n])
      BY <1>1, <2>1, NotHeld DEF Files
    <2> QED
      BY <2>1, <2>2, FilesMore DEF Lacks, Files
  <1> QED
    BY <1>1, <1>2, <1>3 DEF IndInv

\* agdelnode reaches the subgraph that lists the node, unless a rename hid it.
LEMMA agdelnodeStep ==
    ASSUME IndInv, NEW g \in Graph, NEW n \in Item, agdelnode(g, n)
    PROVE  IndInv'
  <1>1. /\ n \in heap /\ Held(g, id[n]) = n /\ renamed' = renamed
        /\ id[n] \in Nat /\ \A m \in heap : id[m] = id[n] => m = n
    BY HeapIds DEF agdelnode
  <1>2. PICK images : images = Images(g, n)
    OBVIOUS
  <1>3. /\ n_id' = [x \in Graph |-> IF x \in images THEN Removed(n_id[x], id, id[n]) ELSE n_id[x]]
        /\ n_seq' = [x \in Graph |-> IF x \in images THEN n_seq[x] \ {n} ELSE n_seq[x]]
    BY <1>2 DEF agdelnode, Unlink
  <1>4. root \in images <=> g = root
    BY <1>2, GraphPair DEF Images
  <1>5. ASSUME ~renamed
        PROVE  IF sub \in images
               THEN Files(n_id'[sub], id, n_seq[sub] \ {n}) /\ n_seq'[sub] = n_seq[sub] \ {n}
               ELSE n_id'[sub] = n_id[sub] /\ n_seq'[sub] = n_seq[sub] /\ n \notin n_seq[sub]
    <2>1. n_seq[sub] \subseteq heap /\ Files(n_id[sub], id, n_seq[sub])
      BY <1>5 DEF IndInv
    <2>2. Held(sub, id[n]) = n <=> n \in n_seq[sub]
      <3>1. n \in n_seq[sub] => Find(n_id[sub], id, id[n]) = n
        BY <1>1, <2>1, FindOK DEF Files
      <3>2. n \notin n_seq[sub] => Find(n_id[sub], id, id[n]) = NULL
        <4>1. n \notin n_seq[sub] => \A x \in Stored(n_id[sub]) : id[x] # id[n]
          BY <1>1, <2>1 DEF Files
        <4> QED
          BY <1>1, <2>1, <4>1, FindOK DEF Files
      <3>3. n # NULL
        BY TableConstants
      <3> QED
        BY <3>1, <3>2, <3>3 DEF Held
    <2>3. sub \in images <=> n \in n_seq[sub]
      BY <1>1, <1>2, <2>2, GraphPair DEF Images, Graph
    <2>4. n \in n_seq[sub] => Files(Removed(n_id[sub], id, id[n]), id, n_seq[sub] \ {n})
      <3>1. ASSUME n \in n_seq[sub]
            PROVE  Files(Removed(n_id[sub], id, id[n]), id, n_seq[sub] \ {n})
        <4>1. \A m \in n_seq[sub] : id[m] = id[n] => m = n
          BY <1>1, <2>1
        <4> QED
          BY <2>1, <3>1, <4>1, FilesLess
      <3> QED
        BY <3>1
    <2> QED
      BY <1>3, <2>3, <2>4, GraphPair
  <1>6. CASE g = sub
    <2>1. UNCHANGED <<heap, id>> /\ n_id'[root] = n_id[root] /\ n_seq'[root] = n_seq[root]
      BY <1>3, <1>4, <1>6, GraphPair DEF agdelnode
    <2>2. TypeOK'
      BY <1>1, <1>3, <2>1 DEF IndInv, TypeOK
    <2>3. sub \in images
      BY <1>2, <1>6 DEF Images
    <2> QED
      BY <1>1, <1>5, <2>1, <2>2, <2>3 DEF IndInv
  <1>7. CASE g = root
    <2>1. PICK k \in ID \cup {NULL} : id' = [id EXCEPT ![n] = k]
      BY <1>7, GraphPair DEF agdelnode
    <2>2. heap' = heap \ {n}
      BY <1>7, GraphPair DEF agdelnode
    <2>3. id' \in [Item -> ID \cup {NULL}] /\ \A m \in Item : m # n => id'[m] = id[m]
      BY <2>1, NewId DEF IndInv
    <2>4. TypeOK'
      BY <1>1, <1>3, <2>2, <2>3 DEF IndInv, TypeOK
    <2>5. n_seq'[root] = heap' /\ Files(n_id'[root], id', heap')
      <3>1. n_id'[root] = Removed(n_id[root], id, id[n]) /\ n_seq'[root] = n_seq[root] \ {n}
        BY <1>3, <1>4, <1>7, GraphPair
      <3>2. Files(Removed(n_id[root], id, id[n]), id, heap \ {n})
        BY <1>1, FilesLess DEF IndInv
      <3>3. \A m \in heap \ {n} : id'[m] = id[m]
        BY <2>3, HeapIds
      <3>4. Files(Removed(n_id[root], id, id[n]), id', heap \ {n})
        BY <3>2, <3>3, FilesSame
      <3> QED
        BY <2>2, <3>1, <3>4 DEF IndInv
    <2>6. ASSUME ~renamed
          PROVE  n_seq'[sub] \subseteq heap' /\ Files(n_id'[sub], id', n_seq'[sub])
      <3>1. Files(n_id'[sub], id, n_seq'[sub]) /\ n_seq'[sub] \subseteq heap \ {n}
        <4>1. n_seq[sub] \subseteq heap /\ Files(n_id[sub], id, n_seq[sub])
          BY <2>6 DEF IndInv
        <4>2. CASE sub \in images
          BY <1>5, <2>6, <4>1, <4>2
        <4>3. CASE sub \notin images
          BY <1>5, <2>6, <4>1, <4>3
        <4> QED
          BY <4>2, <4>3
      <3>2. \A m \in n_seq'[sub] : id'[m] = id[m]
        BY <2>3, <3>1, HeapIds
      <3>3. Files(n_id'[sub], id', n_seq'[sub])
        BY <3>1, <3>2, FilesSame
      <3> QED
        BY <2>2, <3>1, <3>3
    <2> QED
      BY <1>1, <2>4, <2>5, <2>6 DEF IndInv
  <1> QED
    BY <1>6, <1>7 DEF Graph

\* Both rounds of dict_relabel leave the root with the nodes it had, whether
\* the node is looked up under its old ID or, the second time, its new one.
LEMMA agrelabelStep ==
    ASSUME IndInv, NEW n \in Item, NEW key \in ID, agrelabel_node(n, key)
    PROVE  IndInv'
  <1>1. /\ n \in heap /\ id' = [id EXCEPT ![n] = key] /\ key \in Nat
        /\ UNCHANGED <<heap, n_seq>> /\ renamed' = (renamed \/ n \in n_seq[sub])
    BY RelabelConstants DEF agrelabel_node
  <1>2. /\ id' \in [Item -> ID \cup {NULL}] /\ id'[n] = key /\ heap \subseteq Item
        /\ \A m \in Item : m # n => id'[m] = id[m]
    BY <1>1, NewId DEF IndInv, TypeOK
  <1>3. \A m \in heap : id[m] # key
    BY NewKey DEF agrelabel_node
  <1>4. (heap \ {n}) \cup {n} = heap
    BY <1>1
  <1>5. PICK t : t = Refiled(n_id[root], n, key)
    OBVIOUS
  <1>6. Files(t, id', heap)
    <2>1. Files(Removed(n_id[root], id, id[n]), id, heap \ {n})
      BY <1>1, HeapIds, FilesLess DEF IndInv
    <2>2. Files(Added(Removed(n_id[root], id, id[n]), id', n), id', (heap \ {n}) \cup {n})
      <3>1. \A m \in heap \ {n} : id'[m] = id[m] /\ id[m] # id'[n]
        BY <1>2, <1>3
      <3> QED
        BY <1>1, <1>2, <2>1, <3>1, FilesMore
    <2> QED
      BY <1>1, <1>4, <1>5, <2>2 DEF Refiled
  <1>7. Files(RefiledAgain(t, n, key), id', heap)
    <2>1. \A m \in heap : id'[m] = id'[n] => m = n
      BY <1>2, <1>3
    <2>2. Files(Removed(t, id', id'[n]), id', heap \ {n})
      <3>1. PICK f, N : f = id' /\ N = heap
        OBVIOUS
      <3>2. Files(t, f, N) /\ n \in N /\ \A m \in N : f[m] = f[n] => m = n
        BY <1>1, <1>6, <2>1, <3>1
      <3>3. Files(Removed(t, f, f[n]), f, N \ {n})
        BY <3>2, FilesLess
      <3> QED
        BY <3>1, <3>3
    <2>3. Files(Added(Removed(t, id', id'[n]), id', n), id', (heap \ {n}) \cup {n})
      <3>1. \A m \in heap \ {n} : id'[m] # id'[n]
        BY <2>1
      <3> QED
        BY <1>1, <1>2, <2>2, <3>1, FilesMore
    <2> QED
      BY <1>1, <1>2, <1>4, <2>3 DEF RefiledAgain
  <1>8. /\ n_id'[root] = t \/ n_id'[root] = RefiledAgain(t, n, key)
        /\ n_id'[sub] = n_id[sub]
        /\ DOMAIN n_id' = Graph
    BY <1>5, GraphPair DEF agrelabel_node, IndInv, TypeOK
  <1>9. TypeOK'
    BY <1>1, <1>2, <1>8 DEF IndInv, TypeOK
  <1>10. n_seq'[root] = heap' /\ Files(n_id'[root], id', heap')
    BY <1>1, <1>6, <1>7, <1>8 DEF IndInv
  <1>11. ASSUME ~renamed'
         PROVE  n_seq'[sub] \subseteq heap' /\ Files(n_id'[sub], id', n_seq'[sub])
    <2>1. n_seq[sub] \subseteq heap /\ Files(n_id[sub], id, n_seq[sub]) /\ n \notin n_seq[sub]
      BY <1>1, <1>11 DEF IndInv
    <2>2. \A m \in n_seq[sub] : id'[m] = id[m]
      BY <1>2, <2>1
    <2>3. Files(n_id[sub], id', n_seq[sub])
      BY <2>1, <2>2, FilesSame
    <2> QED
      BY <1>1, <1>8, <2>1, <2>3
  <1> QED
    BY <1>9, <1>10, <1>11 DEF IndInv

----------------------------------------------------------------------------
(* The theorems                                                            *)

LEMMA InitInv == Init => IndInv
  <1> SUFFICES ASSUME Init
               PROVE  IndInv
    OBVIOUS
  <1>1. Files(NoTable, id, {})
    BY BlankOK DEF NoTable, Files
  <1> QED
    BY <1>1, GraphPair DEF Init, IndInv, TypeOK

LEMMA Invariance == IndInv /\ [Next]_vars => IndInv'
  <1>1. IndInv /\ UNCHANGED vars => IndInv'
    BY DEF vars, IndInv, TypeOK, Files
  <1> QED
    BY <1>1, agnodeStep, agsubnodeStep, agdelnodeStep, agrelabelStep DEF Next

\* Whatever nodes agrelabel_node renames, also those a subgraph lists, the set
\* by ID of the root stays one that node_set_find can search.
THEOREM Inductive == Spec => []IndInv
  <1> QED
    BY InitInv, Invariance, PTL DEF Spec

\* The root lists what is allocated and finds every node by the ID it has now.
THEOREM RootFinds == Spec => []RootFindsAll
  <1>1. IndInv => RootFindsAll
    <2> SUFFICES ASSUME IndInv
                 PROVE  RootFindsAll
      OBVIOUS
    <2>1. ASSUME NEW n \in heap
          PROVE  Held(root, id[n]) = n
      <3>1. id[n] \in Nat /\ Files(n_id[root], id, heap)
        BY HeapIds DEF IndInv
      <3> QED
        BY <3>1, FindOK DEF Held, Files
    <2> QED
      BY <2>1, HeapIds DEF IndInv, RootFindsAll
  <1> QED
    BY <1>1, Inductive, PTL

\* Until agrelabel_node renames a node of the subgraph, both graphs find what
\* they list, and the assertion of installnode on the sizes holds.
THEOREM SubgraphFinds == Spec => []ListedIsFound
  <1>1. IndInv => ListedIsFound
    <2> SUFFICES ASSUME IndInv, ~renamed, NEW g \in Graph
                 PROVE  /\ n_id[g].size = Cardinality(n_seq[g])
                        /\ \A n \in n_seq[g] : Held(g, id[n]) = n
      BY DEF ListedIsFound, SizesAgree
    <2>1. Files(n_id[g], id, n_seq[g])
      BY DEF IndInv, Graph
    <2>2. n_id[g].size = Cardinality(n_seq[g])
      BY <2>1 DEF Files, TableOK, Sized
    <2>3. ASSUME NEW n \in n_seq[g]
          PROVE  Held(g, id[n]) = n
      <3>1. PICK t : t = n_id[g]
        OBVIOUS
      <3>2. TableOK(t, id) /\ n \in Stored(t)
        BY <2>1, <3>1 DEF Files
      <3>3. id[n] \in Nat
        BY <3>2 DEF TableOK, Distinct
      <3>4. Find(t, id, id[n]) = n
        BY <3>2, <3>3, FindOK
      <3> QED
        BY <3>1, <3>4 DEF Held
    <2> QED
      BY <2>2, <2>3
  <1> QED
    BY <1>1, Inductive, PTL
=============================================================================
