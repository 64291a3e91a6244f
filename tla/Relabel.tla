------------------------------ MODULE Relabel ------------------------------
(***************************************************************************)
(* agrelabel_node (lib/cgraph/node.c) gives a node a new ID while the      *)
(* node sets of the root graph and of a subgraph hold it.  Here every graph*)
(* has its own table (NodeTable) and its own sequence of nodes, and both   *)
(* tables read one ID through the node they share.                         *)
(*                                                                         *)
(* An entry (Agsubnode_t) is identified with its node: Item is the set of  *)
(* nodes, and a table that holds two entries of a node has it in two slots.*)
(*                                                                         *)
(* X_Y, just before X, is X with a mistake: no specification uses it.      *)
(***************************************************************************)
EXTENDS NodeTable

CONSTANTS
    root, sub,      \* the main graph and its one subgraph
    ID              \* the IDs of the names in use

ASSUME RelabelConstants ==
    /\ root # sub
    /\ ID \subseteq Nat

VARIABLES
    heap,    \* the nodes allocated
    id,      \* AGID(n); NULL once freed
    n_id,    \* g->n_id
    n_seq,   \* g->n_seq: the nodes with an entry in it
    renamed  \* history: a node was renamed while the subgraph listed it

vars == <<heap, id, n_id, n_seq, renamed>>

Graph == {root, sub}

\* The assertion of installnode: the set by ID and the sequence of a graph
\* have as many entries.
SizesAgree == \A g \in Graph : n_id[g].size = Cardinality(n_seq[g])

Held(g, key) == Find(n_id[g], id, key)

----------------------------------------------------------------------------
(* node_set_add                                                            *)

Placed(t, idOf, n) ==
    LET i == CHOOSE j \in 0..(t.cap - 1) : IsFirstFree(t, idOf[n], j)
    IN  Put(t, Probe(t, idOf[n], i), n, idOf[n])

\* The new table u after the copy loop has passed slot c of the old one.
WithSlot(t, idOf, u, c) ==
    IF t.slots[c] \in Item THEN Placed(u, idOf, t.slots[c]) ELSE u

\* The new table after the first c slots, in their order.
Copies(t, idOf) ==
    LET copied[c \in 0..t.cap] ==
            IF c = 0 THEN BlankTable(GrownCapacity(t))
                     ELSE WithSlot(t, idOf, copied[c - 1], c - 1)
    IN  copied

Grown(t, idOf) == Copies(t, idOf)[t.cap]

Added(t, idOf, n) == Placed(IF NeedsGrowth(t) THEN Grown(t, idOf) ELSE t, idOf, n)

----------------------------------------------------------------------------
(* Creating and sharing nodes                                              *)

\* agnode(g, name, 1) for a name that neither g nor the root has: newnode, then
\* installnode from g up to the root.
agnode(g, key) ==
    /\ Held(g, key) = NULL
    /\ Held(root, key) = NULL
    /\ \E n \in Item \ heap :
          /\ heap' = heap \cup {n}
          /\ id' = [id EXCEPT ![n] = key]
          /\ n_id' = [x \in Graph |-> IF x \in {g, root} THEN Added(n_id[x], id', n) ELSE n_id[x]]
          /\ n_seq' = [x \in Graph |-> IF x \in {g, root} THEN n_seq[x] \cup {n} ELSE n_seq[x]]
    /\ UNCHANGED renamed

\* agsubnode(sub, n, 1), also where agnode and agidnode call it: install n
\* unless its ID is found.
agsubnode(n) ==
    /\ n \in heap
    /\ Held(sub, id[n]) = NULL
    /\ n_id' = [n_id EXCEPT ![sub] = Added(@, id, n)]
    /\ n_seq' = [n_seq EXCEPT ![sub] = @ \cup {n}]
    /\ UNCHANGED <<heap, id, renamed>>

----------------------------------------------------------------------------
(* Deleting a node                                                         *)

\* agapply of agdelnodeimage: the subgraph is visited where the search finds n.
Images(g, n) == {g} \cup {x \in {sub} : Held(x, id[n]) = n}

Unlink(images, n) ==
    /\ n_id' = [x \in Graph |-> IF x \in images THEN Removed(n_id[x], id, id[n]) ELSE n_id[x]]
    /\ n_seq' = [x \in Graph |-> IF x \in images THEN n_seq[x] \ {n} ELSE n_seq[x]]

\* agdelnode(g, n).  An entry left in the subgraph reads the ID in memory that
\* was given back.
agdelnode(g, n) ==
    /\ n \in heap
    /\ Held(g, id[n]) = n
    /\ Unlink(Images(g, n), n)
    /\ \/ g = sub /\ UNCHANGED <<heap, id>>
       \/ /\ g = root
          /\ heap' = heap \ {n}
          /\ \E k \in IF n \in Stored(n_id'[sub]) THEN ID ELSE {NULL} : id' = [id EXCEPT ![n] = k]
    /\ UNCHANGED renamed

----------------------------------------------------------------------------
(* agrelabel_node                                                          *)

Refiled_IdFirst(t, n, key) ==
    LET new == [id EXCEPT ![n] = key]
    IN  Added(Removed(t, new, id[n]), new, n)

\* dict_relabel on the table of the root: remove under the old ID, assign the
\* new one, add.
Refiled(t, n, key) ==
    Added(Removed(t, id, id[n]), [id EXCEPT ![n] = key], n)

\* dict_relabel when the node has its new ID already.
RefiledAgain(t, n, key) ==
    LET new == [id EXCEPT ![n] = key]
    IN  Added(Removed(t, new, key), new, n)

agrelabel_node_Clash(n, key) ==
    /\ n \in heap
    /\ id[n] # key
    /\ id' = [id EXCEPT ![n] = key]
    /\ n_id' = [n_id EXCEPT ![root] = Refiled(@, n, key)]
    /\ renamed' = (renamed \/ n \in n_seq[sub])
    /\ UNCHANGED <<heap, n_seq>>

\* agrelabel_node(n, name): fails if the root has a node of that ID; otherwise
\* agapply runs dict_relabel for the subgraph, where it finds n, and then for
\* the root, both times on the table of the root.
agrelabel_node(n, key) ==
    /\ n \in heap
    /\ Held(root, key) = NULL
    /\ id' = [id EXCEPT ![n] = key]
    /\ n_id' = [n_id EXCEPT ![root] =
                   IF Held(sub, id[n]) = n THEN RefiledAgain(Refiled(@, n, key), n, key)
                                           ELSE Refiled(@, n, key)]
    /\ renamed' = (renamed \/ n \in n_seq[sub])
    /\ UNCHANGED <<heap, n_seq>>

----------------------------------------------------------------------------
Init ==
    /\ heap = {}
    /\ id = [n \in Item |-> NULL]
    /\ n_id = [g \in Graph |-> NoTable]
    /\ n_seq = [g \in Graph |-> {}]
    /\ renamed = FALSE

\* A program whose assertion failed has stopped.
Next ==
    /\ SizesAgree
    /\ \/ \E g \in Graph, key \in ID : agnode(g, key)
       \/ \E n \in Item : agsubnode(n) \/ \E g \in Graph : agdelnode(g, n)
       \/ \E n \in Item, key \in ID : agrelabel_node(n, key)

Spec == Init /\ [][Next]_vars

----------------------------------------------------------------------------
(* Properties                                                              *)

\* Renaming a node before a subgraph lists it is safe: a node that a graph
\* lists is found in it by the ID it has now, so that it can be deleted from it
\* and is not installed twice.
ListedIsFound ==
    ~renamed => SizesAgree /\ \A g \in Graph : \A n \in n_seq[g] : Held(g, id[n]) = n

\* The root of the hierarchy lists exactly the allocated nodes, finds each by
\* its current ID, and no two have one ID: true even when nodes held by the
\* subgraph are renamed.
RootFindsAll ==
    /\ n_seq[root] = heap
    /\ \A n \in heap : Held(root, id[n]) = n
    /\ \A m, n \in heap : id[m] = id[n] => m = n
----------------------------------------------------------------------------
(* The inductive invariant                                                 *)

TypeOK ==
    /\ heap \subseteq Item
    /\ id \in [Item -> ID \cup {NULL}]
    /\ DOMAIN n_id = Graph
    /\ n_seq \in [Graph -> SUBSET Item]
    /\ renamed \in BOOLEAN

\* A sound table of the nodes in N.
Files(t, idOf, N) == TableOK(t, idOf) /\ Stored(t) = N

\* The table of the root is sound whatever is renamed; that of the subgraph
\* while its nodes keep the IDs they were filed under.
IndInv ==
    /\ TypeOK
    /\ n_seq[root] = heap
    /\ Files(n_id[root], id, heap)
    /\ ~renamed => n_seq[sub] \subseteq heap /\ Files(n_id[sub], id, n_seq[sub])
=============================================================================
