---------------------------- MODULE OrderedSets ----------------------------
(***************************************************************************)
(* The ordered sets of a main graph (lib/cgraph/node.c, edge.c): the       *)
(* sequence of its nodes, and for each node the sets of its out- and       *)
(* in-edges by sequence and by ID.  All edge sets by sequence share one    *)
(* dictionary, and so do those by ID: an operation puts a tree in, works on*)
(* it and takes it out again (SplayTree).  The keys are fields of the nodes*)
(* and edges themselves, and calls change them while the trees stand.      *)
(*                                                                         *)
(* X_Y, just before X, is X with a mistake: no specification uses it.      *)
(***************************************************************************)
EXTENDS SplayTree, FiniteSets, TLC
LOCAL SX == INSTANCE SequencesExt

CONSTANTS
    Node, Edge,            \* addresses: numbers, the least free one is allocated
    NodeID, EdgeID,        \* the IDs that names map to
    ANY,                   \* an ID that matches every ID (objtype 0)
    MaxNodes, MaxEdges,    \* bounds on the nodes and edges ever created,
    MaxObjects,            \* and on three times the nodes plus twice the edges
    MovesRarely, MovesFree  \* how callers use agnodebefore and agrelabel_node

ASSUME OrderedSetsConstants ==
    /\ NodeID \cup EdgeID \cup Node \cup Edge \cup {MaxNodes, MaxEdges, MaxObjects} \subseteq Nat
    /\ MovesRarely \in BOOLEAN /\ MovesFree \in BOOLEAN
    /\ ANY \notin EdgeID

VARIABLES
    node,         \* the nodes allocated: AGID, AGSEQ
    edge,         \* the edges allocated: tail, head, AGID, AGSEQ
    seq,          \* g->clos->seq
    n_id,         \* the nodes in g->n_id
    n_seq,        \* g->n_seq
    s,            \* g->e_seq, g->e_id and the edge sets of every node (mainsub)
    failed,       \* the assertion that failed, or NULL
    ret           \* the last call and its answer

vars == <<node, edge, seq, n_id, n_seq, s, failed, ret>>

\* All but ret, which no step reads.
View == <<node, edge, seq, n_id, n_seq, s, failed>>

Returns(call, answer) == ret' = [call |-> call, answer |-> answer]

NoSets == [out_seq |-> Leaf, out_id |-> Leaf, in_seq |-> Leaf, in_id |-> Leaf]

Least(S) == CHOOSE x \in S : \A y \in S : x <= y

Sign(a, b) == IF a < b THEN -1 ELSE IF a > b THEN 1 ELSE 0

----------------------------------------------------------------------------
(* Comparisons, as functions of the object met                             *)

\* agsubnodeseqcmpf.
agsubnodeseqcmpf(nd, n) == [m \in DOMAIN nd |-> Sign(nd[n].seq, nd[m].seq)]

\* agedgeseqcmpf for edge e, in sets whose edges differ in the node `end'.
agedgeseqcmpf(ed, e, end) ==
    [f \in DOMAIN ed |->
        IF ed[e][end] # ed[f][end] THEN Sign(node[ed[e][end]].seq, node[ed[f][end]].seq)
        ELSE Sign(ed[e].seq, ed[f].seq)]

\* agedgeidcmpf for an edge of ID k whose node `end' is n.
agedgeidcmpf(ed, n, k, end) ==
    [f \in DOMAIN ed |->
        LET c == Sign(node[n].id, node[ed[f][end]].id)
        IN  IF c # 0 \/ k = ANY THEN c ELSE Sign(k, ed[f].id)]

----------------------------------------------------------------------------
(* Operations on edge sets                                                 *)

\* The tree `set' of node n in dictionary d, and what taking it out again leaves, r
\* being the answer of the operation between.
Restored(t, d, n, set) == dtrestore(t[d], t.sub[n][set])

Extracted(t, d, n, set, r) ==
    [s |-> [t EXCEPT ![d] = dtextract(r.d), !.sub[n][set] = r.d.here], obj |-> r.obj]

\* The four sets that hold edge e: dictionary, node, set, comparison.
SetsOf(ed, e) ==
    LET x == ed[e] IN
    << <<"e_seq", x.tail, "out_seq", agedgeseqcmpf(ed, e, "head")>>,
       <<"e_id",  x.tail, "out_id",  agedgeidcmpf(ed, x.head, x.id, "head")>>,
       <<"e_seq", x.head, "in_seq",  agedgeseqcmpf(ed, e, "tail")>>,
       <<"e_id",  x.head, "in_id",   agedgeidcmpf(ed, x.tail, x.id, "tail")>> >>

\* agfindedge_by_key.
agfindedge_by_key(t, ed, tail, head, k) ==
    Extracted(t, "e_id", head, "in_id",
              dtsearch(Restored(t, "e_id", head, "in_id"), agedgeidcmpf(ed, tail, k, "tail")))

\* installedge: nothing if the edge is found, else ins for each of its sets.
installedge(t, ed, e) ==
    LET found == agfindedge_by_key(t, ed, ed[e].tail, ed[e].head, ed[e].id)
        ins(u, x) == Extracted(u, x[1], x[2], x[3],
                               dtinsert(Restored(u, x[1], x[2], x[3]), x[4], e)).s
    IN  IF found.obj # NULL THEN found.s ELSE SX!FoldLeft(ins, found.s, SetsOf(ed, e))

\* agdeledgeimage: del for each set; the edge must be found in each.
agdeledgeimage(t, e) ==
    LET del(u, x) ==
            LET r == Extracted(u.s, x[1], x[2], x[3],
                               dtdelete(Restored(u.s, x[1], x[2], x[3]), x[4]))
            IN  [s |-> r.s, ok |-> u.ok /\ r.obj # NULL]
    IN  SX!FoldLeft(del, [s |-> t, ok |-> TRUE], SetsOf(edge, e))

\* agdeledge up to the release of e: nothing if it is not found.
agdeledge1(t, e) ==
    LET found == agfindedge_by_key(t, edge, edge[e].tail, edge[e].head, edge[e].id)
    IN  IF found.obj = NULL THEN [s |-> found.s, ok |-> TRUE, gone |-> {}]
        ELSE agdeledgeimage(found.s, e) @@ [gone |-> {e}]

----------------------------------------------------------------------------
(* Going through the edges of a node: a half of an edge is the edge and the*)
(* set it was met in                                                       *)

agfstout(t, n) ==
    Extracted(t, "e_seq", n, "out_seq", dtfirst(Restored(t, "e_seq", n, "out_seq")))

agfstin(t, n) ==
    Extracted(t, "e_seq", n, "in_seq", dtfirst(Restored(t, "e_seq", n, "in_seq")))

agnxtout(t, e) ==
    LET n == edge[e].tail
    IN  Extracted(t, "e_seq", n, "out_seq",
                  dtnext(Restored(t, "e_seq", n, "out_seq"), agedgeseqcmpf(edge, e, "head")))

agnxtin(t, e) ==
    LET n == edge[e].head
    IN  Extracted(t, "e_seq", n, "in_seq",
                  dtnext(Restored(t, "e_seq", n, "in_seq"), agedgeseqcmpf(edge, e, "tail")))

Half(r, set) == [r EXCEPT !.obj = IF @ = NULL THEN NULL ELSE <<@, set>>]

RECURSIVE SkipLoops(_, _)

\* Loops are not met again as in-edges.
SkipLoops(r, n) ==
    IF r.obj # NULL /\ edge[r.obj].tail = n THEN SkipLoops(agnxtin(r.s, r.obj), n)
    ELSE Half(r, "in")

\* agfstedge takes a loop that is the first in-edge only if there is no
\* out-edge, and a loop is one.
agfstedge(t, n) ==
    LET out == agfstout(t, n)
    IN  IF out.obj # NULL THEN Half(out, "out") ELSE Half(agfstin(out.s, n), "in")

agnxtedge(t, x, n) ==
    IF x[2] = "in" THEN SkipLoops(agnxtin(t, x[1]), n)
    ELSE LET out == agnxtout(t, x[1])
         IN  IF out.obj # NULL THEN Half(out, "out") ELSE SkipLoops(agfstin(out.s, n), n)

----------------------------------------------------------------------------
(* What callers may do.  agnodebefore leaves the nodes behind the moved one*)
(* with numbers above the counter: where MovesRarely, callers then neither *)
(* create nor move nodes.  And neither it nor agrelabel_node refiles edges:*)
(* where MovesFree, callers move and rename only nodes without edges.      *)

FreshSeq == \A n \in DOMAIN node : node[n].seq <= seq.node

Free(n) == \A e \in DOMAIN edge : n \notin {edge[e].tail, edge[e].head}

\* Bounds.
Room(nodes, edges) ==
    /\ seq.node + nodes <= MaxNodes
    /\ seq.edge + edges <= MaxEdges
    /\ 3 * (seq.node + nodes) + 2 * (seq.edge + edges) <= MaxObjects

Holder(k) == {n \in DOMAIN node : node[n].id = k}

----------------------------------------------------------------------------
(* Nodes                                                                   *)

\* agnode(g, name, 1) for a name of no node: newnode, installnode with its
\* assertion.
agnode(k) ==
    /\ Holder(k) = {}
    /\ DOMAIN node # Node /\ Room(1, 0)
    /\ MovesRarely => FreshSeq
    /\ LET n == Least(Node \ DOMAIN node) IN
       /\ seq' = [seq EXCEPT !.node = @ + 1]
       /\ node' = node @@ (n :> [id |-> k, seq |-> seq'.node])
       /\ n_id' = n_id \cup {n}
       /\ n_seq' = dtinsert(n_seq, agsubnodeseqcmpf(node', n), n).d
       /\ failed' = IF Cardinality(n_id') = dtsize(n_seq') THEN NULL ELSE "installnode"
       /\ s' = [s EXCEPT !.sub[n] = NoSets]
       /\ Returns(<<"agnode", k>>, n)
    /\ UNCHANGED edge

agfstnode ==
    LET r == dtfirst(n_seq)
    IN  n_seq' = r.d /\ Returns(<<"agnxtnode", NULL>>, r.obj)

aglstnode ==
    LET r == dtlast(n_seq)
    IN  n_seq' = r.d /\ Returns(<<"agprvnode", NULL>>, r.obj)

agnxtnode(n) ==
    LET r == dtnext(n_seq, agsubnodeseqcmpf(node, n))
    IN  n_seq' = r.d /\ Returns(<<"agnxtnode", n>>, r.obj)

agprvnode(n) ==
    LET r == dtprev(n_seq, agsubnodeseqcmpf(node, n))
    IN  n_seq' = r.d /\ Returns(<<"agprvnode", n>>, r.obj)

ScanNodes ==
    /\ \/ agfstnode \/ aglstnode
       \/ \E n \in DOMAIN node : agnxtnode(n) \/ agprvnode(n)
    /\ UNCHANGED <<node, edge, seq, n_id, s, failed>>

RECURSIVE DropEdges(_, _, _)

\* The loop of agdelnode from the edge half x on.
DropEdges(r, n, x) ==
    IF x = NULL THEN r
    ELSE LET next == agnxtedge(r.s, x, n)
             del == agdeledge1(next.s, x[1])
         IN  DropEdges([s |-> del.s, ok |-> r.ok /\ del.ok, gone |-> r.gone \cup del.gone],
                       n, next.obj)

\* agdelnode(g, n), with agdelnodeimage, which meets no edges any more.
agdelnode(n) ==
    LET first == agfstedge(s, n)
        r == DropEdges([s |-> first.s, ok |-> TRUE, gone |-> {}], n, first.obj)
    IN
    /\ s' = r.s
    /\ edge' = [e \in DOMAIN edge \ r.gone |-> edge[e]]
    /\ failed' = IF r.ok THEN NULL ELSE "del"
    /\ n_id' = n_id \ {n}
    /\ n_seq' = dtdelete(n_seq, agsubnodeseqcmpf(node, n)).d
    /\ node' = [m \in DOMAIN node \ {n} |-> node[m]]
    /\ Returns(<<"agdelnode", n>>, "ok")
    /\ UNCHANGED seq

\* agrelabel_node(n, name): node_set holds n under its new ID (see Relabel); the
\* edge sets by ID of its neighbours are left alone.
agrelabel_node(n, k) ==
    /\ MovesFree => Free(n)
    /\ \/ /\ Holder(k) # {}
          /\ Returns(<<"agrelabel_node", n, k>>, "fail")
          /\ UNCHANGED node
       \/ /\ Holder(k) = {}
          /\ node' = [node EXCEPT ![n].id = k]
          /\ Returns(<<"agrelabel_node", n, k>>, "ok")
    /\ UNCHANGED <<edge, seq, n_id, n_seq, s, failed>>

----------------------------------------------------------------------------
(* agnodebefore.  r is the sequence of nodes and their numbers: [d, nd].   *)

\* agnodesetfinger, a new number, agnoderenew for node n.
Renumber(r, n, number) ==
    LET nd == [r.nd EXCEPT ![n].seq = number]
        d == dtsearch(r.d, agsubnodeseqcmpf(r.nd, n)).d
    IN  [d |-> dtrenew(d, agsubnodeseqcmpf(nd, d.here[2])).d, nd |-> nd]

RECURSIVE ShiftDown(_, _, _)

\* From n backward to fst, every node gets the next number.
ShiftDown(r, n, fst) ==
    LET nxt == dtprev(r.d, agsubnodeseqcmpf(r.nd, n))
        u == Renumber([r EXCEPT !.d = nxt.d], n, r.nd[n].seq + 1)
    IN  IF n = fst \/ nxt.obj = NULL THEN u ELSE ShiftDown(u, nxt.obj, fst)

Moved_KeepPlace(fst, snd) ==
    LET last == dtprev(n_seq, agsubnodeseqcmpf(node, snd))
        u == ShiftDown([d |-> last.d, nd |-> node], last.obj, fst)
    IN  Renumber(u, snd, u.nd[fst].seq - 1)

\* snd goes behind all others, they move up from the last to fst, and snd takes
\* the number before fst's.
Moved(fst, snd) ==
    LET away == Renumber([d |-> n_seq, nd |-> node], snd, seq.node + 2)
        last == dtprev(away.d, agsubnodeseqcmpf(away.nd, snd))
        u == ShiftDown([away EXCEPT !.d = last.d], last.obj, fst)
    IN  Renumber(u, snd, u.nd[fst].seq - 1)

\* agnodebefore(fst, snd) for two different nodes.
agnodebefore(fst, snd) ==
    /\ fst # snd
    /\ MovesRarely => FreshSeq
    /\ MovesFree => Free(snd)
    /\ Returns(<<"agnodebefore", fst, snd>>, "ok")
    /\ \/ /\ node[fst].seq > node[snd].seq
          /\ UNCHANGED <<node, n_seq>>
       \/ /\ node[fst].seq <= node[snd].seq
          /\ LET r == Moved(fst, snd) IN node' = r.nd /\ n_seq' = r.d
    /\ UNCHANGED <<edge, seq, n_id, s, failed>>

----------------------------------------------------------------------------
(* Edges                                                                   *)

\* newedge.
newedge(t, tail, head, k) ==
    /\ DOMAIN edge # Edge /\ Room(0, 1)
    /\ LET e == Least(Edge \ DOMAIN edge) IN
       /\ seq' = [seq EXCEPT !.edge = @ + 1]
       /\ edge' = edge @@ (e :> [tail |-> tail, head |-> head, id |-> k, seq |-> seq'.edge])
       /\ s' = installedge(t, edge', e)
       /\ Returns(<<"agedge", tail, head, k>>, e)
    /\ UNCHANGED <<node, n_id, n_seq, failed>>

\* agedge(g, tail, head, name, 1) of a named edge in a directed graph that is
\* not strict: the search in g, the same in the main graph, newedge.
NamedEdge(tail, head, k) ==
    LET here == agfindedge_by_key(s, edge, tail, head, k)
        again == agfindedge_by_key(here.s, edge, tail, head, k)
    IN  \/ /\ here.obj # NULL
           /\ s' = here.s
           /\ Returns(<<"agedge", tail, head, k>>, here.obj)
           /\ UNCHANGED <<node, edge, seq, n_id, n_seq, failed>>
        \/ /\ here.obj = NULL
           /\ newedge(again.s, tail, head, k)

\* agedge(g, tail, head, NULL, 1): an ID that no edge has.
AnonymousEdge(tail, head, k) ==
    /\ \A e \in DOMAIN edge : edge[e].id # k
    /\ newedge(s, tail, head, k)

\* agedge(g, tail, head, name or NULL, 0).
FindEdge(tail, head, k) ==
    LET r == agfindedge_by_key(s, edge, tail, head, k)
    IN  /\ s' = r.s
        /\ Returns(<<"agedge", tail, head, k>>, r.obj)
        /\ UNCHANGED <<node, edge, seq, n_id, n_seq, failed>>

agdeledge(e) ==
    LET r == agdeledge1(s, e)
    IN  /\ s' = r.s
        /\ edge' = [f \in DOMAIN edge \ r.gone |-> edge[f]]
        /\ failed' = IF r.ok THEN NULL ELSE "del"
        /\ Returns(<<"agdeledge", e>>, IF r.gone = {} THEN "fail" ELSE "ok")
        /\ UNCHANGED <<node, seq, n_id, n_seq>>

\* cnt: the number of edges in a set.
cnt(t, n, set) ==
    LET d == Restored(t, "e_seq", n, set)
    IN  Extracted(t, "e_seq", n, set, [d |-> [d EXCEPT !.size = dtsize(d)], obj |-> dtsize(d)])

\* agdegree(g, n, 1, 1): loops count twice.
agdegree(n) ==
    LET out == cnt(s, n, "out_seq")
        in == cnt(out.s, n, "in_seq")
    IN  [s |-> in.s, obj |-> in.obj + out.obj]

RECURSIVE UniqIn(_, _, _), OutEdges(_, _)

\* The in-edges of n from e on that are not loops, added to the count r.obj.
UniqIn(r, n, e) ==
    IF e = NULL THEN r
    ELSE LET next == agnxtin(r.s, e)
         IN  UniqIn([s |-> next.s, obj |-> r.obj + IF edge[e].tail # n THEN 1 ELSE 0], n, next.obj)

\* agcountuniqedges(g, n, 1, 1): loops count once.
agcountuniqedges(n) ==
    LET out == cnt(s, n, "out_seq")
        in == agfstin(out.s, n)
    IN  UniqIn([s |-> in.s, obj |-> out.obj], n, in.obj)

CountEdges(n) ==
    /\ \/ LET r == agdegree(n) IN s' = r.s /\ Returns(<<"agdegree", n>>, r.obj)
       \/ LET r == agcountuniqedges(n) IN s' = r.s /\ Returns(<<"agcountuniqedges", n>>, r.obj)
    /\ UNCHANGED <<node, edge, seq, n_id, n_seq, failed>>

\* The out-edges of n and of the nodes after it, in the sequence r.d.
OutEdges(r, n) ==
    IF n = NULL THEN r
    ELSE LET c == cnt(r.s, n, "out_seq")
             next == dtnext(r.d, agsubnodeseqcmpf(node, n))
         IN  OutEdges([d |-> next.d, s |-> c.s, count |-> r.count + c.obj], next.obj)

agnedges ==
    LET first == dtfirst(n_seq)
        r == OutEdges([d |-> first.d, s |-> s, count |-> 0], first.obj)
    IN  /\ n_seq' = r.d
        /\ s' = r.s
        /\ Returns(<<"agnedges">>, r.count)
        /\ UNCHANGED <<node, edge, seq, n_id, failed>>

\* The halves of edges that a caller can have got at n.
HalvesAt(n) ==
    {<<e, "out">> : e \in {f \in DOMAIN edge : edge[f].tail = n}}
    \cup {<<e, "in">> : e \in {f \in DOMAIN edge : edge[f].head = n /\ edge[f].tail # n}}

ScanEdges(n) ==
    /\ \/ LET r == agfstedge(s, n)
          IN  s' = r.s /\ Returns(<<"agnxtedge", n, NULL>>, r.obj)
       \/ \E x \in HalvesAt(n) :
             LET r == agnxtedge(s, x, n)
             IN  s' = r.s /\ Returns(<<"agnxtedge", n, x>>, r.obj)
    /\ UNCHANGED <<node, edge, seq, n_id, n_seq, failed>>

----------------------------------------------------------------------------
Init ==
    /\ node = <<>>
    /\ edge = <<>>
    /\ seq = [node |-> 0, edge |-> 0]
    /\ n_id = {}
    /\ n_seq = EmptyDict
    /\ s = [e_seq |-> EmptyDict, e_id |-> EmptyDict, sub |-> [n \in Node |-> NoSets]]
    /\ failed = NULL
    /\ ret = NULL

\* A program whose assertion failed has stopped.
Next ==
    /\ failed = NULL
    /\ \/ \E k \in NodeID : agnode(k)
       \/ ScanNodes \/ agnedges
       \/ \E n \in DOMAIN node :
             \/ agdelnode(n) \/ ScanEdges(n) \/ CountEdges(n)
             \/ \E k \in NodeID : agrelabel_node(n, k)
       \/ \E m, n \in DOMAIN node :
             \/ agnodebefore(m, n)
             \/ \E k \in EdgeID : NamedEdge(m, n, k) \/ AnonymousEdge(m, n, k)
             \/ FindEdge(m, n, ANY)
       \/ \E e \in DOMAIN edge : agdeledge(e)

Spec == Init /\ [][Next]_vars

----------------------------------------------------------------------------
(* Properties                                                              *)

\* What callers see is the abstract graph: whatever trees the searches have
\* made, each call finds, deletes and steps through the nodes and edges in the
\* order of the sequence numbers, and nothing leaks from one set into another.
Sorted(S, key(_)) ==
    [i \in 1..Cardinality(S) |->
        CHOOSE x \in S : Cardinality({y \in S : key(y) < key(x)}) = i - 1]

Order == Sorted(DOMAIN node, LAMBDA n : node[n].seq)

EdgesByAge ==
    LET es == Sorted(DOMAIN edge, LAMBDA e : edge[e].seq)
    IN  [i \in DOMAIN es |-> LET x == edge[es[i]] IN
            [e |-> es[i], tail |-> x.tail, head |-> x.head, id |-> x.id]]

Promise == INSTANCE OrderedGraph WITH order <- Order, edges <- EdgesByAge

ImplementsOrderedGraph == Promise!Spec

Holds(t, S, before(_, _)) ==
    LET o == InOrder(t)
    IN  /\ SX!Range(o) = S
        /\ \A i, j \in DOMAIN o : i < j => before(o[i], o[j])

\* The assertion of installnode (node.c:98, 105).
SizesAgree == Cardinality(n_id) = dtsize(n_seq)

\* Every set holds exactly the objects it is for, in the order of the keys that
\* they have at this moment: no search can go astray in it, and no assertion of
\* installnode or del fails.
TreesInOrder ==
    /\ failed = NULL
    /\ n_id = DOMAIN node
    /\ Holds(n_seq.here, DOMAIN node, LAMBDA m, n : agsubnodeseqcmpf(node, m)[n] < 0)
    /\ \A n \in DOMAIN node :
          LET outs == {e \in DOMAIN edge : edge[e].tail = n}
              ins  == {e \in DOMAIN edge : edge[e].head = n}
              id(e, f, end) == agedgeidcmpf(edge, edge[e][end], edge[e].id, end)[f]
          IN  /\ Holds(s.sub[n].out_seq, outs, LAMBDA e, f : agedgeseqcmpf(edge, e, "head")[f] < 0)
              /\ Holds(s.sub[n].in_seq, ins, LAMBDA e, f : agedgeseqcmpf(edge, e, "tail")[f] < 0)
              /\ Holds(s.sub[n].out_id, outs, LAMBDA e, f : id(e, f, "head") < 0)
              /\ Holds(s.sub[n].in_id, ins, LAMBDA e, f : id(e, f, "tail") < 0)
    /\ \A n \in Node \ DOMAIN node : s.sub[n] = NoSets
=============================================================================
