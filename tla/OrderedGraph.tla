---------------------------- MODULE OrderedGraph ----------------------------
(***************************************************************************)
(* What the ordered sets of a graph of lib/cgraph promise their callers:   *)
(* the nodes are a sequence in order of creation, in which agnodebefore may*)
(* move one; the edges of a node come in the order of the nodes they lead  *)
(* to, and of their creation; and every call answers by those orders,      *)
(* whatever was looked up before it.                                       *)
(***************************************************************************)
EXTENDS Integers, Sequences, FiniteSets
LOCAL INSTANCE SequencesExt

CONSTANTS
    Node, Edge,        \* the objects
    NULL, ANY          \* no object; any ID

VARIABLES
    order,   \* the nodes
    edges,   \* the edges, in order of creation: [e, tail, head, id]
    ret      \* the last call: [call: its name and arguments, answer]

vars == <<order, edges, ret>>

At(n) == CHOOSE i \in DOMAIN order : order[i] = n

\* The edges that satisfy P, sorted by the position of the node at the other end.
Sorted(P(_), other(_)) ==
    LET chosen == {i \in DOMAIN edges : P(edges[i])}
        before(i, j) ==
            \/ At(other(edges[i])) < At(other(edges[j]))
            \/ other(edges[i]) = other(edges[j]) /\ i < j
    IN  [p \in 1..Cardinality(chosen) |->
            edges[CHOOSE i \in chosen : Cardinality({j \in chosen : before(j, i)}) = p - 1].e]

\* The halves of edges at n, as agfstedge and agnxtedge go through them: the
\* out-edges, then the in-edges without loops.
Halves(n) ==
    LET outs == Sorted(LAMBDA x : x.tail = n, LAMBDA x : x.head)
        ins == Sorted(LAMBDA x : x.head = n /\ x.tail # n, LAMBDA x : x.tail)
    IN  [i \in DOMAIN outs |-> <<outs[i], "out">>] \o [i \in DOMAIN ins |-> <<ins[i], "in">>]

\* The element of s after x, the first one for NULL.
Successor(s, x) ==
    LET i == IF x = NULL THEN 0 ELSE CHOOSE j \in DOMAIN s : s[j] = x
    IN  IF i + 1 \in DOMAIN s THEN s[i + 1] ELSE NULL

Between(t, h, k) ==
    {x.e : x \in {y \in Range(edges) : y.tail = t /\ y.head = h /\ (k = ANY \/ y.id = k)}}

Init == order = <<>> /\ edges = <<>> /\ ret = NULL

AddNode ==
    /\ ret'.answer \in Node \ Range(order)
    /\ order' = Append(order, ret'.answer)
    /\ UNCHANGED edges

DropNode(n) ==
    /\ ret'.answer = "ok"
    /\ order' = SelectSeq(order, LAMBDA x : x # n)
    /\ edges' = SelectSeq(edges, LAMBDA x : x.tail # n /\ x.head # n)

\* snd goes just before fst, if it is not before it already.
MoveBefore(fst, snd) ==
    /\ ret'.answer = "ok"
    /\ order' = IF At(snd) < At(fst) THEN order
                ELSE InsertAt(SelectSeq(order, LAMBDA x : x # snd), At(fst), snd)
    /\ UNCHANGED edges

\* Renaming shows in nothing that is ordered.
Rename ==
    /\ ret'.answer \in {"ok", "fail"}
    /\ UNCHANGED <<order, edges>>

AddEdge(t, h, k) ==
    /\ k # ANY /\ Between(t, h, k) = {}
    /\ ret'.answer \in Edge \ {x.e : x \in Range(edges)}
    /\ edges' = Append(edges, [e |-> ret'.answer, tail |-> t, head |-> h, id |-> k])
    /\ UNCHANGED order

DropEdge(e) ==
    /\ ret'.answer = "ok"
    /\ edges' = SelectSeq(edges, LAMBDA x : x.e # e)
    /\ UNCHANGED order

\* One of the edges asked for, if there are any.
FindEdge(t, h, k) ==
    /\ ret'.answer \in IF Between(t, h, k) = {} THEN {NULL} ELSE Between(t, h, k)
    /\ UNCHANGED <<order, edges>>

NextNode(n) ==
    /\ ret'.answer = Successor(order, n)
    /\ UNCHANGED <<order, edges>>

PrevNode(n) ==
    /\ ret'.answer = Successor(Reverse(order), n)
    /\ UNCHANGED <<order, edges>>

NextEdge(n, x) ==
    /\ ret'.answer = Successor(Halves(n), x)
    /\ UNCHANGED <<order, edges>>

\* A loop counts twice in the degree of its node, once among its edges.
Degree(n) ==
    /\ ret'.answer = Cardinality({i \in DOMAIN edges : edges[i].tail = n})
                     + Cardinality({i \in DOMAIN edges : edges[i].head = n})
    /\ UNCHANGED <<order, edges>>

CountEdgesAt(n) ==
    /\ ret'.answer = Len(Halves(n))
    /\ UNCHANGED <<order, edges>>

CountEdges ==
    /\ ret'.answer = Len(edges)
    /\ UNCHANGED <<order, edges>>

\* A step is a call, with its arguments and its answer.
Next ==
    LET c == ret'.call IN
    \/ c[1] = "agnode" /\ AddNode
    \/ c[1] = "agdelnode" /\ DropNode(c[2])
    \/ c[1] = "agnodebefore" /\ MoveBefore(c[2], c[3])
    \/ c[1] = "agrelabel_node" /\ Rename
    \/ c[1] = "agedge" /\ (AddEdge(c[2], c[3], c[4]) \/ FindEdge(c[2], c[3], c[4]))
    \/ c[1] = "agdeledge" /\ DropEdge(c[2])
    \/ c[1] = "agnxtnode" /\ NextNode(c[2])
    \/ c[1] = "agprvnode" /\ PrevNode(c[2])
    \/ c[1] = "agnxtedge" /\ NextEdge(c[2], c[3])
    \/ c[1] = "agdegree" /\ Degree(c[2])
    \/ c[1] = "agcountuniqedges" /\ CountEdgesAt(c[2])
    \/ c[1] = "agnedges" /\ CountEdges

Spec == Init /\ [][Next]_vars
=============================================================================
