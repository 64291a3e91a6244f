-------------------------- MODULE CgraphLoopProofs --------------------------
(***************************************************************************)
(* Proofs about what the calls of Cgraph leave behind: the loops that      *)
(* delete from the dictionary they walk keep a live successor              *)
(* (CursorsLive), no object that is allocated is lost (NoLeak) and a       *)
(* strict graph has no parallel edges (AtMostOneEdge).  LoopsOK is the     *)
(* inductive invariant of the loops, IndInv that of the objects.           *)
(***************************************************************************)
EXTENDS CgraphProofs

USE DEF vars, hierarchy, nodeState, edgeState, closing, deleting

----------------------------------------------------------------------------
(* The loops                                                               *)

\* The walk of agapply from a subgraph does not come to the root.
LEMMA ApplyBelow ==
    ASSUME TypeOK, TreeOK, NEW g \in Listed, g # root, NEW S
    PROVE  root \notin rec_apply(g, S)
  <1> DEFINE W == Graph \ {root}
  <1>1. g \in W /\ W \in SUBSET Graph /\ kids \in [Graph -> SUBSET Graph]
    BY ListedClosed DEF TypeOK
  <1>2. \A p \in W : kids[p] \cap S \subseteq W
    BY <1>1, Objects DEF TreeOK, ListedAgree
  <1>3. Down(kids, g, S) \subseteq W
    BY <1>1, <1>2, DownLeast
  <1> QED
    BY <1>3 DEF rec_apply

\* It does not leave a graph without subgraphs.
LEMMA ApplyLeaf ==
    ASSUME TypeOK, NEW g \in Listed, kids[g] = {}, NEW S
    PROVE  rec_apply(g, S) = {g}
  <1>1. g \in Graph /\ kids \in [Graph -> SUBSET Graph]
    BY ListedClosed DEF TypeOK
  <1>2. Down(kids, g, S) \subseteq {g}
    <2>1. {g} \in SUBSET Graph /\ \A p \in {g} : kids[p] \cap S \subseteq {g}
      BY <1>1
    <2> QED
      BY <1>1, <2>1, DownLeast
  <1>3. g \in Down(kids, g, S)
    BY <1>1, DownClosed
  <1> QED
    BY <1>2, <1>3 DEF rec_apply

\* While agclose walks the nodes of the root, no other graph is left to close.
LEMMA RootAlone ==
    ASSUME TypeOK, ClosingOK, stage[root] = "nodes", NEW g \in Graph, g # root
    PROVE  stage[g] = "open"
  <1>1. kids[root] = {} /\ root \in Graph
    BY Objects DEF ClosingOK
  <1>2. Listed \subseteq {root}
    BY <1>1, ListedLeast
  <1> QED
    BY <1>2 DEF ClosingOK

\* agfstedge and agnxtedge return an incident edge, and NULL only after the
\* last one.
LEMMA EdgesLeftIncident ==
    ASSUME TypeOK, NEW n, NEW e, NEW f \in OneOf(EdgesLeft(n, e))
    PROVE  /\ f # NULL => f \in (edges[root] \cap Incident(n)) \ {e}
           /\ f = NULL => edges[root] \cap Incident(n) \subseteq {e}
  <1>1. edges[root] \subseteq Edge /\ NULL \notin Edge
    BY Objects DEF TypeOK
  <1>2. EdgesLeft(n, e) \subseteq (edges[root] \cap Incident(n)) \ {e}
    BY <1>1 DEF EdgesLeft, Incident
  <1>3. EdgesLeft(n, e) = {} => edges[root] \cap Incident(n) \subseteq {e}
    BY <1>1 DEF EdgesLeft, Incident
  <1> QED
    BY <1>1, <1>2, <1>3 DEF OneOf

\* The end of a loop is an empty dictionary.
LEMMA OneOfLeft ==
    ASSUME NEW S, NULL \notin S, NEW s \in OneOf(S)
    PROVE  (s # NULL => s \in S) /\ (s = NULL => S = {})
  BY DEF OneOf

LEMMA LoopsInit == Init => LoopsOK
  BY DEF Init, LoopsOK, CursorsLive

\* A step between calls that starts no loop.
LEMMA BetweenCalls ==
    ASSUME LoopsOK, Idle, UNCHANGED <<closing, deleting>>
    PROVE  LoopsOK'
  <1>1. doomed' = NULL /\ nextEdge' = NULL /\ \A g \in Graph : stage'[g] = "open"
    BY DEF Idle, LoopsOK
  <1> QED
    BY <1>1, Objects DEF LoopsOK, CursorsLive

\* agdelnode of the root begins: from the program, or from the agclose of the
\* root.
LEMMA LoopStarts ==
    ASSUME IndInv, NEW n \in nodes[root], StartDelete(n),
           UNCHANGED <<kids, nodes, edges, tail, head, stage>>,
           \A g \in Graph \ {root} : stage[g] = "open",
           stage[root] = "open" \/
             /\ stage[root] = "nodes"
             /\ next'[root] # NULL => next'[root] \in nodes[root] \ {n}
             /\ next'[root] = NULL => nodes[root] \subseteq {n}
    PROVE  LoopsOK'
  <1>1. n # NULL /\ root \in Graph /\ doomed' = n
    BY Objects DEF IndInv, TypeOK, StartDelete
  <1>2. /\ nextEdge' # NULL => nextEdge' \in edges[root] \cap Incident(n)
        /\ nextEdge' = NULL => edges[root] \cap Incident(n) = {}
    <2>1. edges[root] \subseteq Edge /\ NULL \notin Edge
      BY <1>1, Objects DEF IndInv, TypeOK
    <2>2. nextEdge' \in OneOf(EdgesLeft(n, NULL))
      BY DEF StartDelete
    <2> QED
      BY <2>1, <2>2, EdgesLeftIncident DEF IndInv
  <1>3. Incident(n)' = Incident(n)
    BY DEF Incident
  <1>4. ASSUME NEW g \in Graph
        PROVE  /\ stage'[g] = "subgs" => next'[g] \in kids'[g] \cup {NULL}
               /\ stage'[g] = "nodes" => next'[g] \in nodes'[g] \cup {NULL}
               /\ stage'[g] = "nodes" /\ next'[g] = NULL => nodes'[g] \subseteq {n}
    BY <1>1
  <1>5. CursorsLive'
    BY <1>1, <1>2, <1>3, <1>4 DEF CursorsLive
  <1> QED
    BY <1>1, <1>2, <1>3, <1>4, <1>5 DEF LoopsOK

LEMMA DeleteEdgeLoops ==
    ASSUME IndInv, LoopsOK, DeleteEdge
    PROVE  LoopsOK'
  <1>1. /\ doomed # NULL /\ nextEdge # NULL
        /\ nextEdge \in edges[root] \cap Incident(doomed)
        /\ nextEdge' \in OneOf(EdgesLeft(doomed, nextEdge))
        /\ EraseEdge(root, nextEdge) /\ FreeEdge(nextEdge)
        /\ UNCHANGED <<hierarchy, nodeState, closing, doomed>>
    BY DEF DeleteEdge, LoopsOK, CursorsLive
  <1>2. root \in Listed /\ root \in Graph /\ edges[root] \subseteq Edge
    BY ListedClosed, Objects DEF IndInv, TypeOK
  <1>3. edges'[root] = edges[root] \ {nextEdge}
    BY <1>1, <1>2, EraseEdgeEffect
  <1>4. edges'[root] \cap Incident(doomed)' = (edges[root] \cap Incident(doomed)) \ {nextEdge}
    <2>1. \A f \in edges'[root] : f \in Edge /\ tail'[f] = tail[f] /\ head'[f] = head[f]
      BY <1>1, <1>2, <1>3 DEF FreeEdge, IndInv, TypeOK
    <2> QED
      BY <1>1, <1>2, <1>3, <2>1 DEF Incident
  <1>5. /\ nextEdge' # NULL => nextEdge' \in edges'[root] \cap Incident(doomed)'
        /\ nextEdge' = NULL => edges'[root] \cap Incident(doomed)' = {}
    BY <1>1, <1>4, EdgesLeftIncident DEF IndInv
  <1>6. CursorsLive'
    BY <1>1, <1>5 DEF LoopsOK, CursorsLive
  <1> QED
    BY <1>1, <1>5, <1>6 DEF LoopsOK

LEMMA FinishDeleteLoops ==
    ASSUME IndInv, LoopsOK, FinishDelete
    PROVE  LoopsOK'
  <1>1. /\ doomed # NULL /\ nextEdge = NULL /\ doomed' = NULL /\ nextEdge' = NULL
        /\ EraseNode(root, doomed) /\ UNCHANGED <<hierarchy, closing>>
    BY DEF FinishDelete
  <1>2. root \in Listed /\ root \in Graph
    BY ListedClosed, Objects DEF IndInv
  <1>3. nodes'[root] = nodes[root] \ {doomed}
    BY <1>1, <1>2, EraseNodeEffect
  <1>4. \A g \in Graph \ {root} : stage'[g] = "open"
    BY <1>1 DEF LoopsOK
  <1>5. CursorsLive'
    BY <1>1, <1>3, <1>4 DEF LoopsOK, CursorsLive
  <1> QED
    BY <1>1, <1>2, <1>3, <1>4, <1>5 DEF LoopsOK

LEMMA CloseCallLoops ==
    ASSUME IndInv, LoopsOK, NEW g \in Graph, agclose(g)
    PROVE  LoopsOK'
  <1>1. PICK s \in OneOf(kids[g]) : next' = [next EXCEPT ![g] = s]
    BY DEF agclose
  <1>2. /\ \A x \in Graph : stage'[x] = IF x = g THEN "subgs" ELSE "open"
        /\ next'[g] = s /\ doomed' = NULL /\ nextEdge' = NULL
        /\ kids' = kids /\ kids[g] \subseteq Graph /\ NULL \notin Graph
    BY <1>1, Objects DEF agclose, Idle, LoopsOK, IndInv, TypeOK
  <1>3. s \in kids[g] \cup {NULL}
    BY <1>2, OneOfLeft
  <1> QED
    BY <1>2, <1>3 DEF LoopsOK, CursorsLive

LEMMA CloseSubgLoops ==
    ASSUME IndInv, LoopsOK, NEW g \in Graph, CloseSubg(g)
    PROVE  LoopsOK'
  <1> DEFINE b == next[g]
  <1>1. /\ stage[g] = "subgs" /\ b # NULL /\ doomed = NULL /\ nextEdge = NULL
        /\ stage' = [stage EXCEPT ![b] = "subgs"]
        /\ UNCHANGED <<hierarchy, nodeState, edgeState, deleting>>
    BY DEF CloseSubg, Running, LoopsOK
  <1>2. b \in kids[g] /\ b \in Graph /\ stage[b] = "open" /\ b # g
    BY <1>1 DEF IndInv, ClosingOK, TypeOK
  <1>3. PICK s \in OneOf(kids[g] \ {b}), s1 \in OneOf(kids[b]) :
          next' = [next EXCEPT ![g] = s, ![b] = s1]
    BY DEF CloseSubg
  <1>4. s \in kids[g] \cup {NULL} /\ s1 \in kids[b] \cup {NULL}
    <2>1. NULL \notin kids[g] /\ NULL \notin kids[b]
      BY <1>2, Objects DEF IndInv, TypeOK
    <2> QED
      BY <1>3, <2>1, OneOfLeft
  <1>5. \A x \in Graph :
          /\ stage'[x] = IF x = b THEN "subgs" ELSE stage[x]
          /\ next'[x] = IF x = b THEN s1 ELSE IF x = g THEN s ELSE next[x]
    BY <1>1, <1>2, <1>3 DEF IndInv, TypeOK
  <1> HIDE DEF b
  <1>6. ASSUME NEW x \in Graph
        PROVE  /\ stage'[x] = "subgs" => next'[x] \in kids'[x] \cup {NULL}
               /\ stage'[x] = "nodes" => next'[x] \in nodes'[x] \cup {NULL}
               /\ stage'[x] = "nodes" /\ next'[x] = NULL => nodes'[x] \subseteq {doomed'}
    BY <1>1, <1>2, <1>4, <1>5 DEF LoopsOK, CursorsLive
  <1> QED
    BY <1>1, <1>6 DEF LoopsOK, CursorsLive

LEMMA SubgsClosedLoops ==
    ASSUME IndInv, LoopsOK, NEW g \in Graph, SubgsClosed(g)
    PROVE  LoopsOK'
  <1>1. PICK n \in OneOf(nodes[g]) : next' = [next EXCEPT ![g] = n]
    BY DEF SubgsClosed
  <1>2. /\ doomed = NULL /\ nextEdge = NULL
        /\ \A x \in Graph : /\ stage'[x] = IF x = g THEN "nodes" ELSE stage[x]
                            /\ next'[x] = IF x = g THEN n ELSE next[x]
        /\ UNCHANGED <<hierarchy, nodeState, edgeState, deleting>>
        /\ NULL \notin nodes[g]
    BY <1>1, Objects DEF SubgsClosed, Running, LoopsOK, IndInv, TypeOK
  <1>3. (n # NULL => n \in nodes[g]) /\ (n = NULL => nodes[g] = {})
    BY <1>2, OneOfLeft
  <1>4. ASSUME NEW x \in Graph
        PROVE  /\ stage'[x] = "subgs" => next'[x] \in kids'[x] \cup {NULL}
               /\ stage'[x] = "nodes" => next'[x] \in nodes'[x] \cup {NULL}
               /\ stage'[x] = "nodes" /\ next'[x] = NULL => nodes'[x] \subseteq {doomed'}
    BY <1>2, <1>3 DEF LoopsOK, CursorsLive
  <1> QED
    BY <1>2, <1>4 DEF LoopsOK, CursorsLive

LEMMA CloseNodeLoops ==
    ASSUME IndInv, LoopsOK, NEW g \in Graph, CloseNode(g)
    PROVE  LoopsOK'
  <1> DEFINE m == next[g]
  <1>1. PICK n \in OneOf(nodes[g] \ {m}) : next' = [next EXCEPT ![g] = n]
    BY DEF CloseNode
  <1>2. /\ stage[g] = "nodes" /\ m # NULL /\ doomed = NULL /\ nextEdge = NULL
        /\ m \in nodes[g] /\ NULL \notin nodes[g]
        /\ \A x \in Graph : next'[x] = IF x = g THEN n ELSE next[x]
        /\ UNCHANGED <<hierarchy, stage, tail, head>>
    BY <1>1, Objects DEF CloseNode, Running, LoopsOK, CursorsLive, IndInv, TypeOK
  <1>3. (n # NULL => n \in nodes[g] \ {m}) /\ (n = NULL => nodes[g] \subseteq {m})
    BY <1>1, <1>2, OneOfLeft
  <1>4. CASE g = root
    <2>1. StartDelete(m) /\ UNCHANGED <<kids, nodes, edges, tail, head, stage>>
      BY <1>2, <1>4 DEF CloseNode
    <2>2. \A x \in Graph \ {root} : stage[x] = "open"
      BY <1>2, <1>4, RootAlone DEF IndInv
    <2>3. next'[root] = n /\ stage[root] = "nodes" /\ m \in nodes[root]
      BY <1>2, <1>4
    <2> HIDE DEF m
    <2> QED
      BY <1>3, <1>4, <2>1, <2>2, <2>3, LoopStarts
  <1>5. CASE g # root
    <2>1. EraseNode(g, m) /\ UNCHANGED deleting
      BY <1>5 DEF CloseNode
    <2>2. rec_apply(g, {x \in Graph : m \in nodes[x]}) = {g}
      <3>1. g \in Listed /\ kids[g] = {}
        BY <1>2 DEF IndInv, ClosingOK
      <3> QED
        BY <3>1, ApplyLeaf DEF IndInv
    <2>3. \A x \in Graph : nodes'[x] = IF x = g THEN nodes[x] \ {m} ELSE nodes[x]
      BY <2>1, <2>2 DEF EraseNode
    <2> HIDE DEF m
    <2>4. ASSUME NEW x \in Graph
          PROVE  /\ stage'[x] = "subgs" => next'[x] \in kids'[x] \cup {NULL}
                 /\ stage'[x] = "nodes" => next'[x] \in nodes'[x] \cup {NULL}
                 /\ stage'[x] = "nodes" /\ next'[x] = NULL => nodes'[x] \subseteq {doomed'}
      BY <1>2, <1>3, <2>1, <2>3 DEF LoopsOK, CursorsLive
    <2> QED
      BY <1>2, <2>1, <2>4 DEF LoopsOK, CursorsLive
  <1> QED
    BY <1>4, <1>5

LEMMA CloseGraphLoops ==
    ASSUME IndInv, LoopsOK, NEW g \in Graph, CloseGraph(g)
    PROVE  LoopsOK'
  <1>1. /\ stage[g] = "nodes" /\ doomed = NULL /\ nextEdge = NULL
        /\ UNCHANGED <<next, deleting>>
        /\ \A x \in Graph : /\ stage'[x] = IF x = g THEN "open" ELSE stage[x]
                            /\ nodes'[x] = IF x = g THEN {} ELSE nodes[x]
    BY DEF CloseGraph, Running, LoopsOK, IndInv, TypeOK
  <1>2. \A x \in Graph : x # g => kids[x] \ {g} \subseteq kids'[x]
    BY DEF CloseGraph
  <1>3. ASSUME NEW x \in Graph
        PROVE  /\ stage'[x] = "subgs" => next'[x] \in kids'[x] \cup {NULL}
               /\ stage'[x] = "nodes" => next'[x] \in nodes'[x] \cup {NULL}
               /\ stage'[x] = "nodes" /\ next'[x] = NULL => nodes'[x] \subseteq {doomed'}
    <2>1. stage'[x] = "subgs" /\ next[x] # NULL => next[x] # g
      BY <1>1 DEF IndInv, ClosingOK
    <2> QED
      BY <1>1, <1>2, <2>1 DEF LoopsOK, CursorsLive
  <1> QED
    BY <1>1, <1>3 DEF LoopsOK, CursorsLive

LEMMA LoopsInvariance == IndInv /\ LoopsOK /\ [Next]_vars => LoopsOK'
  <1> SUFFICES ASSUME IndInv, LoopsOK, [Next]_vars
               PROVE  LoopsOK'
    OBVIOUS
  <1>1. CASE UNCHANGED vars
    BY <1>1 DEF LoopsOK, CursorsLive, Incident
  <1>2. CASE Call
    <2>1. CASE agopen
      BY <2>1 DEF agopen, LoopsOK, CursorsLive, Incident
    <2>2. ASSUME NEW g \in Graph,
                 \/ \E name \in GraphName \cup {NULL} : agsubg(g, name)
                 \/ \E s \in Graph : agdelsubg(g, s)
                 \/ \E name \in NodeName \cup {NULL} : agnode(g, name)
                 \/ \E id \in NodeName \cup Node : agidnode(g, id)
                 \/ \E n \in Node : agsubnode(g, n)
                 \/ \E e \in Edge : agdeledge(g, e)
                 \/ \E t, h \in Node, key \in EdgeName \cup {NULL} : agedge(g, t, h, key)
                 \/ \E e \in Edge : agidedge(g, e) \/ agsubedge(g, e)
          PROVE  LoopsOK'
      <3>1. Idle /\ UNCHANGED <<closing, deleting>>
        BY <2>2 DEF agsubg, agdelsubg, agnode, agidnode, agsubnode, agdeledge,
                    agedge, agidedge, agsubedge
      <3> QED
        BY <3>1, BetweenCalls
    <2>3. ASSUME NEW g \in Graph, NEW n \in Node, agdelnode(g, n)
          PROVE  LoopsOK'
      <3>1. CASE g = root
        <4>1. /\ n \in nodes[root] /\ StartDelete(n)
              /\ UNCHANGED <<kids, nodes, edges, tail, head, stage>>
              /\ \A x \in Graph : stage[x] = "open"
          BY <2>3, <3>1 DEF agdelnode, Idle
        <4> QED
          BY <4>1, Objects, LoopStarts
      <3>2. CASE g # root
        BY <2>3, <3>2, BetweenCalls DEF agdelnode
      <3> QED
        BY <3>1, <3>2
    <2>4. ASSUME NEW g \in Graph, agclose(g)
          PROVE  LoopsOK'
      BY <2>4, CloseCallLoops
    <2> QED
      BY <1>2, <2>1, <2>2, <2>3, <2>4 DEF Call
  <1>3. CASE Step
    BY <1>3, DeleteEdgeLoops, FinishDeleteLoops, CloseSubgLoops, SubgsClosedLoops,
       CloseNodeLoops, CloseGraphLoops DEF Step
  <1> QED
    BY <1>1, <1>2, <1>3 DEF Next

\* The loops of agclose and agdelnode are where LoopsOK says, whatever calls
\* came before.
THEOREM LoopsHold == Spec => []LoopsOK
  <1> QED
    BY LoopsInit, LoopsInvariance, Inductive, PTL DEF Spec

\* agclose and agdelnode come back to a successor that they saved before the
\* deletion and that the deletion left: neither walks into a freed object.
THEOREM CursorsStayLive == Spec => []CursorsLive
  <1>1. LoopsOK => CursorsLive
    BY DEF LoopsOK
  <1> QED
    BY <1>1, LoopsHold, PTL

----------------------------------------------------------------------------
(* No object is lost                                                       *)

\* What a listed graph holds is held by the root, for any contents that grow
\* towards the parents.
LEMMA RootHolds ==
    ASSUME TypeOK, NEW f, \A p \in Graph : \A c \in kids[p] : f[c] \subseteq f[p],
           NEW g \in Listed
    PROVE  f[g] \subseteq f[root]
  <1> DEFINE W == {x \in Graph : f[x] \subseteq f[root]}
  <1>1. root \in W /\ W \in SUBSET Graph
    BY Objects
  <1>2. \A p \in W : kids[p] \subseteq W
    BY DEF TypeOK
  <1>3. Listed \subseteq W
    BY <1>1, <1>2, ListedLeast
  <1> QED
    BY <1>3

LEMMA WithNodesKeeps ==
    ASSUME NEW g, NEW N, nodes' = WithNodes(g, N)
    PROVE  nodes[root] \subseteq nodes'[root]
  BY Objects DEF WithNodes

LEMMA InstallKeeps ==
    ASSUME NEW g, NEW e, NEW t, NEW h, NEW id, installedge(g, e, t, h, id)
    PROVE  edges[root] \subseteq edges'[root]
  BY Objects DEF installedge

\* The root holds the node that newnode allocates, whatever graph agnode was
\* called on.
LEMMA NewNodeHeld ==
    ASSUME IndInv, NEW g \in Listed, NEW name, NewNode(g, name)
    PROVE  nodeHeap' \subseteq nodeHeap \cup nodes'[root] /\ nodes[root] \subseteq nodes'[root]
  <1>1. PICK n \in Node :
           /\ nodeHeap' = nodeHeap \cup {n}
           /\ nodes' = [x \in Graph |-> IF x \in Up(parent, g, {}) THEN nodes[x] \cup {n}
                                                             ELSE nodes[x]]
    BY DEF NewNode
  <1>2. g \in Graph /\ DOMAIN parent = Graph
    BY ListedClosed DEF IndInv, TypeOK
  <1>3. n \in nodes'[g]
    <2>1. g \in Up(parent, g, {})
      BY <1>2, UpClosed
    <2> QED
      BY <1>1, <1>2, <2>1
  <1>4. \A p \in Graph : \A c \in kids[p] : nodes'[c] \subseteq nodes'[p]
    BY <1>1, NewNodeEnter DEF Enter
  <1>5. n \in nodes'[root]
    <2>1. nodes'[g] \subseteq nodes'[root]
      BY <1>4, RootHolds DEF IndInv
    <2> QED
      BY <1>3, <2>1
  <1> QED
    BY <1>1, <1>5, Objects

\* The root holds the edge that newedge allocates: no graph stops the climb of
\* installedge, as none has an edge of that ID, and none lacks an end point.
LEMMA NewEdgeHeld ==
    ASSUME IndInv, NEW g \in Listed, NEW t, NEW h, NEW key \in EdgeName \cup {NULL},
           key # NULL => Found(root, t, h, key) = {},
           newedge(g, t, h, key), ~fault
    PROVE  edgeHeap' \subseteq edgeHeap \cup edges'[root] /\ edges[root] \subseteq edges'[root]
  <1>1. PICK e \in Edge \ edgeHeap :
           /\ nodes' = WithNodes(g, {t, h})
           /\ edgeHeap' = edgeHeap \cup {e}
           /\ installedge(g, e, t, h, IF key = NULL THEN e ELSE key)
    BY DEF newedge
  <1>2. PICK id : id = IF key = NULL THEN e ELSE key
    OBVIOUS
  <1>3. g \in Graph /\ DOMAIN parent = Graph /\ root \in Graph
    BY ListedClosed, Objects DEF IndInv, TypeOK
  <1>4. ASSUME NEW p \in Listed
        PROVE  Matches(p, t, h, id) = {}
    <2>1. edges[p] \subseteq edges[root] /\ edges[root] \subseteq edgeHeap
      BY ListedHeld, ListedClosed DEF IndInv, NoDangling
    <2>2. edgeHeap \subseteq Edge /\ NULL \notin Edge \cup EdgeName
      BY Objects DEF IndInv, TypeOK
    <2>3. \A f \in edgeHeap : eid[f] # e
      BY <1>1, <2>2, Objects DEF IndInv, TypeOK
    <2>4. CASE key = NULL
      BY <1>1, <1>2, <2>1, <2>2, <2>3, <2>4 DEF Matches
    <2>5. CASE key # NULL
      <3>1. Matches(root, t, h, key) = {}
        BY <2>5 DEF Found
      <3> QED
        BY <1>2, <2>1, <2>5, <3>1 DEF Matches
    <2> QED
      BY <2>4, <2>5
  <1>5. PICK lacking : lacking = Up(parent, g, {x \in Graph : Matches(x, t, h, id) # {}})
    OBVIOUS
  <1>6. edges' = [x \in Graph |-> IF x \in lacking THEN edges[x] \cup {e} ELSE edges[x]]
    <2>1. ~fault'
      BY NewEdgeSafe
    <2> QED
      BY <1>1, <1>2, <1>5, <2>1 DEF installedge
  <1>7. g \in lacking
    <2>1. g \notin {x \in Graph : Matches(x, t, h, id) # {}}
      BY <1>4
    <2> QED
      BY <1>3, <1>5, <2>1, UpClosed
  <1>8. \A p \in Graph : \A c \in kids[p] : edges'[c] \subseteq edges'[p]
    <2>1. installedge(g, e, t, h, id) /\ \A p \in Listed : Matches(p, t, h, id) \subseteq {e}
      BY <1>1, <1>2, <1>4
    <2> QED
      BY <2>1, InstallEffect
  <1>9. e \in edges'[root]
    <2>1. edges'[g] \subseteq edges'[root]
      BY <1>8, RootHolds DEF IndInv
    <2> QED
      BY <1>3, <1>6, <1>7, <2>1
  <1> QED
    BY <1>1, <1>3, <1>6, <1>9

LEMMA EdgeCallsKeep ==
    ASSUME IndInv, NoLeak, NEW g \in Graph,
           \/ \E t, h \in Node, key \in EdgeName \cup {NULL} : agedge(g, t, h, key)
           \/ \E e \in Edge : agidedge(g, e) \/ agsubedge(g, e)
    PROVE  NoLeak'
  <1>1. g \in Listed /\ nodeHeap' = nodeHeap /\ ~fault
    BY DEF agedge, agidedge, agsubedge, Idle
  <1>2. ASSUME NEW N, nodes' = nodes \/ nodes' = WithNodes(g, N), edgeHeap' = edgeHeap,
               NEW e, NEW t, NEW h, NEW id, installedge(g, e, t, h, id)
        PROVE  NoLeak'
    BY <1>1, <1>2, WithNodesKeeps, InstallKeeps DEF NoLeak
  <1>3. ASSUME NEW e \in Edge, agidedge(g, e) \/ agsubedge(g, e)
        PROVE  NoLeak'
    BY <1>2, <1>3 DEF agidedge, agsubedge
  <1>4. ASSUME NEW t \in Node, NEW h \in Node, NEW key \in EdgeName \cup {NULL},
               agedge(g, t, h, key)
        PROVE  NoLeak'
    <2>1. CASE \E e \in Found(root, t, h, key) :
                  /\ nodes' = nodes
                  /\ installedge(g, e, tail[e], head[e], eid[e])
                  /\ edgeHeap' = edgeHeap
      BY <1>2, <2>1
    <2>2. CASE (key # NULL => Found(root, t, h, key) = {}) /\ newedge(g, t, h, key)
      <3>1. nodes' = WithNodes(g, {t, h})
        BY <2>2 DEF newedge
      <3>2. nodes[root] \subseteq nodes'[root]
        BY <3>1, WithNodesKeeps
      <3>3. edgeHeap' \subseteq edgeHeap \cup edges'[root] /\ edges[root] \subseteq edges'[root]
        BY <1>1, <2>2, NewEdgeHeld
      <3> QED
        BY <1>1, <3>2, <3>3 DEF NoLeak
    <2> QED
      BY <1>4, <2>1, <2>2 DEF agedge
  <1> QED
    BY <1>3, <1>4

\* An object that a call removes from the root is freed by that call, and a
\* call on a subgraph removes nothing from the root.
LEMMA DeletionsKeep ==
    ASSUME IndInv, LoopsOK, NoLeak,
           \/ \E g \in Graph, n \in Node : agdelnode(g, n)
           \/ \E g \in Graph, e \in Edge : agdeledge(g, e)
           \/ DeleteEdge
           \/ FinishDelete
           \/ \E g \in Graph : CloseNode(g)
    PROVE  NoLeak'
  <1>1. root \in Listed /\ root \in Graph
    BY ListedClosed DEF IndInv
  <1>2. ASSUME NEW g \in Listed, g # root, NEW n, EraseNode(g, n), UNCHANGED <<nodeHeap, edgeHeap>>
        PROVE  NoLeak'
    <2>1. root \notin rec_apply(g, {x \in Graph : n \in nodes[x]})
      BY <1>2, ApplyBelow DEF IndInv
    <2>2. nodes'[root] = nodes[root] /\ edges'[root] = edges[root]
      BY <1>1, <1>2, <2>1 DEF EraseNode
    <2> QED
      BY <1>2, <2>2 DEF NoLeak
  <1>3. ASSUME NEW e, EraseEdge(root, e), edgeHeap' = edgeHeap \ {e}, UNCHANGED nodeState
        PROVE  NoLeak'
    <2>1. edges[root] \ {e} \subseteq edges'[root]
      BY <1>1, <1>3, EraseEdgeEffect
    <2> QED
      BY <1>3, <2>1 DEF NoLeak
  <1>4. ASSUME NEW g \in Graph, NEW n \in Node, agdelnode(g, n)
        PROVE  NoLeak'
    <2>1. CASE g = root
      BY <1>4, <2>1 DEF agdelnode, NoLeak
    <2>2. CASE g # root
      BY <1>2, <1>4, <2>2 DEF agdelnode
    <2> QED
      BY <2>1, <2>2
  <1>5. ASSUME NEW g \in Graph, NEW e \in Edge, agdeledge(g, e)
        PROVE  NoLeak'
    <2>1. CASE g = root
      BY <1>3, <1>5, <2>1 DEF agdeledge, FreeEdge
    <2>2. CASE g # root
      <3>1. root \notin rec_apply(g, {x \in Graph : e \in edges[x] /\ {tail[e], head[e]} \subseteq nodes[x]})
        BY <1>5, <2>2, ApplyBelow DEF agdeledge, IndInv
      <3>2. edges'[root] = edges[root] /\ UNCHANGED <<nodeState, edgeHeap>>
        BY <1>1, <1>5, <2>2, <3>1 DEF agdeledge, EraseEdge
      <3> QED
        BY <3>2 DEF NoLeak
    <2> QED
      BY <2>1, <2>2
  <1>6. CASE DeleteEdge
    BY <1>3, <1>6 DEF DeleteEdge, FreeEdge
  <1>7. CASE FinishDelete
    <2>1. /\ EraseNode(root, doomed) /\ nodeHeap' = nodeHeap \ {doomed} /\ edgeHeap' = edgeHeap
          /\ edges[root] \cap Incident(doomed) = {}
      BY <1>7 DEF FinishDelete, LoopsOK
    <2>2. edges'[root] = edges[root]
      BY <1>1, <2>1 DEF EraseNode
    <2>3. nodes[root] \ {doomed} \subseteq nodes'[root]
      BY <1>1, <2>1, EraseNodeEffect
    <2> QED
      BY <2>1, <2>2, <2>3 DEF NoLeak
  <1>8. ASSUME NEW g \in Graph, CloseNode(g)
        PROVE  NoLeak'
    <2>1. g \in Listed /\ UNCHANGED <<nodeHeap, edgeHeap>>
      BY <1>8 DEF CloseNode, IndInv, ClosingOK
    <2>2. CASE g = root
      BY <1>8, <2>1, <2>2 DEF CloseNode, NoLeak
    <2>3. CASE g # root
      BY <1>2, <1>8, <2>1, <2>3 DEF CloseNode
    <2> QED
      BY <2>2, <2>3
  <1> QED
    BY <1>4, <1>5, <1>6, <1>7, <1>8

\* The root is freed when its loop over the nodes has emptied it: nothing is
\* allocated any more.
LEMMA CloseGraphKeeps ==
    ASSUME IndInv, LoopsOK, NoLeak, NEW g \in Graph, CloseGraph(g)
    PROVE  NoLeak'
  <1>1. UNCHANGED <<nodeHeap, edgeHeap>> /\ stage[g] = "nodes" /\ next[g] = NULL /\ doomed = NULL
    BY DEF CloseGraph, Running
  <1>2. CASE g # root
    BY <1>1, <1>2, Objects DEF CloseGraph, NoLeak, IndInv, TypeOK
  <1>3. CASE g = root
    <2>1. nodes[root] = {}
      BY <1>1, <1>3, Objects DEF LoopsOK, IndInv, TypeOK
    <2>2. edges[root] = {}
      BY <2>1, ListedClosed DEF IndInv, EndpointsPresent
    <2> QED
      BY <1>1, <2>1, <2>2 DEF NoLeak
  <1> QED
    BY <1>2, <1>3

\* Every node and edge that is allocated is in the root, from agnode and agedge
\* on any subgraph to agdelnode, agdeledge and agclose: none is lost.
THEOREM NothingLeaks == Spec => []NoLeak
  <1>1. Init => NoLeak
    BY DEF Init, NoLeak
  <1>2. IndInv /\ LoopsOK /\ NoLeak /\ [Next]_vars => NoLeak'
    <2> SUFFICES ASSUME IndInv, LoopsOK, NoLeak, [Next]_vars
                 PROVE  NoLeak'
      OBVIOUS
    <2>1. CASE UNCHANGED <<nodeState, edgeState>>
      BY <2>1 DEF NoLeak
    <2>2. ASSUME NEW g \in Graph, NEW n \in Node, agsubnode(g, n)
          PROVE  NoLeak'
      BY <2>2, WithNodesKeeps DEF agsubnode, NoLeak
    <2>3. ASSUME NEW g \in Graph, NEW name \in NodeName \cup {NULL}, agnode(g, name)
          PROVE  NoLeak'
      BY <2>3, WithNodesKeeps, NewNodeHeld DEF agnode, NoLeak
    <2>4. CASE Call
      <3>1. CASE \/ agopen
                 \/ \E g \in Graph : \/ \E name \in GraphName \cup {NULL} : agsubg(g, name)
                                     \/ \E s \in Graph : agdelsubg(g, s)
                                     \/ agclose(g)
        BY <2>1, <3>1 DEF agopen, agsubg, agdelsubg, agclose
      <3>2. ASSUME NEW g \in Graph, NEW id \in NodeName \cup Node, agidnode(g, id)
            PROVE  NoLeak'
        <4>1. PICK n \in Node : agsubnode(g, n)
          BY <3>2, Objects DEF agidnode, IndInv, TypeOK
        <4> QED
          BY <2>2, <4>1
      <3> QED
        BY <2>2, <2>3, <2>4, <3>1, <3>2, EdgeCallsKeep, DeletionsKeep DEF Call
    <2>5. CASE Step
      <3>1. CASE \E g \in Graph : CloseSubg(g) \/ SubgsClosed(g)
        BY <2>1, <3>1 DEF CloseSubg, SubgsClosed
      <3> QED
        BY <2>5, <3>1, DeletionsKeep, CloseGraphKeeps DEF Step
    <2> QED
      BY <2>1, <2>4, <2>5 DEF Next
  <1> QED
    BY <1>1, <1>2, Inductive, LoopsHold, PTL DEF Spec

----------------------------------------------------------------------------
(* Strict graphs                                                           *)

\* a and b join the same nodes, in either order when undirected.
Parallel(a, b) ==
    \/ tail[a] = tail[b] /\ head[a] = head[b]
    \/ ~Directed /\ tail[a] = head[b] /\ head[a] = tail[b]

LEMMA FewerEdges ==
    ASSUME AtMostOneEdge, edges'[root] \subseteq edges[root],
           \A f \in edges'[root] : tail'[f] = tail[f] /\ head'[f] = head[f]
    PROVE  AtMostOneEdge'
  BY DEF AtMostOneEdge

\* newedge is reached in a strict graph only if the root has no edge between
\* the end points: agedge probes the root with a wild card when it is given no
\* key.
LEMMA NewEdgeAlone ==
    ASSUME IndInv, AtMostOneEdge, NEW g \in Listed, NEW t, NEW h, NEW key,
           Strict => Found(root, t, h, NULL) = {}, newedge(g, t, h, key)
    PROVE  AtMostOneEdge'
  <1> SUFFICES ASSUME Strict, NEW a \in edges'[root], NEW b \in edges'[root], Parallel(a, b)'
               PROVE  a = b
    BY DEF AtMostOneEdge, Parallel
  <1>1. PICK e \in Edge \ edgeHeap :
           /\ tail' = [tail EXCEPT ![e] = t]
           /\ head' = [head EXCEPT ![e] = h]
           /\ installedge(g, e, t, h, IF key = NULL THEN e ELSE key)
    BY DEF newedge
  <1>2. edges[root] \subseteq edgeHeap /\ edges[root] \subseteq Edge /\ root \in Graph
    BY ListedClosed, Objects DEF IndInv, NoDangling, TypeOK
  <1>3. edges'[root] \subseteq edges[root] \cup {e}
    BY <1>1, <1>2 DEF installedge
  <1>4. /\ \A f \in edges[root] : tail'[f] = tail[f] /\ head'[f] = head[f]
        /\ tail'[e] = t /\ head'[e] = h
    BY <1>1, <1>2 DEF IndInv, TypeOK
  <1>5. Matches(root, t, h, NULL) = {} /\ (~Directed => Matches(root, h, t, NULL) = {})
    BY DEF Found
  <1>6. \A f \in edges[root] : /\ ~(tail[f] = t /\ head[f] = h)
                               /\ ~Directed => ~(tail[f] = h /\ head[f] = t)
    BY <1>5 DEF Matches
  <1>7. CASE a \in edges[root] /\ b \in edges[root]
    BY <1>4, <1>7 DEF AtMostOneEdge, Parallel
  <1>8. CASE a = e \/ b = e
    BY <1>3, <1>4, <1>6, <1>8 DEF Parallel
  <1> QED
    BY <1>3, <1>7, <1>8

LEMMA EdgeCallsAlone ==
    ASSUME EdgeName = {}, IndInv, AtMostOneEdge, NEW g \in Graph,
           \/ \E t, h \in Node, key \in EdgeName \cup {NULL} : agedge(g, t, h, key)
           \/ \E e \in Edge : agidedge(g, e) \/ agsubedge(g, e)
    PROVE  AtMostOneEdge'
  <1>1. g \in Listed /\ root \in Graph
    BY Objects DEF agedge, agidedge, agsubedge
  <1>2. ASSUME NEW e \in edges[root], NEW t, NEW h, NEW id, installedge(g, e, t, h, id),
               UNCHANGED <<tail, head>>
        PROVE  AtMostOneEdge'
    <2>1. edges'[root] \subseteq edges[root]
      BY <1>1, <1>2 DEF installedge
    <2> QED
      BY <1>2, <2>1, FewerEdges
  <1>3. ASSUME NEW e \in Edge, agidedge(g, e) \/ agsubedge(g, e)
        PROVE  AtMostOneEdge'
    BY <1>2, <1>3 DEF agidedge, agsubedge
  <1>4. ASSUME NEW t \in Node, NEW h \in Node, agedge(g, t, h, NULL)
        PROVE  AtMostOneEdge'
    <2>1. ASSUME NEW e \in Found(root, t, h, NULL),
                 installedge(g, e, tail[e], head[e], eid[e]), UNCHANGED <<tail, head>>
          PROVE  AtMostOneEdge'
      <3>1. e \in edges[root]
        BY DEF Found, Matches
      <3> QED
        BY <1>2, <2>1, <3>1
    <2>2. ASSUME Strict => Found(root, t, h, NULL) = {}, newedge(g, t, h, NULL)
          PROVE  AtMostOneEdge'
      BY <1>1, <2>2, NewEdgeAlone
    <2> QED
      BY <1>4, <2>1, <2>2 DEF agedge
  <1> QED
    BY <1>3, <1>4

\* agdeledge, agdelnode and agclose free an edge only after it left the root.
LEMMA DeletionsAlone ==
    ASSUME IndInv, AtMostOneEdge,
           \/ \E g \in Graph, n \in Node : agdelnode(g, n)
           \/ \E g \in Graph, e \in Edge : agdeledge(g, e)
           \/ DeleteEdge
           \/ FinishDelete
           \/ \E g \in Graph : CloseNode(g) \/ CloseGraph(g)
    PROVE  AtMostOneEdge'
  <1>1. root \in Listed /\ root \in Graph /\ edges[root] \subseteq Edge
    BY ListedClosed DEF IndInv, TypeOK
  <1>2. ASSUME UNCHANGED <<tail, head>>, edges'[root] \subseteq edges[root]
        PROVE  AtMostOneEdge'
    BY <1>2, FewerEdges
  <1>3. ASSUME NEW g, NEW n, EraseNode(g, n) \/ edges' = edges
        PROVE  edges'[root] \subseteq edges[root]
    BY <1>1, <1>3 DEF EraseNode
  <1>4. ASSUME NEW e, EraseEdge(root, e), FreeEdge(e)
        PROVE  AtMostOneEdge'
    <2>1. edges'[root] \subseteq edges[root] /\ e \notin edges'[root]
      BY <1>1, <1>4, EraseEdgeEffect
    <2>2. \A f \in edges'[root] : tail'[f] = tail[f] /\ head'[f] = head[f]
      BY <1>1, <1>4, <2>1 DEF FreeEdge, IndInv, TypeOK
    <2> QED
      BY <2>1, <2>2, FewerEdges
  <1>5. ASSUME NEW g \in Graph, NEW e \in Edge, agdeledge(g, e)
        PROVE  AtMostOneEdge'
    <2>1. CASE g = root
      BY <1>4, <1>5, <2>1 DEF agdeledge
    <2>2. CASE g # root
      <3>1. edges'[root] \subseteq edges[root]
        BY <1>1, <1>5 DEF agdeledge, EraseEdge
      <3> QED
        BY <1>2, <1>5, <2>2, <3>1 DEF agdeledge
    <2> QED
      BY <2>1, <2>2
  <1>6. CASE DeleteEdge
    BY <1>4, <1>6 DEF DeleteEdge
  <1>7. CASE FinishDelete
    BY <1>2, <1>3, <1>7 DEF FinishDelete
  <1>8. ASSUME NEW g \in Graph, NEW n \in Node, agdelnode(g, n)
        PROVE  AtMostOneEdge'
    BY <1>2, <1>3, <1>8 DEF agdelnode
  <1>9. ASSUME NEW g \in Graph, CloseNode(g)
        PROVE  AtMostOneEdge'
    BY <1>2, <1>3, <1>9 DEF CloseNode
  <1>10. ASSUME NEW g \in Graph, CloseGraph(g)
         PROVE  AtMostOneEdge'
    <2>1. edges'[root] \subseteq edges[root]
      BY <1>1, <1>10 DEF CloseGraph, IndInv, TypeOK
    <2> QED
      BY <1>2, <1>10, <2>1 DEF CloseGraph
  <1> QED
    BY <1>5, <1>6, <1>7, <1>8, <1>9, <1>10

\* While no call gives an edge a key, agedge, agidedge and agsubedge on any
\* subgraph leave a strict graph without parallel edges.  A key narrows the
\* probe of agedge to that key, so with keys the property is false.
THEOREM StrictIsStrict ==
    ASSUME EdgeName = {}
    PROVE  Spec => []AtMostOneEdge
  <1>1. Init => AtMostOneEdge
    BY Objects DEF Init, AtMostOneEdge
  <1>2. IndInv /\ AtMostOneEdge /\ [Next]_vars => AtMostOneEdge'
    <2> SUFFICES ASSUME IndInv, AtMostOneEdge, [Next]_vars
                 PROVE  AtMostOneEdge'
      OBVIOUS
    <2>1. CASE UNCHANGED <<edges, tail, head>>
      BY <2>1, FewerEdges
    <2>2. CASE Call
      <3>1. CASE \/ agopen
                 \/ \E g \in Graph : \/ \E name \in GraphName \cup {NULL} : agsubg(g, name)
                                     \/ \E s \in Graph : agdelsubg(g, s)
                                     \/ \E name \in NodeName \cup {NULL} : agnode(g, name)
                                     \/ \E id \in NodeName \cup Node : agidnode(g, id)
                                     \/ \E n \in Node : agsubnode(g, n)
                                     \/ agclose(g)
        BY <2>1, <3>1 DEF agopen, agsubg, agdelsubg, agnode, agidnode, agsubnode, agclose
      <3> QED
        BY <2>2, <3>1, EdgeCallsAlone, DeletionsAlone DEF Call
    <2>3. CASE Step
      <3>1. CASE \E g \in Graph : CloseSubg(g) \/ SubgsClosed(g)
        BY <2>1, <3>1 DEF CloseSubg, SubgsClosed
      <3> QED
        BY <2>3, <3>1, DeletionsAlone DEF Step
    <2> QED
      BY <2>1, <2>2, <2>3 DEF Next
  <1> QED
    BY <1>1, <1>2, Inductive, PTL DEF Spec
=============================================================================
