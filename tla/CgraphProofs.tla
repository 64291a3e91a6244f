---------------------------- MODULE CgraphProofs ----------------------------
(***************************************************************************)
(* Proofs that IndInv is an inductive invariant of Cgraph, and with it     *)
(* Nested, EndpointsPresent, NoDangling, KeysUnique, ListedAgree and, when *)
(* callers name local end points, NoNullDereference, for every set of      *)
(* graphs, nodes, edges and names and every kind of graph.                 *)
(***************************************************************************)
EXTENDS Cgraph, TLAPS

----------------------------------------------------------------------------
(* The walks of TreeWalk are least closed sets                             *)

\* Down contains its start, and the children in S of its members.
LEMMA DownClosed ==
    ASSUME NEW G, NEW children \in [G -> SUBSET G], NEW g \in G, NEW S
    PROVE  /\ g \in Down(children, g, S)
           /\ Down(children, g, S) \subseteq G
           /\ \A p \in Down(children, g, S) : children[p] \cap S \subseteq Down(children, g, S)
  BY DEF Down

\* Down is inside every set that has these two properties.
LEMMA DownLeast ==
    ASSUME NEW G, NEW children \in [G -> SUBSET G], NEW g \in G, NEW S,
           NEW W \in SUBSET G, g \in W, \A p \in W : children[p] \cap S \subseteq W
    PROVE  Down(children, g, S) \subseteq W
  BY DEF Down

\* Up contains its start unless that is in S, and the parents not in S of its
\* members, none of which is in S.
LEMMA UpClosed ==
    ASSUME NEW G, NEW above, DOMAIN above = G, NEW g \in G, NEW S
    PROVE  /\ g \notin S => g \in Up(above, g, S)
           /\ Up(above, g, S) \subseteq G
           /\ \A p \in Up(above, g, S) : above[p] \in G \ S => above[p] \in Up(above, g, S)
  BY DEF Up

LEMMA UpLeast ==
    ASSUME NEW G, NEW above, DOMAIN above = G, NEW g \in G, NEW S,
           NEW W \in SUBSET G, g \in W, \A p \in W : above[p] \in G => above[p] \in W
    PROVE  Up(above, g, S) \subseteq W
  BY DEF Up

----------------------------------------------------------------------------
(* The listed graphs                                                       *)

\* The root is listed and so is every subgraph of a listed graph.
LEMMA ListedClosed ==
    ASSUME TypeOK
    PROVE  /\ root \in Listed
           /\ Listed \subseteq Graph
           /\ \A p \in Listed : kids[p] \subseteq Listed
  <1>1. kids \in [Graph -> SUBSET Graph] /\ root \in Graph
    BY Objects DEF TypeOK
  <1> QED
    BY <1>1, DownClosed DEF Listed

\* A set with the root and every subgraph of its members has all listed
\* graphs.
LEMMA ListedLeast ==
    ASSUME TypeOK,
           NEW W \in SUBSET Graph, root \in W, \A p \in W : kids[p] \subseteq W
    PROVE  Listed \subseteq W
  <1>1. kids \in [Graph -> SUBSET Graph] /\ root \in Graph
    BY Objects DEF TypeOK
  <1>2. \A p \in W : kids[p] \cap Graph \subseteq W
    OBVIOUS
  <1> QED
    BY <1>1, <1>2, DownLeast DEF Listed

\* The parent of a listed graph is listed.
LEMMA ListedParent ==
    ASSUME TypeOK, TreeOK, NEW g \in Listed, parent[g] \in Graph
    PROVE  parent[g] \in Listed
  <1> SUFFICES ASSUME parent[g] \notin Listed
               PROVE  FALSE
    OBVIOUS
  <1> DEFINE W == Listed \ {g}
  <1>1. g # root
    BY Objects DEF TreeOK
  <1>2. root \in W /\ W \in SUBSET Graph
    BY <1>1, ListedClosed
  <1>3. ASSUME NEW p \in W
        PROVE  kids[p] \subseteq W
    <2>1. kids[p] \subseteq Listed
      BY ListedClosed
    <2>2. g \notin kids[p]
      BY ListedClosed DEF TreeOK, ListedAgree
    <2> QED
      BY <2>1, <2>2
  <1>4. Listed \subseteq W
    BY <1>2, <1>3, ListedLeast
  <1> QED
    BY <1>4

\* A listed graph holds only what the root holds.
LEMMA ListedHeld ==
    ASSUME TypeOK, Nested, NEW g \in Listed
    PROVE  nodes[g] \subseteq nodes[root] /\ edges[g] \subseteq edges[root]
  <1> DEFINE W == {x \in Graph : nodes[x] \subseteq nodes[root] /\ edges[x] \subseteq edges[root]}
  <1>1. root \in W /\ W \in SUBSET Graph
    BY Objects
  <1>2. ASSUME NEW p \in W
        PROVE  kids[p] \subseteq W
    BY DEF Nested, TypeOK
  <1>3. Listed \subseteq W
    BY <1>1, <1>2, ListedLeast
  <1> QED
    BY <1>3

\* Climbing from a listed graph visits listed graphs.
LEMMA UpListed ==
    ASSUME TypeOK, TreeOK, NEW g \in Listed, NEW S
    PROVE  Up(parent, g, S) \subseteq Listed
  <1>1. DOMAIN parent = Graph /\ g \in Graph /\ Listed \in SUBSET Graph
    BY ListedClosed DEF TypeOK
  <1>2. \A p \in Listed : parent[p] \in Graph => parent[p] \in Listed
    BY ListedParent
  <1> QED
    BY <1>1, <1>2, UpLeast

\* With the lists unchanged, so are the listed graphs; with fewer entries,
\* no graph becomes listed.
LEMMA ListedSame ==
    ASSUME UNCHANGED kids
    PROVE  Listed' = Listed
  BY DEF Listed

LEMMA ListedShrinks ==
    ASSUME TypeOK, kids' \in [Graph -> SUBSET Graph],
           \A x \in Graph : kids'[x] \subseteq kids[x]
    PROVE  Listed' \subseteq Listed
  <1>1. root \in Graph
    BY Objects
  <1>2. /\ Listed \in SUBSET Graph /\ root \in Listed
        /\ \A p \in Listed : kids'[p] \cap Graph \subseteq Listed
    BY ListedClosed
  <1>3. Down(kids', root, Graph) \subseteq Listed
    BY <1>1, <1>2, DownLeast
  <1> QED
    BY <1>3 DEF Listed

----------------------------------------------------------------------------
(* Type correctness                                                        *)

USE DEF vars, hierarchy, nodeState, edgeState, closing, deleting

LEMMA OneOfType ==
    ASSUME NEW S, NEW T, S \subseteq T
    PROVE  OneOf(S) \subseteq T \cup {NULL}
  BY DEF OneOf

LEMMA EdgesLeftType ==
    ASSUME TypeOK, NEW n, NEW e
    PROVE  OneOf(EdgesLeft(n, e)) \subseteq Edge \cup {NULL}
  <1>1. EdgesLeft(n, e) \subseteq Edge
    BY Objects DEF EdgesLeft, TypeOK
  <1> QED
    BY <1>1, OneOfType

LEMMA InstallType ==
    ASSUME TypeOK, NEW g, NEW e \in Edge, NEW t, NEW h, NEW id,
           installedge(g, e, t, h, id)
    PROVE  edges' \in [Graph -> SUBSET Edge] /\ fault' \in BOOLEAN
  <1> DEFINE lacking == Up(parent, g, {x \in Graph : Matches(x, t, h, id) # {}})
             added == [x \in Graph |-> IF x \in lacking THEN edges[x] \cup {e} ELSE edges[x]]
  <1>1. \/ edges' = added /\ fault' = fault
        \/ edges' = edges /\ fault' = TRUE
    BY DEF installedge
  <1>2. added \in [Graph -> SUBSET Edge] /\ edges \in [Graph -> SUBSET Edge]
    BY DEF TypeOK
  <1>3. fault \in BOOLEAN
    BY DEF TypeOK
  <1> HIDE DEF added
  <1> QED
    BY <1>1, <1>2, <1>3

LEMMA WithNodesType ==
    ASSUME TypeOK, NEW g, NEW N \in SUBSET Node
    PROVE  WithNodes(g, N) \in [Graph -> SUBSET Node]
  BY DEF WithNodes, TypeOK

LEMMA EraseEdgeType ==
    ASSUME TypeOK, NEW g, NEW e, EraseEdge(g, e)
    PROVE  edges' \in [Graph -> SUBSET Edge]
  BY DEF EraseEdge, TypeOK

LEMMA EraseNodeType ==
    ASSUME TypeOK, NEW g, NEW n, EraseNode(g, n)
    PROVE  edges' \in [Graph -> SUBSET Edge] /\ nodes' \in [Graph -> SUBSET Node]
  BY DEF EraseNode, TypeOK

LEMMA NewNodeType ==
    ASSUME TypeOK, NEW g, NEW name \in NodeName \cup {NULL}, NewNode(g, name)
    PROVE  /\ nodeHeap' \subseteq Node
           /\ nodes' \in [Graph -> SUBSET Node]
           /\ nid' \in [Node -> Node \cup NodeName \cup {NULL}]
           /\ \A n \in Node : IF n \in nodeHeap' THEN nid'[n] \in {n} \cup NodeName
                                                ELSE nid'[n] = NULL
  BY DEF NewNode, TypeOK

LEMMA TypeInit == Init => TypeOK
  BY Objects DEF Init, TypeOK

LEMMA TypeCall == TypeOK /\ NoDangling /\ Call => TypeOK'
  <1> SUFFICES ASSUME TypeOK, NoDangling, Call
               PROVE  TypeOK'
    OBVIOUS
  <1>1. CASE agopen
    BY <1>1, Objects DEF agopen, TypeOK
  <1>2. ASSUME NEW g \in Graph, NEW name \in GraphName \cup {NULL}, agsubg(g, name)
        PROVE  TypeOK'
    BY <1>2, Objects DEF agsubg, TypeOK
  <1>3. ASSUME NEW g \in Graph, NEW s \in Graph, agdelsubg(g, s)
        PROVE  TypeOK'
    BY <1>3 DEF agdelsubg, TypeOK
  <1>4. ASSUME NEW g \in Graph, NEW name \in NodeName \cup {NULL}, agnode(g, name)
        PROVE  TypeOK'
    <2>1. CASE \E n \in nodes[root] : nodes' = WithNodes(g, {n}) /\ UNCHANGED <<nodeHeap, nid>>
      BY <1>4, <2>1, WithNodesType, Objects DEF agnode, TypeOK
    <2>2. CASE NewNode(g, name)
      BY <1>4, <2>2, NewNodeType DEF agnode, TypeOK
    <2> QED
      BY <1>4, <2>1, <2>2 DEF agnode
  <1>5. ASSUME NEW g \in Graph, NEW n \in Node, agsubnode(g, n)
        PROVE  TypeOK'
    BY <1>5 DEF agsubnode, WithNodes, TypeOK
  <1>6. ASSUME NEW g \in Graph, NEW id \in NodeName \cup Node, agidnode(g, id)
        PROVE  TypeOK'
    <2>1. PICK n \in Node : agsubnode(g, n)
      BY <1>6, Objects DEF agidnode, TypeOK
    <2> QED
      BY <1>5, <2>1
  <1>7. ASSUME NEW g \in Graph, NEW n \in Node, agdelnode(g, n)
        PROVE  TypeOK'
    <2>1. CASE g = root
      BY <1>7, <2>1, EdgesLeftType DEF agdelnode, StartDelete, TypeOK
    <2>2. CASE g # root
      BY <1>7, <2>2, EraseNodeType DEF agdelnode, TypeOK
    <2> QED
      BY <2>1, <2>2
  <1>8. ASSUME NEW g \in Graph, NEW t \in Node, NEW h \in Node,
               NEW key \in EdgeName \cup {NULL}, agedge(g, t, h, key)
        PROVE  TypeOK'
    <2>1. CASE \E e \in Found(root, t, h, key) :
                 /\ nodes' = nodes
                 /\ installedge(g, e, tail[e], head[e], eid[e])
                 /\ UNCHANGED <<edgeHeap, eid, tail, head>>
      <3>1. Found(root, t, h, key) \subseteq Edge
        BY Objects DEF Found, Matches, TypeOK
      <3> QED
        BY <1>8, <2>1, <3>1, InstallType DEF agedge, TypeOK
    <2>2. CASE newedge(g, t, h, key)
      <3>1. PICK e \in Edge :
               LET id == IF key = NULL THEN e ELSE key
               IN  /\ nodes' = WithNodes(g, {t, h})
                   /\ edgeHeap' = edgeHeap \cup {e}
                   /\ eid' = [eid EXCEPT ![e] = id]
                   /\ tail' = [tail EXCEPT ![e] = t]
                   /\ head' = [head EXCEPT ![e] = h]
                   /\ installedge(g, e, t, h, id)
        BY <2>2 DEF newedge
      <3>2. edges' \in [Graph -> SUBSET Edge] /\ fault' \in BOOLEAN
        BY <3>1, InstallType
      <3>3. nodes' \in [Graph -> SUBSET Node]
        BY <3>1, WithNodesType
      <3>4. (IF key = NULL THEN e ELSE key) \in {e} \cup EdgeName
        OBVIOUS
      <3>5. /\ edgeHeap' \subseteq Edge
            /\ eid' \in [Edge -> Edge \cup EdgeName \cup {NULL}]
            /\ tail' \in [Edge -> Node \cup {NULL}]
            /\ head' \in [Edge -> Node \cup {NULL}]
            /\ \A f \in Edge : eid'[f] \in {f, NULL} \cup EdgeName
            /\ \A f \in Edge : f \in edgeHeap' <=> NULL \notin {eid'[f], tail'[f], head'[f]}
        BY <3>1, <3>4, Objects DEF TypeOK
      <3> QED
        BY <1>8, <3>2, <3>3, <3>5 DEF agedge, TypeOK
    <2> QED
      BY <1>8, <2>1, <2>2 DEF agedge
  <1>9. ASSUME NEW g \in Graph, NEW e \in Edge, agidedge(g, e)
        PROVE  TypeOK'
    BY <1>9, InstallType DEF agidedge, TypeOK
  <1>10. ASSUME NEW g \in Graph, NEW e \in Edge, agsubedge(g, e)
        PROVE  TypeOK'
    <2>1. e \in edgeHeap
      BY <1>10, ListedClosed DEF agsubedge, NoDangling
    <2>2. WithNodes(g, {tail[e], head[e]}) \in [Graph -> SUBSET Node]
      <3>1. {tail[e], head[e]} \in SUBSET Node
        BY <2>1 DEF TypeOK
      <3> QED
        BY <3>1, WithNodesType
    <2> QED
      BY <1>10, <2>2, InstallType DEF agsubedge, TypeOK
  <1>11. ASSUME NEW g \in Graph, NEW e \in Edge, agdeledge(g, e)
        PROVE  TypeOK'
    <2>1. CASE g = root
      BY <1>11, <2>1, EraseEdgeType, Objects DEF agdeledge, FreeEdge, TypeOK
    <2>2. CASE g # root
      BY <1>11, <2>2, EraseEdgeType DEF agdeledge, TypeOK
    <2> QED
      BY <2>1, <2>2
  <1>12. ASSUME NEW g \in Graph, agclose(g)
        PROVE  TypeOK'
    BY <1>12 DEF agclose, OneOf, TypeOK
  <1> QED
    BY <1>1, <1>2, <1>3, <1>4, <1>5, <1>6, <1>7, <1>8, <1>9, <1>10, <1>11, <1>12 DEF Call

LEMMA TypeStep == TypeOK /\ Step => TypeOK'
  <1> SUFFICES ASSUME TypeOK, Step
               PROVE  TypeOK'
    OBVIOUS
  <1>1. CASE DeleteEdge
    BY <1>1, EdgesLeftType, Objects DEF DeleteEdge, EraseEdge, FreeEdge, TypeOK
  <1>2. CASE FinishDelete
    BY <1>2, Objects DEF FinishDelete, EraseNode, TypeOK
  <1>3. ASSUME NEW g \in Graph, CloseSubg(g)
        PROVE  TypeOK'
    <2> DEFINE s == next[g]
    <2>1. s \in Graph /\ s # NULL /\ kids[g] \subseteq Graph /\ kids[s] \subseteq Graph
      <3>1. next[g] \in Graph /\ next[g] # NULL
        <4>1. stage[g] = "subgs" /\ next[g] # NULL
          BY <1>3 DEF CloseSubg
        <4> QED
          BY <4>1 DEF TypeOK
      <3>2. \A x \in Graph : kids[x] \subseteq Graph
        BY DEF TypeOK
      <3> QED
        BY <3>1, <3>2
    <2>2. PICK a \in OneOf(kids[g] \ {s}), b \in OneOf(kids[s]) :
             next' = [next EXCEPT ![g] = a, ![s] = b]
      BY <1>3 DEF CloseSubg
    <2>3. a \in Graph \cup {NULL} /\ b \in Graph \cup {NULL}
      BY <2>1, OneOfType
    <2>4. next' \in [Graph -> Graph \cup Node \cup {NULL}]
      BY <2>2, <2>3 DEF TypeOK
    <2>5. stage' = [stage EXCEPT ![s] = "subgs"] /\ stage[g] = "subgs"
      BY <1>3 DEF CloseSubg
    <2>6. stage' \in [Graph -> {"open", "subgs", "nodes"}]
      BY <2>5 DEF TypeOK
    <2>7. \A x \in Graph :
         /\ stage'[x] = "subgs" => next'[x] \in Graph \cup {NULL}
         /\ stage'[x] = "nodes" => next'[x] \in Node \cup {NULL}
      BY <2>1, <2>2, <2>3, <2>5 DEF TypeOK
    <2> QED
      BY <1>3, <2>4, <2>6, <2>7 DEF CloseSubg, TypeOK
  <1>4. ASSUME NEW g \in Graph, SubgsClosed(g)
        PROVE  TypeOK'
    BY <1>4 DEF SubgsClosed, OneOf, TypeOK
  <1>5. ASSUME NEW g \in Graph, CloseNode(g)
        PROVE  TypeOK'
    <2>1. next[g] \in Node /\ nodes[g] \subseteq Node
      BY <1>5 DEF CloseNode, TypeOK
    <2>2. PICK n \in OneOf(nodes[g] \ {next[g]}) : next' = [next EXCEPT ![g] = n]
      BY <1>5 DEF CloseNode
    <2>3. n \in Node \cup {NULL}
      BY <2>1, OneOfType
    <2>4. /\ next' \in [Graph -> Graph \cup Node \cup {NULL}]
          /\ \A x \in Graph :
               /\ stage'[x] = "subgs" => next'[x] \in Graph \cup {NULL}
               /\ stage'[x] = "nodes" => next'[x] \in Node \cup {NULL}
      BY <1>5, <2>2, <2>3 DEF CloseNode, TypeOK
    <2>5. /\ nodes' \in [Graph -> SUBSET Node] /\ edges' \in [Graph -> SUBSET Edge]
          /\ doomed' \in Node \cup {NULL} /\ nextEdge' \in Edge \cup {NULL}
      <3>1. CASE g = root
        BY <1>5, <2>1, <3>1, EdgesLeftType DEF CloseNode, StartDelete, TypeOK
      <3>2. CASE g # root
        BY <1>5, <3>2, EraseNodeType DEF CloseNode, TypeOK
      <3> QED
        BY <3>1, <3>2
    <2> QED
      BY <1>5, <2>4, <2>5 DEF CloseNode, TypeOK
  <1>6. ASSUME NEW g \in Graph, CloseGraph(g)
        PROVE  TypeOK'
    BY <1>6, Objects DEF CloseGraph, TypeOK
  <1> QED
    BY <1>1, <1>2, <1>3, <1>4, <1>5, <1>6 DEF Step

----------------------------------------------------------------------------
(* What each kind of step does to the invariant                            *)

\* While the root is allocated, every listed graph is.
LEMMA ListedAllocated ==
    ASSUME TypeOK, TreeOK, root \in graphs
    PROVE  Listed \subseteq graphs
  <1>1. graphs \in SUBSET Graph
    BY DEF TypeOK
  <1>2. \A p \in graphs : kids[p] \subseteq graphs
    BY <1>1 DEF TreeOK, ListedAgree
  <1> QED
    BY <1>1, <1>2, ListedLeast

\* A climb that visits a subgraph visits its parent too, unless it stops there.
LEMMA ClimbParent ==
    ASSUME TypeOK, TreeOK, NEW g \in Graph, NEW S,
           NEW p \in Graph, NEW c \in kids[p], c \in Up(parent, g, S)
    PROVE  p \in S \/ p \in Up(parent, g, S)
  <1>1. parent[c] = p
    BY DEF TreeOK, ListedAgree
  <1>2. DOMAIN parent = Graph
    BY DEF TypeOK
  <1> QED
    BY <1>1, <1>2, UpClosed

\* Between calls no agclose is in progress.
LEMMA IdleClosing ==
    ASSUME Idle, UNCHANGED closing
    PROVE  ClosingOK'
  <1>1. \A g \in Graph : stage'[g] = "open"
    BY DEF Idle
  <1> QED
    BY <1>1 DEF ClosingOK, Outermost

\* A step of a loop that touches no object.
LEMMA LoopOnly ==
    ASSUME IndInv, UNCHANGED <<hierarchy, nodeState, edgeState>>
    PROVE  TreeOK' /\ Nested' /\ EndpointsPresent' /\ NoDangling' /\ KeysUnique' /\ Listed' = Listed
  <1>1. Listed' = Listed
    BY ListedSame
  <1>2. TreeOK' /\ Nested'
    BY DEF IndInv, TreeOK, ListedAgree, Nested
  <1>3. EndpointsPresent' /\ NoDangling'
    BY <1>1 DEF IndInv, EndpointsPresent, NoDangling
  <1>4. KeysUnique'
    BY DEF IndInv, KeysUnique
  <1> QED
    BY <1>1, <1>2, <1>3, <1>4

----------------------------------------------------------------------------
(* Nodes enter                                                             *)

\* More nodes in listed graphs, at most those of N, with parents kept ahead of
\* their subgraphs.
Enter(N) ==
    /\ \A x \in Graph : nodes[x] \subseteq nodes'[x] /\ nodes'[x] \subseteq nodes[x] \cup N
    /\ \A x \in Graph \ Listed : nodes'[x] = nodes[x]
    /\ \A p \in Graph : \A c \in kids[p] : nodes'[c] \subseteq nodes'[p]

LEMMA WithNodesEnter ==
    ASSUME IndInv, NEW g \in Listed, NEW N, nodes' = WithNodes(g, N)
    PROVE  Enter(N)
  <1> DEFINE U(n) == Up(parent, g, {y \in Graph : n \in nodes[y]})
  <1>1. g \in Graph
    BY ListedClosed DEF IndInv
  <1>2. \A x \in Graph : nodes'[x] = nodes[x] \cup {n \in N : x \in U(n)}
    BY DEF WithNodes
  <1>3. \A n : U(n) \subseteq Listed
    BY UpListed DEF IndInv
  <1>4. ASSUME NEW p \in Graph, NEW c \in kids[p], NEW n \in nodes'[c]
        PROVE  n \in nodes'[p]
    <2>1. c \in Graph
      BY DEF IndInv, TypeOK
    <2>2. CASE n \in nodes[c]
      BY <2>2, <1>2 DEF IndInv, Nested
    <2>3. CASE n \in N /\ c \in U(n)
      <3>1. p \in {y \in Graph : n \in nodes[y]} \/ p \in U(n)
        BY <1>1, <2>3, ClimbParent DEF IndInv
      <3> QED
        BY <3>1, <2>3, <1>2
    <2> QED
      BY <1>2, <2>1, <2>2, <2>3
  <1> HIDE DEF U
  <1> QED
    BY <1>2, <1>3, <1>4 DEF Enter

LEMMA NewNodeEnter ==
    ASSUME IndInv, NEW g \in Listed, NEW n,
           nodes' = [x \in Graph |-> IF x \in Up(parent, g, {}) THEN nodes[x] \cup {n}
                                                               ELSE nodes[x]]
    PROVE  Enter({n})
  <1>1. g \in Graph
    BY ListedClosed DEF IndInv
  <1>2. Up(parent, g, {}) \subseteq Listed
    BY UpListed DEF IndInv
  <1>3. ASSUME NEW p \in Graph, NEW c \in kids[p]
        PROVE  nodes'[c] \subseteq nodes'[p]
    <2>1. c \in Graph /\ nodes[c] \subseteq nodes[p]
      BY DEF IndInv, TypeOK, Nested
    <2>2. c \in Up(parent, g, {}) => p \in Up(parent, g, {})
      BY <1>1, ClimbParent DEF IndInv
    <2> QED
      BY <2>1, <2>2
  <1> QED
    BY <1>2, <1>3 DEF Enter

\* The invariant after nodes entered and nothing else changed but their IDs.
LEMMA NodesEntered ==
    ASSUME IndInv, root \in graphs, UNCHANGED <<hierarchy, edgeState>>,
           NEW N, Enter(N), N \cup nodeHeap \subseteq nodeHeap',
           \A m, n \in nodes[root] \cup N : nid'[m] = nid'[n] => m = n
    PROVE  TreeOK' /\ Nested' /\ EndpointsPresent' /\ NoDangling' /\ KeysUnique'
  <1>1. Listed' = Listed /\ Listed \subseteq graphs /\ Listed \subseteq Graph /\ root \in Graph
    BY ListedSame, ListedAllocated, ListedClosed, Objects DEF IndInv
  <1>2. TreeOK'
    <2>1. ASSUME NEW x \in Graph \ graphs
          PROVE  kids[x] = {} /\ nodes'[x] = {} /\ edges[x] = {}
      BY <1>1 DEF Enter, IndInv, TreeOK
    <2> QED
      BY <2>1 DEF IndInv, TreeOK, ListedAgree
  <1>3. Nested'
    BY DEF Enter, IndInv, Nested
  <1>4. EndpointsPresent'
    <2>1. \A x \in Listed : \A e \in edges[x] : {tail[e], head[e]} \subseteq nodes[x]
      BY DEF IndInv, EndpointsPresent
    <2>2. \A x \in Listed : nodes[x] \subseteq nodes'[x]
      BY <1>1 DEF Enter
    <2> QED
      BY <1>1, <2>1, <2>2 DEF EndpointsPresent
  <1>5. NoDangling'
    <2>1. \A x \in Listed : nodes'[x] \subseteq nodes[x] \cup N
      BY <1>1 DEF Enter
    <2>2. \A x \in Listed : nodes[x] \subseteq nodeHeap /\ edges[x] \subseteq edgeHeap
      BY DEF IndInv, NoDangling
    <2> QED
      BY <1>1, <2>1, <2>2 DEF NoDangling
  <1>6. KeysUnique'
    <2>1. nodes'[root] \subseteq nodes[root] \cup N
      BY <1>1 DEF Enter
    <2> QED
      BY <2>1 DEF IndInv, KeysUnique
  <1> QED
    BY <1>2, <1>3, <1>4, <1>5, <1>6

LEMMA NodeCalls ==
    ASSUME IndInv, NEW g \in Graph,
           \/ \E n \in Node : agsubnode(g, n)
           \/ \E name \in NodeName \cup {NULL} : agnode(g, name)
    PROVE  TreeOK' /\ Nested' /\ EndpointsPresent' /\ NoDangling' /\ KeysUnique' /\ ClosingOK'
  <1>1. g \in Listed /\ Idle /\ root \in graphs /\ root \in Listed /\ UNCHANGED closing
    BY ListedClosed DEF agsubnode, agnode, Idle, IndInv
  <1>2. ClosingOK'
    BY <1>1, IdleClosing
  <1>3. nodes[root] \subseteq nodeHeap /\ nodeHeap \subseteq Node
    BY <1>1 DEF IndInv, NoDangling, TypeOK
  <1>4. ASSUME NEW n \in nodes[root], nodes' = WithNodes(g, {n}),
               UNCHANGED <<hierarchy, nodeHeap, nid, edgeState>>
        PROVE  TreeOK' /\ Nested' /\ EndpointsPresent' /\ NoDangling' /\ KeysUnique'
    <2>1. Enter({n})
      BY <1>1, <1>4, WithNodesEnter
    <2>2. \A a, b \in nodes[root] \cup {n} : nid'[a] = nid'[b] => a = b
      BY <1>4 DEF IndInv, KeysUnique
    <2>3. {n} \cup nodeHeap \subseteq nodeHeap'
      BY <1>3, <1>4
    <2> QED
      BY <1>1, <1>4, <2>1, <2>2, <2>3, NodesEntered
  <1>5. ASSUME NEW name \in NodeName \cup {NULL}, NewNode(g, name),
               \A n \in nodes[root] : nid[n] # name,
               UNCHANGED <<hierarchy, edgeState>>
        PROVE  TreeOK' /\ Nested' /\ EndpointsPresent' /\ NoDangling' /\ KeysUnique'
    <2>1. PICK n \in Node \ nodeHeap :
             /\ nodeHeap' = nodeHeap \cup {n}
             /\ nid' = [nid EXCEPT ![n] = IF name = NULL THEN n ELSE name]
             /\ nodes' = [x \in Graph |-> IF x \in Up(parent, g, {}) THEN nodes[x] \cup {n}
                                                                    ELSE nodes[x]]
      BY <1>5 DEF NewNode
    <2>2. Enter({n})
      BY <1>1, <2>1, NewNodeEnter
    <2>3. \A a \in nodes[root] : nid'[a] = nid[a] /\ nid[a] \in {a} \cup NodeName /\ a # n
      BY <1>3, <2>1 DEF IndInv, TypeOK
    <2>4. nid'[n] = IF name = NULL THEN n ELSE name
      BY <2>1 DEF IndInv, TypeOK
    <2>5. ASSUME NEW a \in nodes[root]
          PROVE  nid'[a] # nid'[n]
      <3>1. CASE name = NULL
        BY <1>3, <2>3, <2>4, <3>1, Objects
      <3>2. CASE name # NULL
        BY <1>5, <2>3, <2>4, <3>2
      <3> QED
        BY <3>1, <3>2
    <2>6. \A a, b \in nodes[root] \cup {n} : nid'[a] = nid'[b] => a = b
      BY <2>3, <2>5 DEF IndInv, KeysUnique
    <2>7. {n} \cup nodeHeap \subseteq nodeHeap'
      BY <2>1
    <2> QED
      BY <1>1, <1>5, <2>2, <2>6, <2>7, NodesEntered
  <1>6. CASE \E n \in Node : agsubnode(g, n)
    BY <1>2, <1>4, <1>6 DEF agsubnode
  <1>7. CASE \E name \in NodeName \cup {NULL} : agnode(g, name)
    BY <1>2, <1>4, <1>5, <1>7 DEF agnode
  <1> QED
    BY <1>6, <1>7

----------------------------------------------------------------------------
(* Edges enter                                                             *)

\* A key that the root uses for e is used for no other edge in a listed graph.
LEMMA KeyedOnce ==
    ASSUME IndInv, NEW e \in edges[root], NEW p \in Listed
    PROVE  Matches(p, tail[e], head[e], eid[e]) \subseteq {e}
  <1>1. edges[root] \subseteq edgeHeap /\ edges[p] \subseteq edges[root] /\ edges[root] \subseteq Edge
    BY ListedHeld, ListedClosed, Objects DEF IndInv, NoDangling, TypeOK
  <1>2. eid[e] # NULL
    BY <1>1 DEF IndInv, TypeOK
  <1> QED
    BY <1>1, <1>2 DEF Matches, IndInv, KeysUnique

\* installedge adds e to listed graphs only, to a parent whenever to its
\* subgraph, and to a graph that holds the end points.
LEMMA InstallEffect ==
    ASSUME IndInv, NEW g \in Listed, NEW e, NEW t, NEW h, NEW id,
           installedge(g, e, t, h, id),
           \A p \in Listed : Matches(p, t, h, id) \subseteq {e}
    PROVE  /\ \A x \in Graph : edges[x] \subseteq edges'[x] /\ edges'[x] \subseteq edges[x] \cup {e}
           /\ \A x \in Graph \ Listed : edges'[x] = edges[x]
           /\ \A p \in Graph : \A c \in kids[p] : edges'[c] \subseteq edges'[p]
           /\ \A x \in Graph : e \in edges'[x] \ edges[x] => {t, h} \subseteq nodes'[x]
  <1> DEFINE S == {x \in Graph : Matches(x, t, h, id) # {}}
             lacking == Up(parent, g, S)
  <1>1. g \in Graph /\ lacking \subseteq Listed /\ Listed \subseteq Graph
    BY ListedClosed, UpListed DEF IndInv
  <1>2. CASE edges' = edges
    BY <1>2 DEF IndInv, Nested
  <1>3. CASE /\ \A x \in lacking : {t, h} \subseteq nodes'[x]
             /\ edges' = [x \in Graph |-> IF x \in lacking THEN edges[x] \cup {e} ELSE edges[x]]
    <2>1. ASSUME NEW p \in Graph, NEW c \in kids[p]
          PROVE  edges'[c] \subseteq edges'[p]
      <3>1. c \in Graph /\ edges[c] \subseteq edges[p]
        BY DEF IndInv, TypeOK, Nested
      <3>2. CASE c \in lacking
        <4>1. p \in S \/ p \in lacking
          BY <1>1, <3>2, ClimbParent DEF IndInv
        <4>2. p \in Listed
          <5>1. parent[c] = p
            BY DEF IndInv, TreeOK, ListedAgree
          <5> QED
            BY <1>1, <3>2, <5>1, ListedParent DEF IndInv
        <4>3. p \in S => e \in edges[p]
          BY <4>2 DEF Matches
        <4> QED
          BY <1>3, <3>1, <4>1, <4>3
      <3>3. CASE c \notin lacking
        BY <1>3, <3>1, <3>3
      <3> QED
        BY <3>2, <3>3
    <2> HIDE DEF lacking
    <2> QED
      BY <1>1, <1>3, <2>1
  <1> QED
    BY <1>2, <1>3 DEF installedge

\* The invariant after one edge entered, its end points before it.
LEMMA EdgeEntered ==
    ASSUME IndInv, root \in graphs, NEW g \in Listed, UNCHANGED <<hierarchy, nodeHeap, nid>>,
           NEW N, N \subseteq nodes[root], Enter(N),
           NEW e \in Edge, NEW t, NEW h, NEW id, installedge(g, e, t, h, id),
           \A p \in Listed : Matches(p, t, h, id) \subseteq {e},
           tail'[e] = t, head'[e] = h, e \in edgeHeap', edgeHeap \subseteq edgeHeap',
           \A f \in edges[root] : eid'[f] = eid[f] /\ tail'[f] = tail[f] /\ head'[f] = head[f],
           \A a, b \in edges[root] \cup {e} :
              /\ eid'[a] = eid'[b]
              /\ \/ tail'[a] = tail'[b] /\ head'[a] = head'[b]
                 \/ ~Directed /\ tail'[a] = head'[b] /\ head'[a] = tail'[b]
              => a = b
    PROVE  TreeOK' /\ Nested' /\ EndpointsPresent' /\ NoDangling' /\ KeysUnique'
  <1>1. Listed' = Listed /\ Listed \subseteq graphs /\ Listed \subseteq Graph /\ root \in Listed
    BY ListedSame, ListedAllocated, ListedClosed DEF IndInv
  <1>2. /\ \A x \in Graph : edges[x] \subseteq edges'[x] /\ edges'[x] \subseteq edges[x] \cup {e}
        /\ \A x \in Graph \ Listed : edges'[x] = edges[x]
        /\ \A p \in Graph : \A c \in kids[p] : edges'[c] \subseteq edges'[p]
        /\ \A x \in Graph : e \in edges'[x] \ edges[x] => {t, h} \subseteq nodes'[x]
    BY InstallEffect
  <1>3. TreeOK'
    <2>1. ASSUME NEW x \in Graph \ graphs
          PROVE  kids[x] = {} /\ nodes'[x] = {} /\ edges'[x] = {}
      BY <1>1, <1>2 DEF Enter, IndInv, TreeOK
    <2> QED
      BY <2>1 DEF IndInv, TreeOK, ListedAgree
  <1>4. Nested'
    BY <1>2 DEF Enter, IndInv, Nested
  <1>5. EndpointsPresent'
    <2>1. ASSUME NEW x \in Listed, NEW f \in edges'[x]
          PROVE  {tail'[f], head'[f]} \subseteq nodes'[x]
      <3>1. x \in Graph /\ nodes[x] \subseteq nodes'[x]
        BY <1>1 DEF Enter
      <3>2. CASE f \in edges[x]
        <4>1. f \in edges[root]
          BY <3>2, ListedHeld DEF IndInv
        <4>2. {tail[f], head[f]} \subseteq nodes[x]
          BY <3>2 DEF IndInv, EndpointsPresent
        <4> QED
          BY <3>1, <4>1, <4>2
      <3>3. CASE f \notin edges[x]
        BY <1>2, <3>1, <3>3
      <3> QED
        BY <3>2, <3>3
    <2> QED
      BY <1>1, <2>1 DEF EndpointsPresent
  <1>6. NoDangling'
    <2>1. \A x \in Listed : nodes'[x] \subseteq nodes[x] \cup N
      BY <1>1 DEF Enter
    <2>2. \A x \in Listed : nodes[x] \cup N \subseteq nodeHeap /\ edges[x] \subseteq edgeHeap
      BY <1>1 DEF IndInv, NoDangling
    <2>3. \A x \in Listed : edges'[x] \subseteq edges[x] \cup {e}
      BY <1>1, <1>2
    <2> QED
      BY <1>1, <2>1, <2>2, <2>3 DEF NoDangling
  <1>7. KeysUnique'
    <2>1. edges'[root] \subseteq edges[root] \cup {e}
      BY <1>1, <1>2
    <2>2. nodes'[root] \subseteq nodes[root]
      BY <1>1 DEF Enter
    <2> QED
      BY <2>1, <2>2 DEF IndInv, KeysUnique
  <1> QED
    BY <1>3, <1>4, <1>5, <1>6, <1>7

LEMMA EdgeCalls ==
    ASSUME IndInv, NEW g \in Graph,
           \/ \E t, h \in Node, key \in EdgeName \cup {NULL} : agedge(g, t, h, key)
           \/ \E e \in Edge : agidedge(g, e) \/ agsubedge(g, e)
    PROVE  TreeOK' /\ Nested' /\ EndpointsPresent' /\ NoDangling' /\ KeysUnique' /\ ClosingOK'
  <1> DEFINE Goal == TreeOK' /\ Nested' /\ EndpointsPresent' /\ NoDangling' /\ KeysUnique'
  <1>1. /\ g \in Listed /\ Idle /\ root \in graphs /\ root \in Listed
        /\ UNCHANGED <<closing, hierarchy, nodeHeap, nid>>
    BY ListedClosed DEF agedge, agidedge, agsubedge, Idle, IndInv
  <1>2. ClosingOK'
    BY <1>1, IdleClosing
  <1>3. nodes[g] \subseteq nodes[root] /\ edges[root] \subseteq edgeHeap /\ edges[root] \subseteq Edge
    BY <1>1, ListedHeld DEF IndInv, NoDangling, TypeOK
  <1>4. ASSUME NEW e \in edges[root], NEW N, N \subseteq nodes[root], nodes' = WithNodes(g, N),
               installedge(g, e, tail[e], head[e], eid[e]),
               UNCHANGED <<edgeHeap, eid, tail, head>>
        PROVE  Goal
    <2>1. Enter(N)
      BY <1>1, <1>4, WithNodesEnter
    <2>2. \A p \in Listed : Matches(p, tail[e], head[e], eid[e]) \subseteq {e}
      BY KeyedOnce
    <2>3. \A a, b \in edges[root] \cup {e} :
              /\ eid'[a] = eid'[b]
              /\ \/ tail'[a] = tail'[b] /\ head'[a] = head'[b]
                 \/ ~Directed /\ tail'[a] = head'[b] /\ head'[a] = tail'[b]
              => a = b
      BY <1>4 DEF IndInv, KeysUnique
    <2> QED
      BY <1>1, <1>3, <1>4, <2>1, <2>2, <2>3, EdgeEntered
  <1>5. nodes = WithNodes(g, {})
    BY DEF WithNodes, IndInv, TypeOK
  <1>6. ASSUME NEW e \in Edge, agidedge(g, e)
        PROVE  Goal
    <2>1. e \in edges[root] /\ nodes' = nodes /\ installedge(g, e, tail[e], head[e], eid[e])
          /\ UNCHANGED <<edgeHeap, eid, tail, head>>
      BY <1>6 DEF agidedge
    <2> QED
      BY <1>4, <1>5, <2>1
  <1>7. ASSUME NEW e \in Edge, agsubedge(g, e)
        PROVE  Goal
    <2>1. /\ e \in edges[root] /\ nodes' = WithNodes(g, {tail[e], head[e]})
          /\ installedge(g, e, tail[e], head[e], eid[e])
          /\ UNCHANGED <<edgeHeap, eid, tail, head>>
      BY <1>7 DEF agsubedge
    <2>2. {tail[e], head[e]} \subseteq nodes[root]
      BY <1>1, <2>1 DEF IndInv, EndpointsPresent
    <2> QED
      BY <1>4, <2>1, <2>2
  <1>8. ASSUME NEW t \in Node, NEW h \in Node, NEW key \in EdgeName \cup {NULL},
               agedge(g, t, h, key)
        PROVE  Goal
    <2>1. {t, h} \subseteq nodes[root]
      BY <1>3, <1>8 DEF agedge
    <2>2. ASSUME NEW e \in Found(root, t, h, key),
                 nodes' = nodes, installedge(g, e, tail[e], head[e], eid[e]),
                 UNCHANGED <<edgeHeap, eid, tail, head>>
          PROVE  Goal
      <3>1. e \in edges[root]
        BY DEF Found, Matches
      <3> QED
        BY <1>4, <1>5, <2>2, <3>1
    <2>3. ASSUME key # NULL => Found(root, t, h, key) = {}, newedge(g, t, h, key)
          PROVE  Goal
      <3>1. PICK e \in Edge \ edgeHeap :
               LET id == IF key = NULL THEN e ELSE key
               IN  /\ nodes' = WithNodes(g, {t, h})
                   /\ edgeHeap' = edgeHeap \cup {e}
                   /\ eid' = [eid EXCEPT ![e] = id]
                   /\ tail' = [tail EXCEPT ![e] = t]
                   /\ head' = [head EXCEPT ![e] = h]
                   /\ installedge(g, e, t, h, id)
        BY <2>3 DEF newedge
      <3> DEFINE id == IF key = NULL THEN e ELSE key
      <3>2. /\ \A f \in edges[root] : eid'[f] = eid[f] /\ tail'[f] = tail[f] /\ head'[f] = head[f]
            /\ e \notin edges[root]
            /\ eid'[e] = id /\ tail'[e] = t /\ head'[e] = h
        BY <1>3, <3>1 DEF IndInv, TypeOK
      <3>3. \A f \in edges[root] : eid[f] # e /\ eid[f] # NULL
        BY <1>3, <3>2, Objects DEF IndInv, TypeOK
      <3>4. ASSUME NEW f \in edges[root], eid[f] = id
            PROVE  /\ ~(tail[f] = t /\ head[f] = h)
                   /\ ~Directed => ~(tail[f] = h /\ head[f] = t)
        <4>1. key # NULL /\ id = key
          BY <3>3, <3>4
        <4>2. Matches(root, t, h, key) = {} /\ (~Directed => Matches(root, h, t, key) = {})
          BY <2>3, <4>1 DEF Found
        <4> QED
          BY <3>4, <4>1, <4>2 DEF Matches
      <3>5. id # NULL
        BY Objects
      <3>6. ASSUME NEW p \in Listed
            PROVE  Matches(p, t, h, id) \subseteq {e}
        <4>1. edges[p] \subseteq edges[root]
          BY ListedHeld DEF IndInv
        <4> QED
          BY <3>4, <3>5, <4>1 DEF Matches
      <3>7. \A a, b \in edges[root] \cup {e} :
              /\ eid'[a] = eid'[b]
              /\ \/ tail'[a] = tail'[b] /\ head'[a] = head'[b]
                 \/ ~Directed /\ tail'[a] = head'[b] /\ head'[a] = tail'[b]
              => a = b
        <4>1. ASSUME NEW a \in edges[root], NEW b \in edges[root],
                     eid'[a] = eid'[b],
                     \/ tail'[a] = tail'[b] /\ head'[a] = head'[b]
                     \/ ~Directed /\ tail'[a] = head'[b] /\ head'[a] = tail'[b]
              PROVE  a = b
          BY <3>2, <4>1 DEF IndInv, KeysUnique
        <4> QED
          BY <3>2, <3>4, <4>1
      <3>8. Enter({t, h})
        BY <1>1, <3>1, WithNodesEnter
      <3>9. e \in edgeHeap' /\ edgeHeap \subseteq edgeHeap' /\ installedge(g, e, t, h, id)
        BY <3>1
      <3> HIDE DEF id
      <3> QED
        BY <1>1, <2>1, <3>2, <3>6, <3>7, <3>8, <3>9, EdgeEntered
    <2> QED
      BY <1>8, <2>2, <2>3 DEF agedge
  <1> QED
    BY <1>2, <1>6, <1>7, <1>8

----------------------------------------------------------------------------
(* Nodes and edges leave                                                   *)

\* rec_apply from a listed graph visits it, only listed graphs, and every
\* subgraph of a visited graph where the object is found; from the root, it
\* visits every listed graph that holds the object.
LEMMA ApplyClosed ==
    ASSUME TypeOK, NEW g \in Listed, NEW S
    PROVE  /\ g \in rec_apply(g, S)
           /\ rec_apply(g, S) \subseteq Listed
           /\ \A p \in rec_apply(g, S) : kids[p] \cap S \subseteq rec_apply(g, S)
  <1>1. g \in Graph /\ kids \in [Graph -> SUBSET Graph] /\ Listed \in SUBSET Graph
    BY ListedClosed DEF TypeOK
  <1>2. \A p \in Listed : kids[p] \cap S \subseteq Listed
    BY ListedClosed
  <1> QED
    BY <1>1, <1>2, DownClosed, DownLeast DEF rec_apply

LEMMA ApplyFromRoot ==
    ASSUME TypeOK, NEW H \in SUBSET Graph, NEW S,
           \A x \in Listed : x \in H => x \in S,
           \A p \in Graph : \A c \in kids[p] : c \in H => p \in H
    PROVE  \A x \in Listed : x \in H => x \in rec_apply(root, S)
  <1> DEFINE W == {x \in Listed : x \in H => x \in rec_apply(root, S)}
  <1>1. root \in Listed /\ Listed \subseteq Graph /\ \A p \in Listed : kids[p] \subseteq Listed
    BY ListedClosed
  <1>2. root \in W /\ W \in SUBSET Graph
    BY <1>1, ApplyClosed
  <1>3. ASSUME NEW p \in W, NEW c \in kids[p]
        PROVE  c \in W
    BY <1>1, <1>3, ApplyClosed
  <1>4. Listed \subseteq W
    BY <1>2, <1>3, ListedLeast
  <1> QED
    BY <1>4

LEMMA EraseEdgeEffect ==
    ASSUME IndInv, NEW g \in Listed, NEW e, EraseEdge(g, e)
    PROVE  /\ \A x \in Graph : edges'[x] \subseteq edges[x] /\ edges[x] \ {e} \subseteq edges'[x]
           /\ \A p \in Graph : \A c \in kids[p] : edges'[c] \subseteq edges'[p]
           /\ g = root => \A x \in Listed : e \notin edges'[x]
  <1> DEFINE S == {x \in Graph : e \in edges[x] /\ {tail[e], head[e]} \subseteq nodes[x]}
             images == rec_apply(g, S)
  <1>1. /\ \A x \in Graph : edges'[x] = IF x \in images THEN edges[x] \ {e} ELSE edges[x]
        /\ Listed \subseteq Graph /\ \A p \in Listed : kids[p] \subseteq Listed
    BY ListedClosed DEF EraseEdge, IndInv
  <1>2. /\ images \subseteq Listed
        /\ \A p \in images : kids[p] \cap S \subseteq images
    BY ApplyClosed DEF IndInv
  <1>3. \A x \in Listed : e \in edges[x] => x \in S
    BY <1>1 DEF IndInv, EndpointsPresent
  <1>4. ASSUME NEW p \in Graph, NEW c \in kids[p]
        PROVE  edges'[c] \subseteq edges'[p]
    <2>1. c \in Graph /\ edges[c] \subseteq edges[p]
      BY DEF IndInv, TypeOK, Nested
    <2>2. p \in images => (e \in edges[c] => c \in images)
      BY <1>1, <1>2, <1>3
    <2> QED
      BY <1>1, <2>1, <2>2
  <1>5. ASSUME g = root, NEW x \in Listed
        PROVE  e \notin edges'[x]
    <2>1. \A p \in Graph : \A c \in kids[p] :
             c \in {y \in Graph : e \in edges[y]} => p \in {y \in Graph : e \in edges[y]}
      BY DEF IndInv, Nested
    <2>2. e \in edges[x] => x \in images
      BY <1>1, <1>3, <1>5, <2>1, ApplyFromRoot DEF IndInv
    <2> QED
      BY <1>1, <2>2
  <1> HIDE DEF images
  <1> QED
    BY <1>1, <1>4, <1>5

LEMMA EraseNodeEffect ==
    ASSUME IndInv, NEW g \in Listed, NEW n, EraseNode(g, n)
    PROVE  /\ \A x \in Graph : nodes'[x] \subseteq nodes[x] /\ edges'[x] \subseteq edges[x]
           /\ \A x \in Graph : nodes[x] \ {n} \subseteq nodes'[x]
           /\ \A p \in Graph : \A c \in kids[p] :
                 nodes'[c] \subseteq nodes'[p] /\ edges'[c] \subseteq edges'[p]
           /\ \A x \in Listed : \A f \in edges'[x] : {tail[f], head[f]} \subseteq nodes'[x]
           /\ g = root => \A x \in Listed : n \notin nodes'[x]
  <1> DEFINE S == {x \in Graph : n \in nodes[x]}
             images == rec_apply(g, S)
  <1>1. /\ \A x \in Graph : nodes'[x] = IF x \in images THEN nodes[x] \ {n} ELSE nodes[x]
        /\ \A x \in Graph : edges'[x] = IF x \in images THEN edges[x] \ Incident(n) ELSE edges[x]
    BY DEF EraseNode
  <1>2. /\ images \subseteq Listed /\ Listed \subseteq Graph
        /\ \A p \in images : kids[p] \cap S \subseteq images
        /\ \A p \in Listed : kids[p] \subseteq Listed
    BY ApplyClosed, ListedClosed DEF IndInv
  <1>3. ASSUME NEW p \in Graph, NEW c \in kids[p]
        PROVE  nodes'[c] \subseteq nodes'[p] /\ edges'[c] \subseteq edges'[p]
    <2>1. c \in Graph /\ nodes[c] \subseteq nodes[p] /\ edges[c] \subseteq edges[p]
      BY DEF IndInv, TypeOK, Nested
    <2>2. p \in images /\ n \in nodes[c] => c \in images
      BY <1>2, <2>1
    <2>3. ASSUME p \in images, c \notin images, NEW f \in edges[c]
          PROVE  f \notin Incident(n)
      <3>1. {tail[f], head[f]} \subseteq nodes[c]
        BY <1>2, <2>3 DEF IndInv, EndpointsPresent
      <3> QED
        BY <2>2, <2>3, <3>1 DEF Incident
    <2> QED
      BY <1>1, <2>1, <2>2, <2>3
  <1>4. ASSUME NEW x \in Listed, NEW f \in edges'[x]
        PROVE  {tail[f], head[f]} \subseteq nodes'[x]
    <2>1. x \in Graph /\ f \in edges[x] /\ f \in Edge
      <3>1. x \in Graph
        BY <1>2
      <3>2. f \in edges[x]
        BY <1>1, <3>1
      <3>3. edges[x] \subseteq Edge
        BY <3>1 DEF IndInv, TypeOK
      <3> QED
        BY <3>1, <3>2, <3>3
    <2>2. {tail[f], head[f]} \subseteq nodes[x]
      BY <2>1 DEF IndInv, EndpointsPresent
    <2>3. x \in images => f \notin Incident(n)
      BY <1>1, <1>4, <2>1
    <2> QED
      BY <1>1, <2>1, <2>2, <2>3 DEF Incident
  <1>5. ASSUME g = root, NEW x \in Listed
        PROVE  n \notin nodes'[x]
    <2>1. \A p \in Graph : \A c \in kids[p] : c \in S => p \in S
      BY DEF IndInv, Nested
    <2>2. n \in nodes[x] => x \in images
      <3>1. S \in SUBSET Graph
        OBVIOUS
      <3> QED
        BY <1>2, <1>5, <2>1, <3>1, ApplyFromRoot DEF IndInv
    <2> QED
      BY <1>1, <1>2, <2>2
  <1> HIDE DEF images
  <1> QED
    BY <1>1, <1>3, <1>4, <1>5

\* The invariant after nodes and edges left.
LEMMA ObjectsLeft ==
    ASSUME IndInv, UNCHANGED hierarchy,
           \A x \in Graph : nodes'[x] \subseteq nodes[x] /\ edges'[x] \subseteq edges[x],
           \A p \in Graph : \A c \in kids[p] :
              nodes'[c] \subseteq nodes'[p] /\ edges'[c] \subseteq edges'[p],
           \A x \in Listed : \A f \in edges'[x] : {tail[f], head[f]} \subseteq nodes'[x],
           \A x \in Listed : nodes'[x] \subseteq nodeHeap' /\ edges'[x] \subseteq edgeHeap',
           \A n \in nodes'[root] : nid'[n] = nid[n],
           \A x \in Listed : \A f \in edges'[x] :
              eid'[f] = eid[f] /\ tail'[f] = tail[f] /\ head'[f] = head[f]
    PROVE  TreeOK' /\ Nested' /\ EndpointsPresent' /\ NoDangling' /\ KeysUnique'
  <1>1. Listed' = Listed /\ Listed \subseteq Graph /\ root \in Listed
    BY ListedSame, ListedClosed DEF IndInv
  <1>2. TreeOK'
    <2>1. ASSUME NEW x \in Graph \ graphs
          PROVE  kids[x] = {} /\ nodes'[x] = {} /\ edges'[x] = {}
      BY DEF IndInv, TreeOK
    <2> QED
      BY <2>1 DEF IndInv, TreeOK, ListedAgree
  <1>3. Nested'
    BY DEF Nested
  <1>4. EndpointsPresent' /\ NoDangling'
    BY <1>1 DEF EndpointsPresent, NoDangling
  <1>5. KeysUnique'
    BY <1>1 DEF IndInv, KeysUnique
  <1> QED
    BY <1>2, <1>3, <1>4, <1>5

LEMMA EdgeLeft ==
    ASSUME IndInv, UNCHANGED <<hierarchy, nodeState>>, NEW g \in Listed, NEW e,
           EraseEdge(g, e),
           \/ g = root /\ FreeEdge(e)
           \/ UNCHANGED <<edgeHeap, eid, tail, head>>
    PROVE  TreeOK' /\ Nested' /\ EndpointsPresent' /\ NoDangling' /\ KeysUnique'
  <1>1. /\ \A x \in Graph : edges'[x] \subseteq edges[x] /\ edges[x] \ {e} \subseteq edges'[x]
        /\ \A p \in Graph : \A c \in kids[p] : edges'[c] \subseteq edges'[p]
        /\ g = root => \A x \in Listed : e \notin edges'[x]
    BY EraseEdgeEffect
  <1>2. Listed \subseteq Graph /\ root \in Listed
    BY ListedClosed DEF IndInv
  <1>3. \A p \in Graph : \A c \in kids[p] :
           nodes'[c] \subseteq nodes'[p] /\ edges'[c] \subseteq edges'[p]
    BY <1>1 DEF IndInv, Nested
  <1>4. \A x \in Listed : \A f \in edges'[x] : {tail[f], head[f]} \subseteq nodes'[x]
    BY <1>1, <1>2 DEF IndInv, EndpointsPresent
  <1>5. \A x \in Listed : \A f \in edges'[x] :
           f \in Edge /\ f \in edgeHeap /\ (g = root => f # e)
    BY <1>1, <1>2 DEF IndInv, TypeOK, NoDangling
  <1>6. \A x \in Listed : nodes'[x] \subseteq nodeHeap' /\ edges'[x] \subseteq edgeHeap'
    BY <1>5 DEF FreeEdge, IndInv, NoDangling
  <1>7. \A x \in Listed : \A f \in edges'[x] :
           eid'[f] = eid[f] /\ tail'[f] = tail[f] /\ head'[f] = head[f]
    BY <1>5 DEF FreeEdge, IndInv, TypeOK
  <1> QED
    BY <1>1, <1>3, <1>4, <1>6, <1>7, ObjectsLeft

LEMMA NodeLeft ==
    ASSUME IndInv, UNCHANGED <<hierarchy, edgeHeap, eid, tail, head>>, NEW g \in Listed, NEW n,
           EraseNode(g, n),
           \/ g = root /\ nodeHeap' = nodeHeap \ {n} /\ nid' = [nid EXCEPT ![n] = NULL]
           \/ UNCHANGED <<nodeHeap, nid>>
    PROVE  TreeOK' /\ Nested' /\ EndpointsPresent' /\ NoDangling' /\ KeysUnique'
  <1>1. /\ \A x \in Graph : nodes'[x] \subseteq nodes[x] /\ edges'[x] \subseteq edges[x]
        /\ \A p \in Graph : \A c \in kids[p] :
              nodes'[c] \subseteq nodes'[p] /\ edges'[c] \subseteq edges'[p]
        /\ \A x \in Listed : \A f \in edges'[x] : {tail[f], head[f]} \subseteq nodes'[x]
        /\ g = root => \A x \in Listed : n \notin nodes'[x]
    BY EraseNodeEffect
  <1>2. Listed \subseteq Graph /\ root \in Listed
    BY ListedClosed DEF IndInv
  <1>3. \A x \in Listed : nodes'[x] \subseteq nodeHeap' /\ edges'[x] \subseteq edgeHeap'
    BY <1>1, <1>2 DEF IndInv, NoDangling
  <1>4. \A m \in nodes'[root] : nid'[m] = nid[m]
    BY <1>1, <1>2 DEF IndInv, TypeOK
  <1> QED
    BY <1>1, <1>3, <1>4, ObjectsLeft

----------------------------------------------------------------------------
(* Graphs enter and leave                                                  *)

\* A listed graph other than the root is in the list of its parent.
LEMMA ListedInParent ==
    ASSUME TypeOK, TreeOK, NEW c \in Listed, c # root
    PROVE  parent[c] \in Listed /\ c \in kids[parent[c]]
  <1>1. /\ root \in Listed /\ Listed \subseteq Graph
        /\ \A p \in Listed : kids[p] \subseteq Listed
    BY ListedClosed
  <1>2. PICK p \in Listed : c \in kids[p]
    <2> SUFFICES ASSUME \A p \in Listed : c \notin kids[p]
                 PROVE  FALSE
      OBVIOUS
    <2> DEFINE W == Listed \ {c}
    <2>1. root \in W /\ W \in SUBSET Graph /\ \A p \in W : kids[p] \subseteq W
      BY <1>1
    <2>2. Listed \subseteq W
      BY <2>1, ListedLeast
    <2> QED
      BY <2>2
  <1>3. parent[c] = p
    BY <1>1, <1>2 DEF TreeOK, ListedAgree
  <1> QED
    BY <1>2, <1>3

LEMMA OpenStep ==
    ASSUME IndInv, agopen
    PROVE  TreeOK' /\ Nested' /\ EndpointsPresent' /\ NoDangling' /\ KeysUnique' /\ ClosingOK'
  <1>1. /\ Listed' = Listed /\ graphs \subseteq graphs' /\ root \notin graphs
        /\ UNCHANGED <<parent, kids, nodeState, edgeState, closing, deleting, fault>>
    BY ListedSame DEF agopen
  <1>2. TreeOK' /\ Nested'
    BY <1>1 DEF IndInv, TreeOK, ListedAgree, Nested
  <1>3. EndpointsPresent' /\ NoDangling'
    BY <1>1 DEF IndInv, EndpointsPresent, NoDangling
  <1>4. \A p \in Graph : \A c \in kids[p] : gid'[c] = gid[c]
    BY <1>1 DEF agopen, IndInv, TypeOK, TreeOK, ListedAgree
  <1>5. KeysUnique'
    BY <1>1, <1>4 DEF IndInv, KeysUnique
  <1>6. ClosingOK'
    BY <1>1 DEF IndInv, ClosingOK, Outermost
  <1> QED
    BY <1>2, <1>3, <1>5, <1>6

LEMMA SubgStep ==
    ASSUME IndInv, NEW g \in Graph, NEW name \in GraphName \cup {NULL}, agsubg(g, name)
    PROVE  TreeOK' /\ Nested' /\ EndpointsPresent' /\ NoDangling' /\ KeysUnique' /\ ClosingOK'
  <1>1. PICK s \in Graph \ graphs :
          /\ graphs' = graphs \cup {s}
          /\ parent' = [parent EXCEPT ![s] = g]
          /\ kids' = [kids EXCEPT ![g] = @ \cup {s}]
          /\ gid' = [gid EXCEPT ![s] = IF name = NULL THEN s ELSE name]
    BY DEF agsubg
  <1>2. /\ g \in Listed /\ Idle /\ root \in graphs /\ s # root /\ s # g /\ g \in graphs
        /\ UNCHANGED <<nodeState, edgeState, closing>>
        /\ \A c \in kids[g] : gid[c] # name
    BY <1>1, ListedAllocated DEF agsubg, Idle, IndInv
  <1>3. ClosingOK'
    BY <1>2, IdleClosing
  <1>4. kids[s] = {} /\ nodes[s] = {} /\ edges[s] = {}
    BY <1>1 DEF IndInv, TreeOK
  <1>5. \A p \in Graph : kids'[p] = IF p = g THEN kids[p] \cup {s} ELSE kids[p]
    BY <1>1 DEF IndInv, TypeOK
  <1>6. \A p \in Graph : s \notin kids[p] /\ kids[p] \subseteq Graph
    BY <1>1 DEF IndInv, TypeOK, TreeOK, ListedAgree
  <1>7. TreeOK'
    <2>1. \A x \in Graph : parent'[x] = IF x = s THEN g ELSE parent[x]
      BY <1>1 DEF IndInv, TypeOK
    <2>2. ListedAgree'
      BY <1>1, <1>2, <1>5, <1>6, <2>1 DEF IndInv, TreeOK, ListedAgree
    <2>3. parent'[root] = NULL
      BY <1>2, <2>1, Objects DEF IndInv, TreeOK
    <2>4. \A x \in Graph \ graphs' : kids'[x] = {} /\ nodes'[x] = {} /\ edges'[x] = {}
      BY <1>1, <1>2, <1>5 DEF IndInv, TreeOK
    <2> QED
      BY <2>2, <2>3, <2>4 DEF TreeOK
  <1>8. Nested'
    <2>1. ASSUME NEW p \in Graph, NEW c \in kids'[p]
          PROVE  nodes[c] \subseteq nodes[p] /\ edges[c] \subseteq edges[p]
      <3>1. CASE c \in kids[p]
        BY <3>1 DEF IndInv, Nested
      <3>2. CASE c = s
        BY <1>4, <3>2
      <3> QED
        BY <1>5, <2>1, <3>1, <3>2
    <2> QED
      BY <1>2, <2>1 DEF Nested
  <1>9. Listed' \subseteq Listed \cup {s}
    <2> DEFINE W == Listed \cup {s}
    <2>1. root \in W /\ W \in SUBSET Graph /\ \A p \in Listed : kids[p] \subseteq Listed
      BY <1>1, ListedClosed DEF IndInv
    <2>2. \A p \in W : kids'[p] \cap Graph \subseteq W
      BY <1>1, <1>2, <1>4, <1>5, <2>1
    <2>3. kids' \in [Graph -> SUBSET Graph]
      BY <1>1 DEF IndInv, TypeOK
    <2>4. root \in Graph
      BY Objects
    <2> HIDE DEF W
    <2>5. Down(kids', root, Graph) \subseteq W
      BY <2>1, <2>2, <2>3, <2>4, DownLeast
    <2> QED
      BY <2>5 DEF Listed, W
  <1>10. EndpointsPresent' /\ NoDangling'
    BY <1>2, <1>4, <1>9 DEF IndInv, EndpointsPresent, NoDangling
  <1>11. KeysUnique'
    <2>1. ASSUME NEW p \in Graph, NEW c \in kids'[p], NEW d \in kids'[p], gid'[c] = gid'[d]
          PROVE  c = d
      <3>1. \A x \in kids[p] : x \in graphs /\ gid'[x] = gid[x] /\ gid[x] \in {x} \cup GraphName
        BY <1>1, <1>6 DEF IndInv, TypeOK, TreeOK, ListedAgree
      <3>2. gid'[s] = IF name = NULL THEN s ELSE name
        BY <1>1 DEF IndInv, TypeOK
      <3>3. \A x \in kids[g] : gid[x] # gid'[s]
        <4>1. CASE name = NULL
          BY <1>1, <1>6, <1>2, <3>2, <4>1, Objects DEF IndInv, TypeOK, TreeOK, ListedAgree
        <4>2. CASE name # NULL
          BY <1>2, <3>2, <4>2
        <4> QED
          BY <4>1, <4>2
      <3>4. CASE c \in kids[p] /\ d \in kids[p]
        BY <2>1, <3>1, <3>4 DEF IndInv, KeysUnique
      <3>5. CASE ~(c \in kids[p] /\ d \in kids[p])
        <4>1. p = g /\ c \in kids[g] \cup {s} /\ d \in kids[g] \cup {s}
          BY <1>5, <2>1, <3>5
        <4> QED
          BY <2>1, <3>1, <3>3, <3>5, <4>1
      <3> QED
        BY <3>4, <3>5
    <2> QED
      BY <1>2, <2>1 DEF IndInv, KeysUnique
  <1> QED
    BY <1>3, <1>7, <1>8, <1>10, <1>11

LEMMA UnlinkStep ==
    ASSUME IndInv, NEW g \in Graph, NEW s \in Graph, agdelsubg(g, s)
    PROVE  TreeOK' /\ Nested' /\ EndpointsPresent' /\ NoDangling' /\ KeysUnique' /\ ClosingOK'
  <1>1. /\ Idle /\ kids' = [kids EXCEPT ![g] = @ \ {s}]
        /\ UNCHANGED <<graphs, parent, gid, nodeState, edgeState, closing>>
    BY DEF agdelsubg
  <1>2. ClosingOK'
    BY <1>1, IdleClosing
  <1>3. kids' \in [Graph -> SUBSET Graph] /\ \A x \in Graph : kids'[x] \subseteq kids[x]
    BY <1>1 DEF IndInv, TypeOK
  <1>4. Listed' \subseteq Listed
    BY <1>3, ListedShrinks DEF IndInv
  <1>5. TreeOK' /\ Nested'
    BY <1>1, <1>3 DEF IndInv, TreeOK, ListedAgree, Nested
  <1>6. EndpointsPresent' /\ NoDangling'
    BY <1>1, <1>4 DEF IndInv, EndpointsPresent, NoDangling
  <1>7. KeysUnique'
    BY <1>1, <1>3 DEF IndInv, KeysUnique
  <1> QED
    BY <1>2, <1>5, <1>6, <1>7

LEMMA CloseGraphStep ==
    ASSUME IndInv, NEW g \in Graph, CloseGraph(g)
    PROVE  TreeOK' /\ Nested' /\ EndpointsPresent' /\ NoDangling' /\ KeysUnique' /\ ClosingOK'
  <1>1. /\ Running(g) /\ stage[g] = "nodes" /\ kids[g] = {}
        /\ graphs' = graphs \ {g}
        /\ UNCHANGED <<nodeHeap, nid, edgeHeap, eid, tail, head, next>>
    BY DEF CloseGraph, IndInv, ClosingOK
  <1>2. ASSUME NEW x \in Graph
        PROVE  kids'[x] = IF x = g THEN {} ELSE kids[x] \ {g}
    <2>1. kids'[x] = IF x = g THEN {} ELSE IF x = parent[g] THEN kids[x] \ {g} ELSE kids[x]
      BY DEF CloseGraph
    <2>2. x # parent[g] => g \notin kids[x]
      BY DEF IndInv, TreeOK, ListedAgree
    <2> QED
      BY <2>1, <2>2
  <1>3. \A x \in Graph : /\ parent'[x] = IF x = g THEN NULL ELSE parent[x]
                         /\ gid'[x] = IF x = g THEN NULL ELSE gid[x]
                         /\ nodes'[x] = IF x = g THEN {} ELSE nodes[x]
                         /\ edges'[x] = IF x = g THEN {} ELSE edges[x]
                         /\ stage'[x] = IF x = g THEN "open" ELSE stage[x]
    BY DEF CloseGraph, IndInv, TypeOK
  <1>4. kids' \in [Graph -> SUBSET Graph] /\ \A x \in Graph : kids'[x] \subseteq kids[x]
    <2>1. kids' = [x \in Graph |-> kids'[x]]
      BY DEF CloseGraph
    <2> QED
      BY <1>2, <2>1 DEF IndInv, TypeOK
  <1>5. Listed' \subseteq Listed /\ Listed \subseteq Graph
    BY <1>4, ListedShrinks, ListedClosed DEF IndInv
  <1>6. Listed \subseteq Listed' \cup {g}
    <2> DEFINE L == Down(kids', root, Graph)
               W == L \cup {g}
    <2>1. root \in L /\ L \subseteq Graph /\ \A p \in L : kids'[p] \cap Graph \subseteq L
      BY <1>4, Objects, DownClosed
    <2>2. root \in W /\ W \in SUBSET Graph /\ \A p \in W : kids[p] \subseteq W
      BY <1>1, <1>2, <2>1 DEF IndInv, TypeOK
    <2>3. Listed \subseteq W
      BY <2>2, ListedLeast DEF IndInv
    <2> QED
      BY <2>3 DEF Listed
  <1>7. TreeOK'
    <2>1. ListedAgree'
      <3>1. ASSUME NEW p \in Graph, NEW c \in kids'[p]
            PROVE  parent'[c] = p /\ c \in graphs' /\ p \in graphs'
        <4>1. p # g /\ c # g /\ c \in kids[p] /\ c \in Graph
          BY <1>2, <3>1 DEF IndInv, TypeOK
        <4>2. parent[c] = p /\ c \in graphs /\ p \in graphs
          BY <4>1 DEF IndInv, TreeOK, ListedAgree
        <4> QED
          BY <1>1, <1>3, <4>1, <4>2
      <3> QED
        BY <3>1 DEF ListedAgree
    <2>2. parent'[root] = NULL
      BY <1>3, Objects DEF IndInv, TreeOK
    <2>3. \A x \in Graph \ graphs' : kids'[x] = {} /\ nodes'[x] = {} /\ edges'[x] = {}
      BY <1>1, <1>2, <1>3 DEF IndInv, TreeOK
    <2> QED
      BY <2>1, <2>2, <2>3 DEF TreeOK
  <1>8. Nested'
    <2>1. \A x \in Graph : kids[x] \subseteq Graph
      BY DEF IndInv, TypeOK
    <2> QED
      BY <1>2, <1>3, <2>1 DEF IndInv, Nested
  <1>9. EndpointsPresent' /\ NoDangling'
    BY <1>1, <1>3, <1>5 DEF IndInv, EndpointsPresent, NoDangling
  <1>10. KeysUnique'
    <2>1. \A x \in Graph : kids[x] \subseteq Graph
      BY DEF IndInv, TypeOK
    <2>2. \A x \in Graph : \A c, d \in kids'[x] : gid'[c] = gid'[d] => c = d
      <3>1. ASSUME NEW x \in Graph, NEW c \in kids'[x], NEW d \in kids'[x], gid'[c] = gid'[d]
            PROVE  c = d
        <4>1. c \in kids[x] \ {g} /\ d \in kids[x] \ {g} /\ c \in Graph /\ d \in Graph
          BY <1>2, <2>1, <3>1
        <4>2. gid[c] = gid[d]
          BY <1>3, <3>1, <4>1
        <4> QED
          BY <4>1, <4>2 DEF IndInv, KeysUnique
      <3> QED
        BY <3>1
    <2>3. nodes'[root] \subseteq nodes[root] /\ edges'[root] \subseteq edges[root]
      BY <1>3, Objects
    <2> QED
      BY <1>1, <2>2, <2>3 DEF IndInv, KeysUnique
  <1>11. ClosingOK'
    <2>1. ASSUME NEW x \in Graph, x # g
          PROVE  /\ stage'[x] # "open" => x \in Listed'
                 /\ stage'[x] = "subgs" /\ next'[x] # NULL =>
                       next'[x] \in kids'[x] /\ stage'[next'[x]] = "open"
                 /\ stage'[x] = "subgs" /\ next'[x] = NULL =>
                       \A c \in kids'[x] : stage'[c] # "open"
                 /\ stage'[x] = "nodes" => kids'[x] = {}
      <3>1. stage'[x] = stage[x] /\ kids'[x] = kids[x] \ {g} /\ next'[x] = next[x]
            /\ kids[x] \subseteq Graph
        BY <1>1, <1>2, <1>3, <2>1 DEF IndInv, TypeOK
      <3>2. stage'[x] # "open" => x \in Listed'
        BY <1>6, <2>1, <3>1 DEF IndInv, ClosingOK
      <3>3. ASSUME stage[x] = "subgs", next[x] # NULL
            PROVE  next[x] \in kids'[x] /\ stage'[next[x]] = "open"
        <4>1. next[x] \in kids[x] /\ stage[next[x]] = "open"
          BY <3>3 DEF IndInv, ClosingOK
        <4>2. next[x] # g
          BY <1>1, <4>1
        <4> QED
          BY <1>3, <3>1, <4>1, <4>2
      <3>4. ASSUME stage[x] = "subgs", next[x] = NULL, NEW c \in kids'[x]
            PROVE  stage'[c] # "open"
        <4>1. c \in kids[x] /\ c # g /\ c \in Graph
          BY <3>1, <3>4
        <4>2. stage[c] # "open"
          BY <3>4, <4>1 DEF IndInv, ClosingOK
        <4> QED
          BY <1>3, <4>1, <4>2
      <3>5. stage[x] = "nodes" => kids'[x] = {}
        BY <3>1 DEF IndInv, ClosingOK
      <3> QED
        BY <3>1, <3>2, <3>3, <3>4, <3>5
    <2>2. stage'[g] = "open"
      BY <1>3
    <2>3. ASSUME NEW c \in Graph, Outermost(c)'
          PROVE  Outermost(c)
      <3>1. c # g /\ stage[c] # "open" /\ parent'[c] = parent[c]
        BY <1>3, <2>2, <2>3 DEF Outermost
      <3>2. c \in Listed
        BY <3>1 DEF IndInv, ClosingOK
      <3>3. parent[c] # g
        <4>1. CASE c = root
          BY <4>1, Objects DEF IndInv, TreeOK
        <4>2. CASE c # root
          BY <1>1, <3>2, <4>2, ListedInParent DEF IndInv
        <4> QED
          BY <4>1, <4>2
      <3> QED
        BY <1>3, <2>3, <3>1, <3>3 DEF Outermost
    <2> QED
      BY <2>1, <2>2, <2>3 DEF IndInv, ClosingOK
  <1> QED
    BY <1>7, <1>8, <1>9, <1>10, <1>11

----------------------------------------------------------------------------
(* The other calls and the loops                                           *)

Held == TreeOK /\ Nested /\ EndpointsPresent /\ NoDangling /\ KeysUnique

\* A step that leaves the loops of agclose and the tree alone.
LEMMA SameLoops ==
    ASSUME IndInv, UNCHANGED <<hierarchy, closing>>
    PROVE  ClosingOK'
  <1>1. Listed' = Listed
    BY ListedSame
  <1> QED
    BY <1>1 DEF IndInv, ClosingOK, Outermost

LEMMA DeleteCalls ==
    ASSUME IndInv, NEW g \in Graph,
           \/ \E n \in Node : agdelnode(g, n)
           \/ \E e \in Edge : agdeledge(g, e)
    PROVE  Held' /\ ClosingOK'
  <1>1. ClosingOK'
    BY SameLoops DEF agdelnode, agdeledge
  <1>2. ASSUME NEW n \in Node, agdelnode(g, n)
        PROVE  Held'
    <2>1. CASE g = root
      BY <1>2, <2>1, LoopOnly DEF agdelnode, Held
    <2>2. CASE g # root
      BY <1>2, <2>2, NodeLeft DEF agdelnode, Held
    <2> QED
      BY <2>1, <2>2
  <1>3. ASSUME NEW e \in Edge, agdeledge(g, e)
        PROVE  Held'
    BY <1>3, EdgeLeft DEF agdeledge, Held
  <1> QED
    BY <1>1, <1>2, <1>3

LEMMA DeleteSteps ==
    ASSUME IndInv, DeleteEdge \/ FinishDelete
    PROVE  Held' /\ ClosingOK'
  <1>1. ClosingOK'
    BY SameLoops DEF DeleteEdge, FinishDelete
  <1>2. root \in Listed
    BY ListedClosed DEF IndInv
  <1>3. CASE DeleteEdge
    <2>1. EraseEdge(root, nextEdge) /\ FreeEdge(nextEdge) /\ UNCHANGED <<hierarchy, nodeState>>
      BY <1>3 DEF DeleteEdge
    <2>2. TreeOK' /\ Nested' /\ EndpointsPresent' /\ NoDangling' /\ KeysUnique'
      BY <1>2, <2>1, EdgeLeft
    <2> QED
      BY <1>1, <2>2 DEF Held
  <1>4. CASE FinishDelete
    <2>1. /\ EraseNode(root, doomed)
          /\ nodeHeap' = nodeHeap \ {doomed} /\ nid' = [nid EXCEPT ![doomed] = NULL]
          /\ UNCHANGED <<hierarchy, edgeHeap, eid, tail, head>>
      BY <1>4 DEF FinishDelete
    <2>2. TreeOK' /\ Nested' /\ EndpointsPresent' /\ NoDangling' /\ KeysUnique'
      BY <1>2, <2>1, NodeLeft
    <2> QED
      BY <1>1, <2>2 DEF Held
  <1> QED
    BY <1>1, <1>3, <1>4

\* No graph is listed in itself.
LEMMA NotOwnChild ==
    ASSUME TypeOK, TreeOK, NEW g \in Listed
    PROVE  g \notin kids[g]
  <1> SUFFICES ASSUME g \in kids[g]
               PROVE  FALSE
    OBVIOUS
  <1> DEFINE W == Listed \ {g}
  <1>1. /\ root \in Listed /\ Listed \subseteq Graph
        /\ \A p \in Listed : kids[p] \subseteq Listed
    BY ListedClosed
  <1>2. parent[g] = g /\ \A p \in W : g \notin kids[p]
    BY <1>1 DEF TreeOK, ListedAgree
  <1>3. g # root
    BY <1>2, Objects DEF TreeOK
  <1>4. root \in W /\ W \in SUBSET Graph /\ \A p \in W : kids[p] \subseteq W
    BY <1>1, <1>2, <1>3
  <1>5. Listed \subseteq W
    BY <1>4, ListedLeast
  <1> QED
    BY <1>5

LEMMA CloseCall ==
    ASSUME IndInv, NEW g \in Graph, agclose(g)
    PROVE  Held' /\ ClosingOK'
  <1>1. Held' /\ Listed' = Listed
    BY LoopOnly DEF agclose, Held
  <1>2. PICK s \in OneOf(kids[g]) : next' = [next EXCEPT ![g] = s]
    BY DEF agclose
  <1>3. /\ g \in Listed /\ UNCHANGED <<kids, parent>>
        /\ \A x \in Graph : stage[x] = "open"
        /\ \A x \in Graph : stage'[x] = IF x = g THEN "subgs" ELSE "open"
        /\ next'[g] = s
    BY <1>2 DEF agclose, Idle, IndInv, TypeOK
  <1>4. kids[g] \subseteq Graph /\ g \notin kids[g] /\ NULL \notin Graph
    BY <1>3, NotOwnChild, Objects DEF IndInv, TypeOK
  <1>5. s # NULL => s \in kids[g] /\ stage'[s] = "open"
    BY <1>3, <1>4 DEF OneOf
  <1>6. s = NULL => kids[g] = {}
    BY <1>4 DEF OneOf
  <1>7. \A x, y \in Graph : Outermost(x)' /\ Outermost(y)' => x = y
    BY <1>3 DEF Outermost
  <1>8. ClosingOK'
    BY <1>1, <1>3, <1>5, <1>6, <1>7 DEF ClosingOK
  <1> QED
    BY <1>1, <1>8

\* While agclose works on the subgraphs of g, nothing below an open one of
\* them is being closed: it would have been called by another program call.
LEMMA OpenBelow ==
    ASSUME IndInv, NEW g \in Graph, stage[g] # "open", NEW b \in kids[g], stage[b] = "open",
           NEW c \in kids[b]
    PROVE  stage[c] = "open"
  <1> SUFFICES ASSUME stage[c] # "open"
               PROVE  FALSE
    OBVIOUS
  <1> DEFINE W == {x \in Listed : stage[x] = "open" /\ x # b}
  <1>1. /\ root \in Listed /\ Listed \subseteq Graph /\ g \in Listed
        /\ \A p \in Listed : kids[p] \subseteq Listed
    BY ListedClosed DEF IndInv, ClosingOK
  <1>2. /\ b \in Graph /\ c \in Graph /\ NULL \notin Graph
        /\ \A p \in Graph : \A k \in kids[p] : parent[k] = p
        /\ parent[root] = NULL
    BY <1>1, Objects DEF IndInv, TreeOK, ListedAgree
  <1>3. Outermost(c)
    BY <1>2 DEF Outermost
  <1>4. \A x \in Graph : Outermost(x) => x = c
    BY <1>2, <1>3 DEF IndInv, ClosingOK
  <1>5. root \in W
    <2>1. root # b /\ root # c
      BY <1>2
    <2>2. stage[root] # "open" => Outermost(root)
      BY <1>2 DEF Outermost
    <2> QED
      BY <1>1, <1>4, <2>1, <2>2
  <1>6. ASSUME NEW p \in W, NEW k \in kids[p]
        PROVE  k \in W
    <2>1. p \in Graph /\ k \in Listed /\ k \in Graph /\ parent[k] = p
      BY <1>1, <1>2
    <2>2. k # b
      BY <1>2, <2>1
    <2>3. k # c
      BY <1>2, <2>1
    <2>4. stage[k] # "open" => Outermost(k)
      BY <2>1 DEF Outermost
    <2> QED
      BY <1>4, <2>1, <2>2, <2>3, <2>4
  <1>7. W \in SUBSET Graph
    BY <1>1
  <1>8. Listed \subseteq W
    BY <1>5, <1>6, <1>7, ListedLeast DEF IndInv
  <1> QED
    BY <1>1, <1>8

LEMMA CloseSubgStep ==
    ASSUME IndInv, NEW g \in Graph, CloseSubg(g)
    PROVE  Held' /\ ClosingOK'
  <1> DEFINE b == next[g]
  <1>1. Held' /\ Listed' = Listed
    BY LoopOnly DEF CloseSubg, Held
  <1>2. /\ stage[g] = "subgs" /\ b # NULL /\ \A c \in kids[g] : stage[c] = "open"
        /\ UNCHANGED <<kids, parent>>
    BY DEF CloseSubg, Running
  <1>3. g \in Listed /\ b \in kids[g] /\ stage[b] = "open" /\ b \in Listed /\ b \in Graph /\ b # g
    <2>1. g \in Listed /\ b \in kids[g] /\ stage[b] = "open"
      BY <1>2 DEF IndInv, ClosingOK
    <2> QED
      BY <1>2, <2>1, ListedClosed DEF IndInv
  <1>4. PICK s \in OneOf(kids[g] \ {b}), s1 \in OneOf(kids[b]) :
          next' = [next EXCEPT ![g] = s, ![b] = s1]
    BY DEF CloseSubg
  <1>5. \A x \in Graph :
          /\ stage'[x] = IF x = b THEN "subgs" ELSE stage[x]
          /\ next'[x] = IF x = b THEN s1 ELSE IF x = g THEN s ELSE next[x]
    BY <1>3, <1>4 DEF CloseSubg, IndInv, TypeOK
  <1>6. /\ NULL \notin Graph
        /\ \A p \in Graph : kids[p] \subseteq Graph /\ \A k \in kids[p] : parent[k] = p
    BY Objects DEF IndInv, TypeOK, TreeOK, ListedAgree
  <1>7. \A c \in kids[b] : stage[c] = "open"
    BY <1>2, <1>3, OpenBelow
  <1>8. /\ next'[b] # NULL => next'[b] \in kids[b] /\ stage'[next'[b]] = "open"
        /\ next'[b] = NULL => kids[b] = {}
    <2>1. next'[b] = s1 /\ b \notin kids[b] /\ kids[b] \subseteq Graph
      BY <1>3, <1>5, <1>6
    <2> QED
      BY <1>4, <1>5, <1>6, <1>7, <2>1 DEF OneOf
  <1>9. /\ next'[g] # NULL => next'[g] \in kids[g] /\ stage'[next'[g]] = "open"
        /\ next'[g] = NULL => \A c \in kids[g] : stage'[c] # "open"
    <2>1. next'[g] = s /\ kids[g] \subseteq Graph
      BY <1>3, <1>5, <1>6
    <2>2. s # NULL => s \in kids[g] \ {b}
      BY <1>4 DEF OneOf
    <2>3. s = NULL => kids[g] \subseteq {b}
      BY <1>4, <1>6, <2>1 DEF OneOf
    <2> QED
      BY <1>2, <1>3, <1>5, <2>1, <2>2, <2>3
  <1>10. ASSUME NEW x \in Graph, x # g, x # b
         PROVE  /\ stage'[x] # "open" => x \in Listed'
                /\ stage'[x] = "subgs" /\ next'[x] # NULL =>
                      next'[x] \in kids'[x] /\ stage'[next'[x]] = "open"
                /\ stage'[x] = "subgs" /\ next'[x] = NULL =>
                      \A c \in kids'[x] : stage'[c] # "open"
                /\ stage'[x] = "nodes" => kids'[x] = {}
    <2>1. stage'[x] = stage[x] /\ next'[x] = next[x] /\ b \notin kids[x] /\ kids[x] \subseteq Graph
      BY <1>3, <1>5, <1>6, <1>10
    <2>2. \A c \in kids[x] : stage'[c] = stage[c]
      BY <1>5, <2>1
    <2> QED
      BY <1>1, <1>2, <2>1, <2>2 DEF IndInv, ClosingOK
  <1>11. \A x \in Graph : Outermost(x)' => Outermost(x)
    <2>1. parent[b] = g
      BY <1>3, <1>6
    <2> QED
      BY <1>2, <1>3, <1>5, <2>1 DEF Outermost
  <1>12. ClosingOK'
    <2>1. stage'[g] = "subgs" /\ stage'[b] = "subgs"
      BY <1>2, <1>3, <1>5
    <2>2. \A x, y \in Graph : Outermost(x)' /\ Outermost(y)' => x = y
      BY <1>11 DEF IndInv, ClosingOK
    <2> HIDE DEF b
    <2>3. ASSUME NEW x \in Graph
          PROVE  /\ stage'[x] # "open" => x \in Listed'
                 /\ stage'[x] = "subgs" /\ next'[x] # NULL =>
                       next'[x] \in kids'[x] /\ stage'[next'[x]] = "open"
                 /\ stage'[x] = "subgs" /\ next'[x] = NULL =>
                       \A c \in kids'[x] : stage'[c] # "open"
                 /\ stage'[x] = "nodes" => kids'[x] = {}
      <3>1. CASE x = b
        BY <1>1, <1>2, <1>3, <1>8, <2>1, <3>1
      <3>2. CASE x = g
        BY <1>1, <1>2, <1>3, <1>9, <2>1, <3>2
      <3>3. CASE x # g /\ x # b
        BY <1>10, <3>3
      <3> QED
        BY <3>1, <3>2, <3>3
    <2> QED
      BY <2>2, <2>3 DEF ClosingOK
  <1> QED
    BY <1>1, <1>12

LEMMA SubgsClosedStep ==
    ASSUME IndInv, NEW g \in Graph, SubgsClosed(g)
    PROVE  Held' /\ ClosingOK'
  <1>1. Held' /\ Listed' = Listed
    BY LoopOnly DEF SubgsClosed, Held
  <1>2. /\ stage[g] = "subgs" /\ next[g] = NULL /\ \A c \in kids[g] : stage[c] = "open"
        /\ UNCHANGED <<kids, parent>>
    BY DEF SubgsClosed, Running
  <1>3. kids[g] = {}
    BY <1>2 DEF IndInv, ClosingOK
  <1>4. \A x \in Graph : /\ stage'[x] = IF x = g THEN "nodes" ELSE stage[x]
                         /\ x # g => next'[x] = next[x]
    BY DEF SubgsClosed, IndInv, TypeOK
  <1>5. \A x \in Graph : stage'[x] = "open" <=> stage[x] = "open"
    BY <1>2, <1>4
  <1>6. \A x, y \in Graph : Outermost(x)' /\ Outermost(y)' => x = y
    <2>1. \A x \in Graph : Outermost(x)' => Outermost(x)
      BY <1>2, <1>5 DEF Outermost
    <2> QED
      BY <2>1 DEF IndInv, ClosingOK
  <1>7. ASSUME NEW x \in Graph
        PROVE  /\ stage'[x] # "open" => x \in Listed'
               /\ stage'[x] = "subgs" /\ next'[x] # NULL =>
                     next'[x] \in kids'[x] /\ stage'[next'[x]] = "open"
               /\ stage'[x] = "subgs" /\ next'[x] = NULL =>
                     \A c \in kids'[x] : stage'[c] # "open"
               /\ stage'[x] = "nodes" => kids'[x] = {}
    <2>1. stage'[x] # "open" => x \in Listed'
      BY <1>1, <1>5 DEF IndInv, ClosingOK
    <2>2. CASE x = g
      BY <1>2, <1>3, <1>4, <2>1, <2>2
    <2>3. CASE x # g
      <3>1. kids[x] \subseteq Graph /\ stage'[x] = stage[x] /\ next'[x] = next[x]
        BY <1>4, <2>3 DEF IndInv, TypeOK
      <3> QED
        BY <1>2, <1>5, <2>1, <3>1 DEF IndInv, ClosingOK
    <2> QED
      BY <2>2, <2>3
  <1> QED
    BY <1>1, <1>6, <1>7 DEF ClosingOK

LEMMA CloseNodeStep ==
    ASSUME IndInv, NEW g \in Graph, CloseNode(g)
    PROVE  Held' /\ ClosingOK'
  <1>1. /\ stage[g] = "nodes" /\ UNCHANGED <<hierarchy, stage>>
        /\ \A x \in Graph : x # g => next'[x] = next[x]
    BY DEF CloseNode, IndInv, TypeOK
  <1>2. Held'
    <2>1. CASE g = root
      BY <2>1, LoopOnly DEF CloseNode, StartDelete, Held
    <2>2. CASE g # root
      <3>1. g \in Listed
        BY <1>1 DEF IndInv, ClosingOK
      <3>2. EraseNode(g, next[g]) /\ UNCHANGED <<hierarchy, edgeHeap, eid, tail, head, nodeHeap, nid>>
        BY <2>2 DEF CloseNode
      <3>3. TreeOK' /\ Nested' /\ EndpointsPresent' /\ NoDangling' /\ KeysUnique'
        BY <3>1, <3>2, NodeLeft
      <3> QED
        BY <3>3 DEF Held
    <2> QED
      BY <2>1, <2>2
  <1>3. Listed' = Listed
    BY ListedSame DEF CloseNode
  <1>4. ClosingOK'
    BY <1>1, <1>3 DEF IndInv, ClosingOK, Outermost
  <1> QED
    BY <1>2, <1>4

----------------------------------------------------------------------------
(* The theorems                                                            *)

LEMMA InitInv == Init => IndInv
  <1> SUFFICES ASSUME Init
               PROVE  IndInv
    OBVIOUS
  <1>1. TypeOK
    BY TypeInit
  <1>2. /\ graphs = {} /\ nodeHeap = {} /\ edgeHeap = {}
        /\ \A g \in Graph : /\ parent[g] = NULL /\ kids[g] = {}
                             /\ nodes[g] = {} /\ edges[g] = {} /\ stage[g] = "open"
    BY DEF Init
  <1>3. root \in Graph /\ Listed \subseteq Graph
    BY <1>1, ListedClosed, Objects
  <1>4. TreeOK /\ Nested /\ EndpointsPresent /\ NoDangling /\ KeysUnique
    BY <1>2, <1>3 DEF TreeOK, ListedAgree, Nested, EndpointsPresent, NoDangling, KeysUnique
  <1>5. ClosingOK
    BY <1>2 DEF ClosingOK, Outermost
  <1> QED
    BY <1>1, <1>4, <1>5 DEF IndInv

LEMMA Invariance == IndInv /\ [Next]_vars => IndInv'
  <1> SUFFICES ASSUME IndInv, [Next]_vars
               PROVE  IndInv'
    OBVIOUS
  <1>1. CASE UNCHANGED vars
    <2>1. TypeOK'
      BY <1>1 DEF IndInv, TypeOK
    <2>2. TreeOK' /\ Nested' /\ EndpointsPresent' /\ NoDangling' /\ KeysUnique'
      BY <1>1, LoopOnly
    <2>3. ClosingOK'
      BY <1>1, SameLoops
    <2> QED
      BY <2>1, <2>2, <2>3 DEF IndInv
  <1>2. CASE Call
    <2>1. TypeOK'
      BY <1>2, TypeCall DEF IndInv
    <2> SUFFICES Held' /\ ClosingOK'
      BY <2>1 DEF IndInv, Held
    <2>2. CASE agopen
      BY <2>2, OpenStep DEF Held
    <2>3. ASSUME NEW g \in Graph, NEW name \in GraphName \cup {NULL}, agsubg(g, name)
          PROVE  Held' /\ ClosingOK'
      BY <2>3, SubgStep DEF Held
    <2>4. ASSUME NEW g \in Graph, NEW s \in Graph, agdelsubg(g, s)
          PROVE  Held' /\ ClosingOK'
      BY <2>4, UnlinkStep DEF Held
    <2>5. ASSUME NEW g \in Graph, NEW name \in NodeName \cup {NULL}, agnode(g, name)
          PROVE  Held' /\ ClosingOK'
      BY <2>5, NodeCalls DEF Held
    <2>6. ASSUME NEW g \in Graph, NEW n \in Node, agsubnode(g, n)
          PROVE  Held' /\ ClosingOK'
      BY <2>6, NodeCalls DEF Held
    <2>7. ASSUME NEW g \in Graph, NEW id \in NodeName \cup Node, agidnode(g, id)
          PROVE  Held' /\ ClosingOK'
      <3>1. PICK n \in Node : agsubnode(g, n)
        BY <2>7, Objects DEF agidnode, IndInv, TypeOK
      <3> QED
        BY <2>6, <3>1
    <2>8. ASSUME NEW g \in Graph, NEW n \in Node, agdelnode(g, n)
          PROVE  Held' /\ ClosingOK'
      BY <2>8, DeleteCalls
    <2>9. ASSUME NEW g \in Graph, NEW e \in Edge, agdeledge(g, e)
          PROVE  Held' /\ ClosingOK'
      BY <2>9, DeleteCalls
    <2>10. ASSUME NEW g \in Graph, NEW t \in Node, NEW h \in Node,
                  NEW key \in EdgeName \cup {NULL}, agedge(g, t, h, key)
           PROVE  Held' /\ ClosingOK'
      BY <2>10, EdgeCalls DEF Held
    <2>11. ASSUME NEW g \in Graph, NEW e \in Edge, agidedge(g, e) \/ agsubedge(g, e)
           PROVE  Held' /\ ClosingOK'
      BY <2>11, EdgeCalls DEF Held
    <2>12. ASSUME NEW g \in Graph, agclose(g)
           PROVE  Held' /\ ClosingOK'
      BY <2>12, CloseCall
    <2> QED
      BY <1>2, <2>2, <2>3, <2>4, <2>5, <2>6, <2>7, <2>8, <2>9, <2>10, <2>11, <2>12 DEF Call
  <1>3. CASE Step
    <2>1. TypeOK'
      BY <1>3, TypeStep DEF IndInv
    <2> SUFFICES Held' /\ ClosingOK'
      BY <2>1 DEF IndInv, Held
    <2>2. CASE DeleteEdge \/ FinishDelete
      BY <2>2, DeleteSteps
    <2>3. ASSUME NEW g \in Graph, CloseSubg(g)
          PROVE  Held' /\ ClosingOK'
      BY <2>3, CloseSubgStep
    <2>4. ASSUME NEW g \in Graph, SubgsClosed(g)
          PROVE  Held' /\ ClosingOK'
      BY <2>4, SubgsClosedStep
    <2>5. ASSUME NEW g \in Graph, CloseNode(g)
          PROVE  Held' /\ ClosingOK'
      BY <2>5, CloseNodeStep
    <2>6. ASSUME NEW g \in Graph, CloseGraph(g)
          PROVE  Held' /\ ClosingOK'
      BY <2>6, CloseGraphStep DEF Held
    <2> QED
      BY <1>3, <2>2, <2>3, <2>4, <2>5, <2>6 DEF Step
  <1> QED
    BY <1>1, <1>2, <1>3 DEF Next

\* The invariant that the other theorems rest on holds in every state of every
\* sequence of calls to graph.c, subg.c, node.c and edge.c.
THEOREM Inductive == Spec => []IndInv
  <1> QED
    BY InitInv, Invariance, PTL DEF Spec

\* Every field keeps its type, and an object that agclose, agdelnode or
\* agdeledge freed has no fields.
THEOREM TypeCorrect == Spec => []TypeOK
  <1>1. IndInv => TypeOK
    BY DEF IndInv
  <1> QED
    BY <1>1, Inductive, PTL

\* The subgraph relation of agsubnode, agsubedge, installedge, agdelnode and
\* agdeledge: what a subgraph holds, its parent holds.
THEOREM SubgraphsNested == Spec => []Nested
  <1>1. IndInv => Nested
    BY DEF IndInv
  <1> QED
    BY <1>1, Inductive, PTL

\* agdeledgeimage finds the dictionary entries of both end points of the edge it
\* unlinks, in every graph that agapply visits.
THEOREM EdgesHaveEndpoints == Spec => []EndpointsPresent
  <1>1. IndInv => EndpointsPresent
    BY DEF IndInv
  <1> QED
    BY <1>1, Inductive, PTL

\* agdelnode and agdeledge of the root reach every subgraph that holds the
\* object before they free it.
THEOREM NothingDangles == Spec => []NoDangling
  <1>1. IndInv => NoDangling
    BY DEF IndInv
  <1> QED
    BY <1>1, Inductive, PTL

\* The searches by ID of agnode, agsubg and agedge before they create keep every
\* ID of a dictionary unique, whatever subgraph the calls are made on.
THEOREM IdsUnique == Spec => []KeysUnique
  <1>1. IndInv => KeysUnique
    BY DEF IndInv
  <1> QED
    BY <1>1, Inductive, PTL

\* agsubg, agdelsubg and agclose keep the dictionary of subgraphs and the parent
\* pointers in step, and list no freed graph.
THEOREM TreeAgrees == Spec => []ListedAgree
  <1>1. IndInv => ListedAgree
    BY DEF IndInv, TreeOK
  <1> QED
    BY <1>1, Inductive, PTL

----------------------------------------------------------------------------
(* No call dereferences a missing entry                                    *)

\* installedge finds its end points in every graph it climbs through when the
\* graph it starts from holds them.
LEMMA InstallSafe ==
    ASSUME IndInv, NEW g \in Listed, NEW e, NEW t, NEW h, NEW id,
           \A p \in Graph : \A c \in kids[p] : nodes'[c] \subseteq nodes'[p],
           {t, h} \subseteq nodes'[g], installedge(g, e, t, h, id)
    PROVE  fault' = fault
  <1> DEFINE W == {x \in Listed : {t, h} \subseteq nodes'[x]}
             S == {x \in Graph : Matches(x, t, h, id) # {}}
  <1>1. Listed \subseteq Graph /\ DOMAIN parent = Graph
    BY ListedClosed DEF IndInv, TypeOK
  <1>2. ASSUME NEW p \in W, parent[p] \in Graph
        PROVE  parent[p] \in W
    <2>1. p # root
      BY <1>2, Objects DEF IndInv, TreeOK
    <2>2. parent[p] \in Listed /\ p \in kids[parent[p]]
      BY <2>1, ListedInParent DEF IndInv
    <2> QED
      BY <1>1, <2>2
  <1>3. g \in Graph /\ g \in W /\ W \in SUBSET Graph
    BY <1>1
  <1>4. Up(parent, g, S) \subseteq W
    <2>1. \A p \in W : parent[p] \in Graph => parent[p] \in W
      BY <1>2
    <2> HIDE DEF W, S
    <2> QED
      BY <1>1, <1>3, <2>1, UpLeast
  <1> QED
    BY <1>4 DEF installedge

\* agsubnode leaves its nodes in the graph it was called on.
LEMMA WithNodesHolds ==
    ASSUME IndInv, NEW g \in Listed, NEW N, nodes' = WithNodes(g, N)
    PROVE  N \subseteq nodes'[g]
  <1>1. g \in Graph /\ DOMAIN parent = Graph
    BY ListedClosed DEF IndInv, TypeOK
  <1>2. ASSUME NEW n \in N
        PROVE  n \in nodes[g] \/ g \in Up(parent, g, {y \in Graph : n \in nodes[y]})
    BY <1>1, UpClosed
  <1> QED
    BY <1>1, <1>2 DEF WithNodes

\* newedge brings its end points in before installedge climbs, whatever graph
\* the caller took them from.
LEMMA NewEdgeSafe ==
    ASSUME IndInv, NEW g \in Listed, NEW t, NEW h, NEW key, newedge(g, t, h, key)
    PROVE  fault' = fault
  <1>1. PICK e \in Edge :
           /\ nodes' = WithNodes(g, {t, h})
           /\ installedge(g, e, t, h, IF key = NULL THEN e ELSE key)
    BY DEF newedge
  <1>2. {t, h} \subseteq nodes'[g]
    BY <1>1, WithNodesHolds
  <1>3. \A p \in Graph : \A c \in kids[p] : nodes'[c] \subseteq nodes'[p]
    BY <1>1, WithNodesEnter DEF Enter
  <1> QED
    BY <1>1, <1>2, <1>3, InstallSafe

LEMMA EdgeCallsSafe ==
    ASSUME LocalOperands, IndInv, NEW g \in Graph,
           \/ \E t, h \in Node, key \in EdgeName \cup {NULL} : agedge(g, t, h, key)
           \/ \E e \in Edge : agidedge(g, e) \/ agsubedge(g, e)
    PROVE  fault' = fault
  <1>1. g \in Listed
    BY DEF agedge, agidedge, agsubedge
  <1>2. ASSUME NEW N, nodes' = WithNodes(g, N), NEW e, NEW t, NEW h, NEW id,
               {t, h} \subseteq nodes'[g], installedge(g, e, t, h, id)
        PROVE  fault' = fault
    <2>1. \A p \in Graph : \A c \in kids[p] : nodes'[c] \subseteq nodes'[p]
      BY <1>1, <1>2, WithNodesEnter DEF Enter
    <2> QED
      BY <1>1, <1>2, <2>1, InstallSafe
  <1>3. nodes = WithNodes(g, {})
    BY DEF WithNodes, IndInv, TypeOK
  <1>4. ASSUME NEW e \in Edge, agidedge(g, e)
        PROVE  fault' = fault
    BY <1>2, <1>3, <1>4 DEF agidedge
  <1>5. ASSUME NEW e \in Edge, agsubedge(g, e)
        PROVE  fault' = fault
    BY <1>1, <1>2, <1>5, WithNodesHolds DEF agsubedge
  <1>6. ASSUME NEW t \in Node, NEW h \in Node, NEW key \in EdgeName \cup {NULL},
               agedge(g, t, h, key)
        PROVE  fault' = fault
    <2>1. {t, h} \subseteq nodes[g]
      BY <1>6 DEF agedge
    <2>2. ASSUME NEW e \in Found(root, t, h, key),
                 nodes' = nodes, installedge(g, e, tail[e], head[e], eid[e])
          PROVE  fault' = fault
      <3>1. {tail[e], head[e]} = {t, h}
        BY DEF Found, Matches
      <3> QED
        BY <1>2, <1>3, <2>1, <2>2, <3>1
    <2>3. ASSUME newedge(g, t, h, key)
          PROVE  fault' = fault
      BY <1>1, <2>3, NewEdgeSafe
    <2> QED
      BY <1>6, <2>2, <2>3 DEF agedge
  <1> QED
    BY <1>4, <1>5, <1>6

\* When its callers name end points that the graph holds, no agedge, agidedge or
\* agsubedge hands installedge a node that a graph on its climb lacks.
THEOREM NoFault ==
    ASSUME LocalOperands
    PROVE  Spec => []NoNullDereference
  <1>1. Init => NoNullDereference
    BY DEF Init, NoNullDereference
  <1>2. IndInv /\ NoNullDereference /\ [Next]_vars => NoNullDereference'
    <2> SUFFICES ASSUME IndInv, NoNullDereference, [Next]_vars
                 PROVE  fault' = fault
      BY DEF NoNullDereference
    <2>1. CASE UNCHANGED vars
      BY <2>1
    <2>2. CASE Call
      <3>1. ASSUME NEW g \in Graph,
                   \/ \E t, h \in Node, key \in EdgeName \cup {NULL} : agedge(g, t, h, key)
                   \/ \E e \in Edge : agidedge(g, e) \/ agsubedge(g, e)
            PROVE  fault' = fault
        BY <3>1, EdgeCallsSafe
      <3>2. ASSUME NEW g \in Graph,
                   \/ \E name \in GraphName \cup {NULL} : agsubg(g, name)
                   \/ \E s \in Graph : agdelsubg(g, s)
                   \/ \E name \in NodeName \cup {NULL} : agnode(g, name)
                   \/ \E id \in NodeName \cup Node : agidnode(g, id)
                   \/ \E n \in Node : agsubnode(g, n) \/ agdelnode(g, n)
                   \/ \E e \in Edge : agdeledge(g, e)
                   \/ agclose(g)
            PROVE  fault' = fault
        BY <3>2 DEF agsubg, agdelsubg, agnode, agidnode, agsubnode, agdelnode, agdeledge, agclose
      <3>3. agopen => fault' = fault
        BY DEF agopen
      <3> QED
        BY <2>2, <3>1, <3>2, <3>3 DEF Call
    <2>3. CASE Step
      BY <2>3 DEF Step, DeleteEdge, FinishDelete, CloseSubg, SubgsClosed, CloseNode, CloseGraph
    <2> QED
      BY <2>1, <2>2, <2>3 DEF Next
  <1> QED
    BY <1>1, <1>2, Inductive, PTL DEF Spec
=============================================================================
