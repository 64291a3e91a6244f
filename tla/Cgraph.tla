------------------------------- MODULE Cgraph -------------------------------
(***************************************************************************)
(* The object hierarchy of lib/cgraph: a root graph, its tree of           *)
(* subgraphs, and the nodes and edges each of them holds (graph.c, subg.c, *)
(* node.c, edge.c, apply.c, agdelete of obj.c).  A node or an edge is one  *)
(* object shared by every graph that holds it; a graph holds it when its   *)
(* own dictionaries have an entry.                                         *)
(*                                                                         *)
(* nodes[g] stands for g->n_id and g->n_seq, edges[g] for the four         *)
(* dictionaries of edge halves that agdeledgeimage clears together,        *)
(* kids[g] for g->g_id and g->g_seq.  The order of the sequences and the   *)
(* hash table under n_id have modules of their own (NodeOrder, NodeSet):   *)
(* here "the next object" of a dictionary is any object not yet visited.   *)
(*                                                                         *)
(* One thread calls the library, so a call is one action, except the two   *)
(* that run a loop with a saved successor over a dictionary they delete    *)
(* from: agclose, and agdelnode of the root graph.                         *)
(*                                                                         *)
(* X_Y, just before X, is X with a mistake: no specification uses it.      *)
(***************************************************************************)
EXTENDS FiniteSets, TreeWalk

CONSTANTS
    Graph, Node, Edge,   \* the objects that malloc may return
    root,                \* the main graph
    NodeName, EdgeName, GraphName,   \* the strings callers pass
    NULL,                \* no object; no name: an anonymous object
    Directed, Strict, NoLoop,        \* the Agdesc_t given to agopen
    LocalOperands,       \* callers of agedge name end points that g holds
    MayUnlink            \* callers may use agdelsubg

ASSUME Objects ==
    /\ root \in Graph
    /\ IsFiniteSet(Graph)
    /\ NULL \notin Graph \cup Node \cup Edge \cup NodeName \cup EdgeName \cup GraphName
    /\ Node \cap NodeName = {}
    /\ Edge \cap EdgeName = {}
    /\ Graph \cap GraphName = {}

ASSUME Kind == {Directed, Strict, NoLoop, LocalOperands, MayUnlink} \subseteq BOOLEAN

VARIABLES
    graphs, nodeHeap, edgeHeap,   \* objects allocated and not freed
    parent,   \* g->parent
    kids,     \* the subgraphs listed in g
    nodes,    \* the nodes g holds
    edges,    \* the edges g holds
    gid, nid, eid,   \* AGID: the name, or the object itself when anonymous
    tail, head,
    stage,    \* the loop of agclose(g) that is running; "open" if none is
    next,     \* its saved successor: next_subg or next_n
    doomed,   \* the node that agdelnode(root, doomed) is deleting, or NULL
    nextEdge, \* its saved successor f
    fault     \* a NULL pointer was dereferenced: the program is gone

hierarchy == <<graphs, parent, kids, gid>>
nodeState == <<nodeHeap, nodes, nid>>
edgeState == <<edgeHeap, edges, eid, tail, head>>
closing   == <<stage, next>>
deleting  == <<doomed, nextEdge>>
vars == <<hierarchy, nodeState, edgeState, closing, deleting, fault>>

----------------------------------------------------------------------------
(* Walking the tree of graphs                                              *)

\* The graphs a caller can name: those found from the root.
Listed == Down(kids, root, Graph)

rec_apply_OneLevel(g, S) == {g} \cup (kids[g] \cap S)

\* The graphs that rec_apply visits from g, S being those where the search for
\* the object succeeds: the walk does not enter the others.
rec_apply(g, S) == Down(kids, g, S)

\* A loop's next object: any of those left.
OneOf(S) == IF S = {} THEN {NULL} ELSE S

\* No call is in progress.
Idle ==
    /\ root \in graphs
    /\ \A g \in Graph : stage[g] = "open"
    /\ doomed = NULL
    /\ ~fault

----------------------------------------------------------------------------
(* Graphs                                                                  *)

agopen ==
    /\ root \notin graphs
    /\ ~fault
    /\ graphs' = graphs \cup {root}
    /\ gid' = [gid EXCEPT ![root] = root]
    /\ UNCHANGED <<parent, kids, nodeState, edgeState, closing, deleting, fault>>

\* agsubg(g, name, 1), when g lists no subgraph of that name.
agsubg(g, name) ==
    /\ Idle
    /\ g \in Listed
    /\ \A c \in kids[g] : gid[c] # name
    /\ \E s \in Graph \ graphs :
          /\ graphs' = graphs \cup {s}
          /\ parent' = [parent EXCEPT ![s] = g]
          /\ kids' = [kids EXCEPT ![g] = @ \cup {s}]
          /\ gid' = [gid EXCEPT ![s] = IF name = NULL THEN s ELSE name]
    /\ UNCHANGED <<nodeState, edgeState, closing, deleting, fault>>

\* agdelsubg only takes the entry out of the dictionaries.
agdelsubg(g, s) ==
    /\ MayUnlink
    /\ Idle
    /\ g \in Listed
    /\ s \in kids[g]
    /\ kids' = [kids EXCEPT ![g] = @ \ {s}]
    /\ UNCHANGED <<graphs, parent, gid, nodeState, edgeState, closing, deleting, fault>>

----------------------------------------------------------------------------
(* Nodes                                                                   *)

WithNodes_HereOnly(g, N) == [nodes EXCEPT ![g] = @ \cup N]

\* agsubnode(g, n, 1) for n in N: install n from g up to the first graph that
\* holds it.
WithNodes(g, N) ==
    [x \in Graph |->
        nodes[x] \cup {n \in N : x \in Up(parent, g, {y \in Graph : n \in nodes[y]})}]

agsubnode(g, n) ==
    /\ Idle
    /\ g \in Listed
    /\ n \in nodes[root] \ nodes[g]
    /\ nodes' = WithNodes(g, {n})
    /\ UNCHANGED <<hierarchy, nodeHeap, nid, edgeState, closing, deleting, fault>>

\* agidnode never creates a node, it only brings one of the root to g.
agidnode(g, id) ==
    /\ \A n \in nodes[g] : nid[n] # id
    /\ \E n \in nodes[root] : nid[n] = id /\ agsubnode(g, n)

\* newnode, installnodetoroot.
NewNode(g, name) ==
    \E n \in Node \ nodeHeap :
        /\ nodeHeap' = nodeHeap \cup {n}
        /\ nid' = [nid EXCEPT ![n] = IF name = NULL THEN n ELSE name]
        /\ nodes' = [x \in Graph |-> IF x \in Up(parent, g, {}) THEN nodes[x] \cup {n}
                                                          ELSE nodes[x]]

agnode_LocalSearch(g, name) ==
    /\ Idle
    /\ g \in Listed
    /\ \A n \in nodes[g] : nid[n] # name
    /\ NewNode(g, name)
    /\ UNCHANGED <<hierarchy, edgeState, closing, deleting, fault>>

\* agnode(g, name, 1), when g holds no node of that name: bring the root's, or
\* create one.
agnode(g, name) ==
    /\ Idle
    /\ g \in Listed
    /\ \A n \in nodes[g] : nid[n] # name
    /\ \/ \E n \in nodes[root] :
             /\ nid[n] = name
             /\ nodes' = WithNodes(g, {n})
             /\ UNCHANGED <<nodeHeap, nid>>
       \/ /\ \A n \in nodes[root] : nid[n] # name
          /\ NewNode(g, name)
    /\ UNCHANGED <<hierarchy, edgeState, closing, deleting, fault>>

----------------------------------------------------------------------------
(* Edges                                                                   *)

\* agfindedge_by_key: a NULL key is the wild card.
Matches(x, t, h, key) ==
    {e \in edges[x] : tail[e] = t /\ head[e] = h /\ (key = NULL \/ eid[e] = key)}

Found_Straight(x, t, h, key) == Matches(x, t, h, key)

\* In an undirected graph the other orientation is tried next.
Found(x, t, h, key) ==
    IF Directed \/ Matches(x, t, h, key) # {}
    THEN Matches(x, t, h, key)
    ELSE Matches(x, h, t, key)

ok_to_make_edge(g, t, h) ==
    /\ Strict => Matches(g, t, h, NULL) = {}
    /\ NoLoop => t # h

\* installedge: climb from g, through the graphs that lack the edge.  Each is
\* dereferenced at its entries for t and h, which nodes' must hold.
installedge(g, e, t, h, id) ==
    LET lacking == Up(parent, g, {x \in Graph : Matches(x, t, h, id) # {}})
    IN  IF \A x \in lacking : {t, h} \subseteq nodes'[x]
        THEN /\ edges' = [x \in Graph |-> IF x \in lacking THEN edges[x] \cup {e}
                                                           ELSE edges[x]]
             /\ fault' = fault
        ELSE /\ fault' = TRUE
             /\ edges' = edges

newedge(g, t, h, key) ==
    \E e \in Edge \ edgeHeap :
        LET id == IF key = NULL THEN e ELSE key
        IN  /\ nodes' = WithNodes(g, {t, h})
            /\ edgeHeap' = edgeHeap \cup {e}
            /\ eid' = [eid EXCEPT ![e] = id]
            /\ tail' = [tail EXCEPT ![e] = t]
            /\ head' = [head EXCEPT ![e] = h]
            /\ installedge(g, e, t, h, id)

\* agedge(g, t, h, key, 1), when it does not return an edge of g.
agedge(g, t, h, key) ==
    /\ Idle
    /\ g \in Listed
    /\ {t, h} \subseteq nodes[IF LocalOperands THEN g ELSE root]
    /\ LET probes == key # NULL \/ Strict
       IN  /\ probes => Found(g, t, h, key) = {}
           /\ \/ /\ probes
                 /\ \E e \in Found(root, t, h, key) :
                       /\ nodes' = nodes
                       /\ installedge(g, e, tail[e], head[e], eid[e])
                       /\ UNCHANGED <<edgeHeap, eid, tail, head>>
              \/ /\ probes => Found(root, t, h, key) = {}
                 /\ ok_to_make_edge(g, t, h)
                 /\ newedge(g, t, h, key)
    /\ UNCHANGED <<hierarchy, nodeHeap, nid, closing, deleting>>

\* agidedge(g, t, h, id, 1) for the end points and ID of the root's edge e.
agidedge(g, e) ==
    /\ Idle
    /\ g \in Listed \ {root}
    /\ e \in edges[root]
    /\ {tail[e], head[e]} \subseteq nodes[IF LocalOperands THEN g ELSE root]
    /\ Found(g, tail[e], head[e], eid[e]) = {}
    /\ ok_to_make_edge(g, tail[e], head[e])
    /\ nodes' = nodes
    /\ installedge(g, e, tail[e], head[e], eid[e])
    /\ UNCHANGED <<hierarchy, nodeHeap, nid, edgeHeap, eid, tail, head, closing, deleting>>

agsubedge_NoNodes(g, e) ==
    /\ Idle
    /\ g \in Listed
    /\ e \in edges[root] \ edges[g]
    /\ nodes' = nodes
    /\ installedge(g, e, tail[e], head[e], eid[e])
    /\ UNCHANGED <<hierarchy, nodeHeap, nid, edgeHeap, eid, tail, head, closing, deleting>>

\* agsubedge(g, e, 1).
agsubedge(g, e) ==
    /\ Idle
    /\ g \in Listed
    /\ e \in edges[root] \ edges[g]
    /\ nodes' = WithNodes(g, {tail[e], head[e]})
    /\ installedge(g, e, tail[e], head[e], eid[e])
    /\ UNCHANGED <<hierarchy, nodeHeap, nid, edgeHeap, eid, tail, head, closing, deleting>>

----------------------------------------------------------------------------
(* Deletion                                                                *)

\* agapply of agdeledgeimage.
EraseEdge(g, e) ==
    LET images == rec_apply(g, {x \in Graph : e \in edges[x] /\ {tail[e], head[e]} \subseteq nodes[x]})
    IN  edges' = [x \in Graph |-> IF x \in images THEN edges[x] \ {e} ELSE edges[x]]

FreeEdge(e) ==
    /\ edgeHeap' = edgeHeap \ {e}
    /\ eid' = [eid EXCEPT ![e] = NULL]
    /\ tail' = [tail EXCEPT ![e] = NULL]
    /\ head' = [head EXCEPT ![e] = NULL]

agdeledge(g, e) ==
    /\ Idle
    /\ g \in Listed
    /\ e \in edges[g]
    /\ EraseEdge(g, e)
    /\ IF g = root THEN FreeEdge(e) ELSE UNCHANGED <<edgeHeap, eid, tail, head>>
    /\ UNCHANGED <<hierarchy, nodeState, closing, deleting, fault>>

Incident(n) == {e \in Edge : n \in {tail[e], head[e]}}

EraseNode_KeepEdges(g, n) ==
    LET images == rec_apply(g, {x \in Graph : n \in nodes[x]})
    IN  /\ nodes' = [x \in Graph |-> IF x \in images THEN nodes[x] \ {n} ELSE nodes[x]]
        /\ edges' = edges

\* agapply of agdelnodeimage.
EraseNode(g, n) ==
    LET images == rec_apply(g, {x \in Graph : n \in nodes[x]})
    IN  /\ nodes' = [x \in Graph |-> IF x \in images THEN nodes[x] \ {n} ELSE nodes[x]]
        /\ edges' = [x \in Graph |-> IF x \in images THEN edges[x] \ Incident(n) ELSE edges[x]]

EdgesLeft_Loops(n, e) ==
    LET out == {f \in edges[root] : tail[f] = n} \ {e}
    IN  IF out # {} THEN out ELSE {f \in edges[root] : head[f] = n}

EdgesLeft_OutOnly(n, e) == {f \in edges[root] : tail[f] = n} \ {e}

\* agfstedge (e = NULL) and agnxtedge: the out-edges of n, then its in-edges,
\* a loop being only seen as an out-edge.
EdgesLeft(n, e) ==
    LET out == {f \in edges[root] : tail[f] = n} \ {e}
    IN  IF out # {} THEN out ELSE {f \in edges[root] : head[f] = n /\ tail[f] # n} \ {e}

\* agdelnode(root, n) up to its loop.
StartDelete(n) ==
    /\ doomed' = n
    /\ nextEdge' \in OneOf(EdgesLeft(n, NULL))

agdelnode(g, n) ==
    /\ Idle
    /\ g \in Listed
    /\ n \in nodes[g]
    /\ \/ /\ g = root
          /\ StartDelete(n)
          /\ UNCHANGED <<nodes, edges>>
       \/ /\ g # root
          /\ EraseNode(g, n)
          /\ UNCHANGED deleting
    /\ UNCHANGED <<hierarchy, nodeHeap, nid, edgeHeap, eid, tail, head, closing, fault>>

\* One round: f = agnxtedge(g, e, n); agdeledge(g, e).
DeleteEdge ==
    /\ doomed # NULL
    /\ nextEdge # NULL
    /\ nextEdge' \in OneOf(EdgesLeft(doomed, nextEdge))
    /\ EraseEdge(root, nextEdge)
    /\ FreeEdge(nextEdge)
    /\ UNCHANGED <<hierarchy, nodeState, closing, doomed, fault>>

\* The rest of agdelnode(root, n).
FinishDelete ==
    /\ doomed # NULL
    /\ nextEdge = NULL
    /\ EraseNode(root, doomed)
    /\ nodeHeap' = nodeHeap \ {doomed}
    /\ nid' = [nid EXCEPT ![doomed] = NULL]
    /\ doomed' = NULL
    /\ UNCHANGED <<hierarchy, edgeHeap, eid, tail, head, closing, nextEdge, fault>>

----------------------------------------------------------------------------
(* agclose                                                                 *)

\* The innermost agclose in progress, when it is not inside agdelnode.
Running(g) ==
    /\ stage[g] # "open"
    /\ \A c \in kids[g] : stage[c] = "open"
    /\ doomed = NULL

agclose(g) ==
    /\ Idle
    /\ g \in Listed
    /\ stage' = [stage EXCEPT ![g] = "subgs"]
    /\ \E s \in OneOf(kids[g]) : next' = [next EXCEPT ![g] = s]
    /\ UNCHANGED <<hierarchy, nodeState, edgeState, deleting, fault>>

\* One round of the loop over the subgraphs: save the successor, call agclose.
CloseSubg(g) ==
    /\ Running(g)
    /\ stage[g] = "subgs"
    /\ next[g] # NULL
    /\ stage' = [stage EXCEPT ![next[g]] = "subgs"]
    /\ \E s \in OneOf(kids[g] \ {next[g]}), s1 \in OneOf(kids[next[g]]) :
          next' = [next EXCEPT ![g] = s, ![next[g]] = s1]
    /\ UNCHANGED <<hierarchy, nodeState, edgeState, deleting, fault>>

SubgsClosed(g) ==
    /\ Running(g)
    /\ stage[g] = "subgs"
    /\ next[g] = NULL
    /\ stage' = [stage EXCEPT ![g] = "nodes"]
    /\ \E n \in OneOf(nodes[g]) : next' = [next EXCEPT ![g] = n]
    /\ UNCHANGED <<hierarchy, nodeState, edgeState, deleting, fault>>

CloseNode_SameNext(g) ==
    /\ Running(g)
    /\ stage[g] = "nodes"
    /\ next[g] # NULL
    /\ UNCHANGED next
    /\ \/ /\ g = root
          /\ StartDelete(next[g])
          /\ UNCHANGED <<nodes, edges>>
       \/ /\ g # root
          /\ EraseNode(g, next[g])
          /\ UNCHANGED deleting
    /\ UNCHANGED <<hierarchy, nodeHeap, nid, edgeHeap, eid, tail, head, stage, fault>>

\* One round of the loop over the nodes: save the successor, call agdelnode.
CloseNode(g) ==
    /\ Running(g)
    /\ stage[g] = "nodes"
    /\ next[g] # NULL
    /\ \E n \in OneOf(nodes[g] \ {next[g]}) : next' = [next EXCEPT ![g] = n]
    /\ \/ /\ g = root
          /\ StartDelete(next[g])
          /\ UNCHANGED <<nodes, edges>>
       \/ /\ g # root
          /\ EraseNode(g, next[g])
          /\ UNCHANGED deleting
    /\ UNCHANGED <<hierarchy, nodeHeap, nid, edgeHeap, eid, tail, head, stage, fault>>

\* The rest of agclose: close the dictionaries, leave the parent, free(g).
CloseGraph(g) ==
    /\ Running(g)
    /\ stage[g] = "nodes"
    /\ next[g] = NULL
    /\ graphs' = graphs \ {g}
    /\ kids' = [x \in Graph |-> IF x = g THEN {} ELSE IF x = parent[g] THEN kids[x] \ {g} ELSE kids[x]]
    /\ parent' = [parent EXCEPT ![g] = NULL]
    /\ gid' = [gid EXCEPT ![g] = NULL]
    /\ nodes' = [nodes EXCEPT ![g] = {}]
    /\ edges' = [edges EXCEPT ![g] = {}]
    /\ stage' = [stage EXCEPT ![g] = "open"]
    /\ UNCHANGED <<nodeHeap, nid, edgeHeap, eid, tail, head, next, deleting, fault>>

----------------------------------------------------------------------------
Init ==
    /\ graphs = {} /\ nodeHeap = {} /\ edgeHeap = {}
    /\ parent = [g \in Graph |-> NULL] /\ gid = [g \in Graph |-> NULL]
    /\ kids = [g \in Graph |-> {}]
    /\ nodes = [g \in Graph |-> {}] /\ edges = [g \in Graph |-> {}]
    /\ nid = [n \in Node |-> NULL] /\ eid = [e \in Edge |-> NULL]
    /\ tail = [e \in Edge |-> NULL] /\ head = [e \in Edge |-> NULL]
    /\ stage = [g \in Graph |-> "open"] /\ next = [g \in Graph |-> NULL]
    /\ doomed = NULL /\ nextEdge = NULL /\ fault = FALSE

\* The calls of the program.
Call ==
    \/ agopen
    \/ \E g \in Graph :
        \/ \E name \in GraphName \cup {NULL} : agsubg(g, name)
        \/ \E s \in Graph : agdelsubg(g, s)
        \/ \E name \in NodeName \cup {NULL} : agnode(g, name)
        \/ \E id \in NodeName \cup Node : agidnode(g, id)
        \/ \E n \in Node : agsubnode(g, n) \/ agdelnode(g, n)
        \/ \E t, h \in Node, key \in EdgeName \cup {NULL} : agedge(g, t, h, key)
        \/ \E e \in Edge : agidedge(g, e) \/ agsubedge(g, e) \/ agdeledge(g, e)
        \/ agclose(g)

\* A call in progress goes on.
Step ==
    \/ DeleteEdge
    \/ FinishDelete
    \/ \E g \in Graph : CloseSubg(g) \/ SubgsClosed(g) \/ CloseNode(g) \/ CloseGraph(g)

Next == Call \/ Step

Spec == Init /\ [][Next]_vars

\* A call that started runs until it returns.
FairSpec == Spec /\ WF_vars(Step)

----------------------------------------------------------------------------
(* Properties                                                              *)

\* Every field has its C type, and the fields of an object that is not
\* allocated are clear.
TypeOK ==
    /\ graphs \subseteq Graph /\ nodeHeap \subseteq Node /\ edgeHeap \subseteq Edge
    /\ parent \in [Graph -> Graph \cup {NULL}]
    /\ kids \in [Graph -> SUBSET Graph]
    /\ nodes \in [Graph -> SUBSET Node]
    /\ edges \in [Graph -> SUBSET Edge]
    /\ gid \in [Graph -> Graph \cup GraphName \cup {NULL}]
    /\ nid \in [Node -> Node \cup NodeName \cup {NULL}]
    /\ eid \in [Edge -> Edge \cup EdgeName \cup {NULL}]
    /\ tail \in [Edge -> Node \cup {NULL}]
    /\ head \in [Edge -> Node \cup {NULL}]
    /\ stage \in [Graph -> {"open", "subgs", "nodes"}]
    /\ next \in [Graph -> Graph \cup Node \cup {NULL}]
    /\ \A g \in Graph :
         /\ stage[g] = "subgs" => next[g] \in Graph \cup {NULL}
         /\ stage[g] = "nodes" => next[g] \in Node \cup {NULL}
    /\ doomed \in Node \cup {NULL}
    /\ nextEdge \in Edge \cup {NULL}
    /\ fault \in BOOLEAN
    /\ \A g \in Graph : IF g \in graphs THEN gid[g] \in {g} \cup GraphName ELSE gid[g] = NULL
    /\ \A n \in Node : IF n \in nodeHeap THEN nid[n] \in {n} \cup NodeName ELSE nid[n] = NULL
    /\ \A e \in Edge : eid[e] \in {e, NULL} \cup EdgeName
    /\ \A e \in Edge : e \in edgeHeap <=> NULL \notin {eid[e], tail[e], head[e]}

\* A subgraph holds no node and no edge that its parent lacks: the searches
\* that stop at a graph without the object, and the deletions that prune
\* their walk there, rely on it.
Nested ==
    \A p \in Graph : \A c \in kids[p] :
        nodes[c] \subseteq nodes[p] /\ edges[c] \subseteq edges[p]

\* A listed graph that holds an edge holds its end points, the dictionary
\* entries that agsubrep looks up to unlink the edge.
EndpointsPresent ==
    \A g \in Listed : \A e \in edges[g] : {tail[e], head[e]} \subseteq nodes[g]

\* No listed graph holds a freed node or edge.
NoDangling ==
    \A g \in Listed : nodes[g] \subseteq nodeHeap /\ edges[g] \subseteq edgeHeap

\* Every node and edge that is allocated is held by the root, hence found
\* again by agclose: none is leaked.
NoLeak == nodeHeap \subseteq nodes[root] /\ edgeHeap \subseteq edges[root]

\* A saved successor is still there when its loop comes to it, whatever the
\* deletions in between removed.
CursorsLive ==
    /\ \A g \in Graph :
         /\ stage[g] = "subgs" => next[g] \in kids[g] \cup {NULL}
         /\ stage[g] = "nodes" => next[g] \in nodes[g] \cup {NULL}
    /\ nextEdge # NULL => nextEdge \in edges[root] \cap Incident(doomed)

\* The dictionaries keyed by ID have one entry per key: two nodes of the root
\* never have one ID, nor two sibling subgraphs, nor two edges with the same
\* end points (in either order, when undirected).
KeysUnique ==
    /\ \A m, n \in nodes[root] : nid[m] = nid[n] => m = n
    /\ \A g \in Graph : \A c, d \in kids[g] : gid[c] = gid[d] => c = d
    /\ \A e, f \in edges[root] :
         /\ eid[e] = eid[f]
         /\ \/ tail[e] = tail[f] /\ head[e] = head[f]
            \/ ~Directed /\ tail[e] = head[f] /\ head[e] = tail[f]
         => e = f

\* The dictionary of subgraphs and the parent pointers agree.
ListedAgree ==
    \A p \in Graph : \A c \in kids[p] :
        parent[c] = p /\ c \in graphs /\ p \in graphs

\* A graph opened strict has at most one edge with a given tail and head, in
\* either order when undirected.
AtMostOneEdge ==
    Strict => \A e, f \in edges[root] :
        (\/ tail[e] = tail[f] /\ head[e] = head[f]
         \/ ~Directed /\ tail[e] = head[f] /\ head[e] = tail[f])
        => e = f

\* No call dereferences the dictionary entry of a node that its graph lacks.
NoNullDereference == ~fault

\* An agclose in progress returns, and so does agdelnode of the root: their
\* loops come to an end over dictionaries that shrink as they go.
CallsReturn ==
    /\ \A g \in Graph : stage[g] # "open" ~> stage[g] = "open"
    /\ doomed # NULL ~> doomed = NULL

----------------------------------------------------------------------------
(* The inductive invariant                                                 *)

\* ListedAgree, with what it rests on: the root has no parent and a graph
\* that is not allocated has nothing.
TreeOK ==
    /\ ListedAgree
    /\ parent[root] = NULL
    /\ \A g \in Graph \ graphs : kids[g] = {} /\ nodes[g] = {} /\ edges[g] = {}

\* The agclose that the program called, not one that agclose called.
Outermost(g) == stage[g] # "open" /\ (parent[g] \in Graph => stage[parent[g]] = "open")

\* The loop of agclose over the subgraphs of g: its saved successor is listed
\* and not being closed; once there is none, every subgraph left is being
\* closed, and none is left when the loop over the nodes begins.  The calls in
\* progress started from one.
ClosingOK ==
    /\ \A g, h \in Graph : Outermost(g) /\ Outermost(h) => g = h
    /\ \A g \in Graph :
         /\ stage[g] # "open" => g \in Listed
         /\ stage[g] = "subgs" /\ next[g] # NULL =>
               next[g] \in kids[g] /\ stage[next[g]] = "open"
         /\ stage[g] = "subgs" /\ next[g] = NULL =>
               \A c \in kids[g] : stage[c] # "open"
         /\ stage[g] = "nodes" => kids[g] = {}

\* Nested needs the keys to be unique (installedge stops at a key), the end
\* points to be present (agdelnodeimage finds the edges of a node through its
\* entry) and the graphs that agclose works on to be listed.
IndInv ==
    /\ TypeOK
    /\ TreeOK
    /\ Nested
    /\ EndpointsPresent
    /\ NoDangling
    /\ KeysUnique
    /\ ClosingOK

\* The saved successors: the loop of agdelnode(root, doomed) is not at its end
\* while an edge of doomed is left, and it runs alone or inside the agclose of
\* the root, which has saved another node; a loop over nodes at its end has
\* left none but the one being deleted.
LoopsOK ==
    /\ CursorsLive
    /\ doomed = NULL => nextEdge = NULL
    /\ doomed # NULL =>
         /\ nextEdge = NULL => edges[root] \cap Incident(doomed) = {}
         /\ \A g \in Graph \ {root} : stage[g] = "open"
         /\ stage[root] = "nodes" => next[root] # doomed
    /\ \A g \in Graph : stage[g] = "nodes" /\ next[g] = NULL => nodes[g] \subseteq {doomed}
=============================================================================
