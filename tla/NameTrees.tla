----------------------------- MODULE NameTrees -----------------------------
(***************************************************************************)
(* Names with the sets of subgraphs as lib/cgraph keeps them: g_id, a splay*)
(* tree of lib/cdt ordered by ID, which every search by ID restructures    *)
(* (subg.c, and the callers in graph.c and obj.c).  agclose closes the     *)
(* graphs below one after the other.  Each call is that of Names, with the *)
(* answers of the trees in place of Answers.                               *)
(*                                                                         *)
(* X_Y, just before X, is X with a mistake: no specification uses it.      *)
(***************************************************************************)
EXTENDS Names
LOCAL INSTANCE FiniteSetsExt
INSTANCE SplayTree

VARIABLE
    g_id     \* g->g_id of each graph

treeVars == <<vars, g_id>>

\* agraphidcmpf for the ID k.
agraphidcmpf(gs, k) ==
    [h \in DOMAIN gs |-> IF k < gs[h].id THEN -1 ELSE IF k > gs[h].id THEN 1 ELSE 0]

\* agfindsubg_by_id.
Child(g, k) == dtsearch(g_id[g], agraphidcmpf(graph, k))

agsubgTree_NotFiled(g, l) ==
    LET probe == Probe(w, "graph", l)
        here == IF l # NULL /\ probe.ok THEN Child(g, probe.id)
                ELSE [d |-> g_id[g], obj |-> NULL]
    IN
    \/ /\ here.obj # NULL
       /\ g_id' = [g_id EXCEPT ![g] = here.d]
       /\ UNCHANGED vars
    \/ /\ here.obj = NULL
       /\ localsubg(g, l)
       /\ g_id' = [h \in DOMAIN graph' |-> IF h = g THEN here.d
                                           ELSE IF h \in DOMAIN graph THEN g_id[h] ELSE EmptyDict]

\* agsubg(g, name, 1): localsubg searches once more, and agopen1 files the new
\* graph with its parent.
agsubgTree(g, l) ==
    LET probe == Probe(w, "graph", l)
        here == IF l # NULL /\ probe.ok THEN Child(g, probe.id)
                ELSE [d |-> g_id[g], obj |-> NULL]
        id == Reserve(w, "graph", l).id
        again == dtsearch(here.d, agraphidcmpf(graph, id))
    IN
    \/ /\ here.obj # NULL
       /\ g_id' = [g_id EXCEPT ![g] = here.d]
       /\ UNCHANGED vars
    \/ /\ here.obj = NULL
       /\ localsubg(g, l)
       /\ \E h \in DOMAIN graph' \ DOMAIN graph :
             g_id' = With(With(g_id, g, dtinsert(again.d, agraphidcmpf(graph', id), h).d),
                          h, EmptyDict)

\* agclose of a subgraph gives one ID back after the other; agdelsubg takes the
\* graph out of its parent's set.
agcloseTree(g) ==
    /\ Closed(g)
    /\ w' = FoldSet(LAMBDA h, u : agfreeid(u, "graph", graph[h].id),
                    [w EXCEPT !.map = EmptyMap], Family(g))
    /\ g_id' = [h \in DOMAIN graph' |->
                   IF h = graph[g].parent
                   THEN dtdelete(g_id[h], agraphidcmpf(graph, graph[g].id)).d
                   ELSE g_id[h]]

\* agrename: the set of the parent is not refiled.
agrenameTree(g, l) ==
    LET id == Reserve(w, "graph", l).id
        par == graph[g].parent
        sibling == IF g = root THEN [d |-> EmptyDict, obj |-> NULL] ELSE Child(par, id)
    IN
    /\ Renames(g, l)
    /\ g_id' = IF g = root THEN g_id ELSE [g_id EXCEPT ![par] = sibling.d]
    /\ \/ sibling.obj # NULL /\ KeepName(g, l)
       \/ sibling.obj = NULL /\ ChangeName(g, l)

----------------------------------------------------------------------------
EmptyTree == [g \in {root} |-> EmptyDict]

TreeInit == Init /\ g_id = EmptyTree

TreeNext ==
    /\ \/ /\ \/ \E l \in Label : CallerDup(l) \/ CallerFree(l)
             \/ \E l \in Argument : agnode(l) \/ \E n \in DOMAIN node : agrelabel_node(n, l)
             \/ \E n \in DOMAIN node : agdelnode(n)
          /\ UNCHANGED g_id
       \/ \E g \in DOMAIN graph :
             \/ agcloseTree(g)
             \/ \E l \in Argument : agsubgTree(g, l) \/ (l # NULL /\ agrenameTree(g, l))
       \/ Reopen /\ g_id' = EmptyTree
    /\ Bounded

TreeSpec == TreeInit /\ [][TreeNext]_treeVars

----------------------------------------------------------------------------
(* Property                                                                *)

\* The trees answer every search for a subgraph by ID with what the graph has,
\* however they were restructured before, and closing a subgraph leaves the
\* counts that all its graphs together give back.  So what holds of Names holds
\* of the hierarchy with its trees.
ImplementsNames == Spec
=============================================================================
