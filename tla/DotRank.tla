------------------------------ MODULE DotRank ------------------------------
(***************************************************************************)
(* dot1_rank of lib/dotgen/rank.c: the ranks of the nodes of a graph with  *)
(* rank sets and clusters.  Each cluster is ranked on its own, innermost   *)
(* first, then stands for one node; each rank set is united into one node; *)
(* what is left is made an acyclic fast graph and every component of it    *)
(* goes through the network simplex (NetworkSimplex); then the ranks are   *)
(* given back to the united nodes and the temporary graph is freed.        *)
(*                                                                         *)
(* An action is a function that dot1_rank calls.  The second kind of       *)
(* behaviour is a call of rank2 alone, as position.c makes it.             *)
(*                                                                         *)
(* Nodes 1..job.nodes are in the order of agfstnode, edges in the order in *)
(* which they were made; a slack node has a higher number.  Graph 0 is the *)
(* root and graph s > 0 is the subgraph job.subs[s].  UF_find is modelled  *)
(* without its path halving, which changes no answer here: only the leader *)
(* of a cluster, whose own rank is then 0, can be met half way.            *)
(***************************************************************************)
EXTENDS NetworkSimplex

CONSTANTS
    Jobs,       \* the graphs that dot1_rank may get
    Aux         \* the graphs that position.c may give to rank2

VARIABLES
    phase,      \* what dot1_rank does next
    job,        \* the input: nodes, edges, ignored, subs, local
    calls,      \* the calls of dot1_rank under way, innermost last: graph, subgraphs to visit
    uf,         \* ND_UF_parent; a node that has none is its own
    ranktype,   \* ND_ranktype; "" is NORMAL
    clust,      \* ND_clust
    GD,         \* of each graph: its nodes, GD_minset, GD_maxset, GD_clust, GD_leader and its rank bounds
    slen,       \* what minmax_edges returns
    comp,       \* GD_comp: the components, each in the order of its list
    freed       \* the temporary edges that have been freed

dotvars == <<phase, job, calls, uf, ranktype, clust, GD, slen, comp, freed>>

Graphs == 0..Len(job.subs)
g == Last(calls).graph                  \* the graph that the innermost dot1_rank ranks
Frame(graph, subs) == [graph |-> graph, subs |-> subs]

InOrder(nodes) == SelectSeq([n \in 1..job.nodes |-> n], LAMBDA n : n \in nodes)

Input == 1..Len(job.edges)

\* agfstnode, agfstout: the edges of graph s, by tail, then by head, then by age.
EdgesOf(s) ==
    LET nodes == InOrder(GD[s].nodes)
        Between(t, h) == SelectSeq([e \in Input |-> e], LAMBDA e : fg.tail[e] = t /\ fg.head[e] = h)
        From(t) == FlattenSeq([i \in DOMAIN nodes |-> Between(t, nodes[i])])
    IN  FlattenSeq([i \in DOMAIN nodes |-> From(nodes[i])])

RECURSIVE UF_find(_, _)
UF_find(f, n) == IF f[n] = n THEN n ELSE UF_find(f, f[n])

\* ND_id is 0 in dot: the first root stays.
UF_union(f, u, v) == [f EXCEPT ![UF_find(f, v)] = UF_find(f, u)]

Ancestors(s) ==
    LET up[t \in Graphs] == IF t = 0 THEN {0} ELSE {t} \cup up[job.subs[t].parent] IN up[s]

\* agdelete of nodes of a subgraph: they leave its subgraphs too.
agdelete(gd, s, nodes) ==
    [t \in DOMAIN gd |-> IF s \in Ancestors(t) THEN [gd[t] EXCEPT !.nodes = @ \ nodes] ELSE gd[t]]

\* What collapse_sets visits: subgraphs that are neither rank set nor cluster are gone through.
RECURSIVE SetsBelow(_)
SetsBelow(s) ==
    LET below == SelectSeq([t \in 1..Len(job.subs) |-> t], LAMBDA t : job.subs[t].parent = s)
    IN  FlattenSeq([i \in DOMAIN below |-> IF job.subs[below[i]].kind = "" THEN SetsBelow(below[i])
                                          ELSE <<below[i]>>])

\* edgelabel_ranks: a graph with edge labels gets a rank for them between any two.
Edgelabel_ranks ==
    /\ phase = "labels"
    /\ fg' = IF job.labels THEN [fg EXCEPT !.minlen = [e \in DOMAIN @ |-> 2 * @[e]]] ELSE fg
    /\ calls' = <<Frame(0, SetsBelow(0))>>
    /\ phase' = "collapse"
    /\ UNCHANGED <<job, uf, ranktype, clust, GD, slen, comp, freed>>
    /\ UNCHANGED <<stage, virtual, nlist, how, rank, tree, range, cut, pool, S_i, iter, result, trouble>>

Collapsing == phase = "collapse" /\ Last(calls).subs # <<>>
Sub == Head(Last(calls).subs)
Visited == [calls EXCEPT ![Len(calls)].subs = Tail(@)]
IsCluster(s) == job.subs[s].kind = "cluster" /\ job.local

\* collapse_rankset.  A cluster comes here when clusterrank is not local.  UF_union(u, u) is u,
\* also when u is not a root; of other nodes it is the root.
CollapseRankset ==
    /\ Collapsing
    /\ ~IsCluster(Sub)
    /\ LET kind   == job.subs[Sub].kind
           list   == InOrder(GD[Sub].nodes)
           u      == list[1]
           united == FoldLeft(LAMBDA f, v : UF_union(f, u, v), uf, Tail(list))
           typed  == [n \in DOMAIN ranktype |-> IF n \in GD[Sub].nodes THEN kind ELSE ranktype[n]]
           low    == kind \in {"min", "source"}
           old    == IF low THEN GD[g].minset ELSE GD[g].maxset
           root   == IF old \in {0, u} THEN u ELSE UF_find(united, old)
       IN  IF list = <<>> THEN UNCHANGED <<uf, ranktype, GD>>
           ELSE IF kind \in {"same", "cluster"}
           THEN uf' = united /\ ranktype' = typed /\ UNCHANGED GD
           ELSE /\ uf' = IF old = 0 THEN united ELSE UF_union(united, old, u)
                /\ GD' = IF low THEN [GD EXCEPT ![g].minset = root] ELSE [GD EXCEPT ![g].maxset = root]
                /\ ranktype' = IF kind \in {"source", "sink"} THEN [typed EXCEPT ![root] = kind] ELSE typed
    /\ calls' = Visited
    /\ UNCHANGED <<phase, job, clust, slen, comp, freed, nsvars>>

\* collapse_cluster up to its call of dot1_rank; node_induce takes out what is taken.
CollapseCluster ==
    /\ Collapsing
    /\ IsCluster(Sub)
    /\ LET taken == {n \in GD[Sub].nodes :
                        \/ ranktype[n] # ""
                        \/ \E i \in 1..(Len(GD[g].clust) - 1) : n \in GD[GD[g].clust[i]].nodes}
           gd    == agdelete(GD, Sub, taken)
       IN  /\ clust' = [n \in DOMAIN clust |-> IF n \in GD[Sub].nodes /\ ranktype[n] = "" THEN 0 ELSE clust[n]]
           /\ IF gd[Sub].nodes = {} THEN GD' = gd /\ calls' = Visited
              ELSE /\ GD' = [gd EXCEPT ![g].clust = Append(@, Sub)]
                   /\ calls' = Append(Visited, Frame(Sub, SetsBelow(Sub)))
    /\ UNCHANGED <<phase, job, uf, ranktype, slen, comp, freed, nsvars>>

----------------------------------------------------------------------------
(* class1, minmax_edges, decompose, acyclic, minmax_edges2                 *)

\* mark_clusters: every node of a cluster gets the cluster's leader.
Marked ==
    LET old    == {n \in GD[g].nodes : ranktype[n] = "cluster"}
        alone  == [n \in DOMAIN uf |-> IF n \in old THEN n ELSE uf[n]]
        free   == [n \in DOMAIN uf |-> IF n \in old THEN "" ELSE ranktype[n]]
        inside(c) == {n \in GD[c].nodes : free[n] = ""}
        Mark(a, c) == [uf       |-> [n \in DOMAIN uf |-> IF n \in inside(c) THEN GD[c].leader ELSE a.uf[n]],
                       clust    |-> [n \in DOMAIN uf |-> IF n \in inside(c) THEN c ELSE a.clust[n]],
                       ranktype |-> [n \in DOMAIN uf |-> IF n \in inside(c) THEN "cluster" ELSE a.ranktype[n]],
                       GD       |-> agdelete(a.GD, c, GD[c].nodes \ inside(c))]
    IN  FoldLeft(Mark, [uf |-> alone, ranktype |-> free, GD |-> GD,
                        clust |-> [n \in DOMAIN clust |-> IF n \in GD[g].nodes THEN 0 ELSE clust[n]]],
                 GD[g].clust)

\* interclust1: a slack node above both ends stands for an edge between clusters.
interclust1(m, f, e) ==
    LET Offset(n) == IF m.clust[n] = 0 THEN 0 ELSE rank[n] - rank[m.GD[m.clust[n]].leader]
        offset == f.minlen[e] + Offset(f.tail[e]) - Offset(f.head[e])
        t  == UF_find(m.uf, f.tail[e])
        h  == UF_find(m.uf, f.head[e])
        f1 == virtual_node(f)
        v  == Len(f1.out)
        rt == make_aux_edge(f1, v, t, Max({0, -offset}), 10 * f.weight[e])
        rh == make_aux_edge(rt, v, h, Max({0, offset}), f.weight[e])
    IN  [rh EXCEPT !.toOrig = [x \in DOMAIN @ |-> IF x > Len(f.tail) THEN e ELSE @[x]]]

\* What class1 makes of one edge.
classified(m, f, e) ==
    LET t   == UF_find(m.uf, f.tail[e])
        h   == UF_find(m.uf, f.head[e])
        rep == find_fast_edge(f, t, h)
    IN  IF f.toVirt[e] # 0 \/ e \in job.ignored \/ t = h THEN f
        ELSE IF m.clust[t] # 0 \/ m.clust[h] # 0 THEN interclust1(m, f, e)
        ELSE IF rep # 0 THEN merge_oneway(f, e, rep)
        ELSE virtual_edge(f, t, h, e)

Class1 ==
    /\ phase = "collapse"
    /\ Last(calls).subs = <<>>
    /\ LET f == FoldLeft(LAMBDA x, e : classified(Marked, x, e), fg, EdgesOf(g))
           Known(n) == n \in Slots(fg)
       IN  /\ fg' = f
           /\ virtual' = virtual \cup (Slots(f) \ Slots(fg))
           /\ rank' = [n \in Slots(f) |-> IF Known(n) THEN rank[n] ELSE 0]
           /\ uf' = [n \in Slots(f) |-> IF Known(n) THEN Marked.uf[n] ELSE n]
           /\ ranktype' = [n \in Slots(f) |-> IF Known(n) THEN Marked.ranktype[n] ELSE ""]
           /\ clust' = [n \in Slots(f) |-> IF Known(n) THEN Marked.clust[n] ELSE 0]
           /\ GD' = Marked.GD
    /\ phase' = "minmax"
    /\ UNCHANGED <<job, calls, slen, comp, freed>>
    /\ UNCHANGED <<stage, nlist, how, tree, range, cut, pool, S_i, iter, result, trouble>>

RECURSIVE ReverseAll(_, _, _)
ReverseAll(f, n, out) ==
    LET L == IF out THEN f.out[n] ELSE f.in[n]
    IN  IF L = <<>> THEN f ELSE ReverseAll(reverse_edge(f, L[1]), n, out)

\* Edges out of the last set and into the first one are turned.
Minmax_edges ==
    /\ phase = "minmax"
    /\ LET lo == IF GD[g].minset = 0 THEN 0 ELSE UF_find(uf, GD[g].minset)
           hi == IF GD[g].maxset = 0 THEN 0 ELSE UF_find(uf, GD[g].maxset)
           f  == IF hi = 0 THEN fg ELSE ReverseAll(fg, hi, TRUE)
       IN  /\ GD' = [GD EXCEPT ![g].minset = lo, ![g].maxset = hi]
           /\ fg' = IF lo = 0 THEN f ELSE ReverseAll(f, lo, FALSE)
           /\ slen' = [x |-> IF lo # 0 /\ ranktype[lo] = "source" THEN 1 ELSE 0,
                       y |-> IF hi # 0 /\ ranktype[hi] = "sink" THEN 1 ELSE 0]
    /\ phase' = "decompose"
    /\ UNCHANGED <<job, calls, uf, ranktype, clust, comp, freed>>
    /\ UNCHANGED <<stage, virtual, nlist, how, rank, tree, range, cut, pool, S_i, iter, result, trouble>>

\* search_component: stk is the stack, found the component so far.
RECURSIVE SearchComponent(_, _, _)
SearchComponent(f, stk, found) ==
    IF stk = <<>> THEN found
    ELSE LET n    == Last(stk)
             L    == Reverse(f.in[n]) \o Reverse(f.out[n])
             ends == [i \in DOMAIN L |-> Other(f, n, L[i])]
             now  == Append(found, n)
         IN  IF Contains(found, n) THEN SearchComponent(f, Front(stk), found)
             ELSE SearchComponent(f, Front(stk) \o SelectSeq(ends, LAMBDA w : ~Contains(now, w) /\ uf[w] = w), now)

decompose(f) ==
    LET Add(cs, n) == IF uf[n] # n \/ \E i \in DOMAIN cs : Contains(cs[i], n) THEN cs
                      ELSE Append(cs, SearchComponent(f, <<n>>, <<>>))
    IN  FoldLeft(Add, <<>>, InOrder(GD[g].nodes))

Decompose ==
    /\ phase = "decompose"
    /\ comp' = decompose(fg)
    /\ phase' = "acyclic"
    /\ UNCHANGED <<job, calls, uf, ranktype, clust, GD, slen, freed, nsvars>>

RECURSIVE Dfs_KeepStack(_, _)
Dfs_KeepStack(acc, n) ==
    LET RECURSIVE From(_, _)
        From(a, i) ==
            IF i > Len(a.fg.out[n]) THEN a
            ELSE LET e == a.fg.out[n][i]
                     w == a.fg.head[e]
                 IN  IF w \in a.onstack THEN From([a EXCEPT !.fg = reverse_edge(@, e)], i)
                     ELSE From(Dfs_KeepStack(a, w), i + 1)
    IN  IF n \in acc.mark THEN acc
        ELSE From([acc EXCEPT !.mark = @ \cup {n}, !.onstack = @ \cup {n}], 1)

\* dfs of acyclic.c.  Where an edge is turned, another has taken its place in the list.
RECURSIVE Dfs(_, _)
Dfs(acc, n) ==
    LET RECURSIVE From(_, _)
        From(a, i) ==
            IF i > Len(a.fg.out[n]) THEN a
            ELSE LET e == a.fg.out[n][i]
                     w == a.fg.head[e]
                 IN  IF w \in a.onstack THEN From([a EXCEPT !.fg = reverse_edge(@, e)], i)
                     ELSE From(Dfs(a, w), i + 1)
    IN  IF n \in acc.mark THEN acc
        ELSE [From([acc EXCEPT !.mark = @ \cup {n}, !.onstack = @ \cup {n}], 1) EXCEPT !.onstack = @ \ {n}]

Acyclic ==
    /\ phase = "acyclic"
    /\ fg' = FoldLeft(LAMBDA f, c : FoldLeft(Dfs, [fg |-> f, mark |-> {}, onstack |-> {}], c).fg, fg, comp)
    /\ phase' = "minmax2"
    /\ UNCHANGED <<job, calls, uf, ranktype, clust, GD, slen, comp, freed>>
    /\ UNCHANGED <<stage, virtual, nlist, how, rank, tree, range, cut, pool, S_i, iter, result, trouble>>

Tied_ToItself ==
    LET hi == GD[g].maxset
        lo == GD[g].minset
        Tie(f, n) ==
            LET f1 == IF hi # 0 /\ f.out[n] = <<>> THEN make_aux_edge(f, n, hi, slen.y, 0) ELSE f
            IN  IF lo # 0 /\ f1.in[n] = <<>> THEN make_aux_edge(f1, lo, n, slen.x, 0) ELSE f1
    IN  FoldLeft(Tie, fg, SelectSeq(InOrder(GD[g].nodes), LAMBDA n : uf[n] = n))

Tied_Level ==
    LET hi == GD[g].maxset
        lo == GD[g].minset
        Tie(f, n) ==
            LET f1 == IF hi \notin {0, n} /\ f.out[n] = <<>> THEN make_aux_edge(f, n, hi, 0, 0) ELSE f
            IN  IF lo \notin {0, n} /\ f1.in[n] = <<>> THEN make_aux_edge(f1, lo, n, 0, 0) ELSE f1
    IN  FoldLeft(Tie, fg, SelectSeq(InOrder(GD[g].nodes), LAMBDA n : uf[n] = n))

\* Nodes with no edge out are tied to the last set, nodes with none in to the first.
Tied ==
    LET hi == GD[g].maxset
        lo == GD[g].minset
        Tie(f, n) ==
            LET f1 == IF hi \notin {0, n} /\ f.out[n] = <<>> THEN make_aux_edge(f, n, hi, slen.y, 0) ELSE f
            IN  IF lo \notin {0, n} /\ f1.in[n] = <<>> THEN make_aux_edge(f1, lo, n, slen.x, 0) ELSE f1
    IN  FoldLeft(Tie, fg, SelectSeq(InOrder(GD[g].nodes), LAMBDA n : uf[n] = n))

Minmax_edges2 ==
    /\ phase = "minmax2"
    /\ fg' = Tied
    /\ comp' = IF Tied = fg THEN comp ELSE decompose(Tied)
    /\ phase' = "rank"
    /\ nlist' = <<>>
    /\ UNCHANGED <<job, calls, uf, ranktype, clust, GD, slen, freed>>
    /\ UNCHANGED <<stage, virtual, how, rank, tree, range, cut, pool, S_i, iter, result, trouble>>

----------------------------------------------------------------------------
(* rank1, expand_ranksets, cleanup1                                        *)

\* The component after the one that was ranked last.
NextComponent == SelectInSeq(comp, LAMBDA c : c = nlist) + 1

\* What nslimit1 (in hundredths) allows, or as much as it takes if there is no such attribute.
scale_clamp(n) == IF job.nslimit1 = INT_MAX THEN INT_MAX ELSE (n * job.nslimit1) \div 100

\* rank1 calls rank for each component.
Rank1 ==
    /\ phase = "rank"
    /\ stage = "returned"
    /\ NextComponent <= Len(comp)
    /\ nlist' = comp[NextComponent]
    /\ how' = [how EXCEPT !.balance = IF GD[g].clust = <<>> THEN 1 ELSE 0,
                          !.maxiter = scale_clamp(Cardinality(GD[g].nodes))]
    /\ Called
    /\ UNCHANGED <<fg, virtual, rank, tree, range, cut, pool, S_i, trouble>>
    /\ UNCHANGED dotvars

RECURSIVE ClustersBelow(_)
ClustersBelow(s) == ToSet(GD[s].clust) \cup UNION {ClustersBelow(c) : c \in ToSet(GD[s].clust)}

\* The walk of expand_ranksets over the nodes.
Expand(a, n) ==
    LET leader == UF_find(a.uf, n)
    IN  [rank |-> IF leader = n THEN a.rank ELSE [a.rank EXCEPT ![n] = @ + a.rank[leader]],
         uf   |-> IF ranktype[n] = "" THEN a.uf ELSE [a.uf EXCEPT ![n] = n]]

set_minmax_RootOnly(r, s) == GD[s]

\* set_minmax: the bounds of a cluster, found when it was ranked, move with its leader.
set_minmax(r, s) == [GD[s] EXCEPT !.minrank = @ + r[GD[s].leader], !.maxrank = @ + r[GD[s].leader]]

Expand_ranksets ==
    /\ phase = "rank"
    /\ stage = "returned"
    /\ NextComponent > Len(comp)
    /\ LET nodes == GD[g].nodes
           done  == FoldLeft(Expand, [rank |-> rank, uf |-> uf], InOrder(nodes))
           ranks == {done.rank[n] : n \in nodes}
           bound == [GD[g] EXCEPT !.minrank = Min(ranks), !.maxrank = Max(ranks)]
       IN  /\ rank' = done.rank
           /\ uf' = done.uf
           /\ ranktype' = [n \in DOMAIN ranktype |-> IF n \in nodes THEN "" ELSE ranktype[n]]
           /\ GD' = [s \in DOMAIN GD |-> IF s = g THEN bound
                                         ELSE IF g = 0 /\ s \in ClustersBelow(0) THEN set_minmax(done.rank, s)
                                         ELSE GD[s]]
    /\ phase' = "cleanup"
    /\ UNCHANGED <<job, calls, clust, slen, comp, freed>>
    /\ UNCHANGED <<stage, fg, virtual, nlist, how, tree, range, cut, pool, S_i, iter, result, trouble>>

\* cluster_leader, when a cluster has been ranked.
cluster_leader ==
    LET list == SelectSeq(Last(comp), LAMBDA n : n \notin virtual /\ rank[n] = 0)
    IN  IF list = <<>> THEN 0 ELSE Last(list)

\* The temporary edges that cleanup1 finds: through the lists, or through an edge of the graph.
Found ==
    LET listed == UNION {ToSet(fg.out[n]) : n \in UNION {ToSet(comp[i]) : i \in DOMAIN comp}}
        held   == {fg.toVirt[e] : e \in {x \in ToSet(EdgesOf(g)) : fg.toVirt[x] # 0
                                                                   /\ fg.toOrig[fg.toVirt[x]] = x}}
    IN  listed \cup held

Cleared_ListsOnly ==
    [fg EXCEPT !.toVirt = [e \in DOMAIN @ |-> IF \E n \in DOMAIN fg.out : Contains(fg.out[n], @[e]) THEN 0 ELSE @[e]],
               !.out = [n \in DOMAIN @ |-> IF \E i \in DOMAIN comp : Contains(comp[i], n) THEN <<>> ELSE @[n]],
               !.in  = [n \in DOMAIN @ |-> IF \E i \in DOMAIN comp : Contains(comp[i], n) THEN <<>> ELSE @[n]]]

Cleared ==
    [fg EXCEPT !.toVirt = [e \in DOMAIN @ |-> IF Contains(EdgesOf(g), e) THEN 0 ELSE @[e]],
               !.out = [n \in DOMAIN @ |-> IF \E i \in DOMAIN comp : Contains(comp[i], n) THEN <<>> ELSE @[n]],
               !.in  = [n \in DOMAIN @ |-> IF \E i \in DOMAIN comp : Contains(comp[i], n) THEN <<>> ELSE @[n]]]

\* cleanup1; dot1_rank returns, to collapse_cluster if g is a cluster.
Cleanup1 ==
    /\ phase = "cleanup"
    /\ fg' = Cleared
    /\ freed' = freed \cup Found
    /\ comp' = <<>>
    /\ IF g = 0
       THEN /\ phase' = "done"
            /\ UNCHANGED <<calls, GD, uf, ranktype, trouble>>
       ELSE IF cluster_leader = 0
       THEN /\ phase' = "done"          \* the assertion of cluster_leader
            /\ trouble' = trouble \cup {"cluster_leader"}
            /\ UNCHANGED <<calls, GD, uf, ranktype>>
       ELSE /\ phase' = "collapse"
            /\ calls' = Front(calls)
            /\ GD' = [GD EXCEPT ![g].leader = cluster_leader]
            /\ uf' = FoldLeft(LAMBDA f, n : UF_union(f, n, cluster_leader), uf, InOrder(GD[g].nodes))
            /\ ranktype' = [n \in DOMAIN ranktype |-> IF n \in GD[g].nodes THEN "cluster" ELSE ranktype[n]]
            /\ UNCHANGED trouble
    /\ UNCHANGED <<job, clust, slen>>
    /\ UNCHANGED <<stage, virtual, nlist, how, rank, tree, range, cut, pool, S_i, iter, result>>

Simplex == NSNext /\ UNCHANGED dotvars

Next == \/ Edgelabel_ranks \/ CollapseRankset \/ CollapseCluster \/ Class1
        \/ Minmax_edges \/ Decompose \/ Acyclic \/ Minmax_edges2
        \/ Rank1 \/ Expand_ranksets \/ Cleanup1
        \/ Simplex

----------------------------------------------------------------------------

NewGD(nodes) == [nodes |-> nodes, minset |-> 0, maxset |-> 0, clust |-> <<>>, leader |-> 0,
                 minrank |-> 0, maxrank |-> 0]

\* A graph of n nodes whose edges are in no list, or are all in the lists.
Graph(n, edges, listed) ==
    FoldLeft(LAMBDA x, e : IF listed THEN make_aux_edge(x, e.tail, e.head, e.minlen, e.weight)
                           ELSE new_edge(x, e.tail, e.head, e.minlen, e.weight, 0),
             EmptyFastGraph(n), edges)

InitSimplex ==
    /\ tree = NoTree
    /\ range = NoRange
    /\ cut = <<>>
    /\ pool = NoPool
    /\ S_i = 0
    /\ iter = 0
    /\ result = -1
    /\ trouble = {}

\* dot_rank: dot1_rank of the root.
InitJob(j) ==
    /\ phase = "labels"
    /\ job = j
    /\ fg = Graph(j.nodes, j.edges, FALSE)
    /\ GD = [s \in Graphs |-> NewGD(IF s = 0 THEN 1..j.nodes ELSE j.subs[s].nodes)]
    /\ virtual = {}
    /\ nlist = <<>>
    /\ rank = [n \in 1..j.nodes |-> 0]
    /\ how = [balance |-> 0, maxiter |-> 0, searchsize |-> j.searchsize,
           TBbalance |-> j.TBbalance]
    /\ stage = "returned"

\* position.c: rank2 on the graph of x coordinates; the nodes above a.real are virtual.
InitAux(a) ==
    /\ phase = "alone"
    /\ job = [nodes |-> a.nodes, edges |-> <<>>, ignored |-> {}, subs |-> <<>>, labels |-> FALSE,
              local |-> TRUE, nslimit1 |-> INT_MAX, searchsize |-> a.searchsize, TBbalance |-> "none"]
    /\ fg = Graph(a.nodes, a.edges, TRUE)
    /\ GD = <<>>
    /\ virtual = (a.real + 1)..a.nodes
    /\ nlist = [n \in 1..a.nodes |-> n]
    /\ rank = a.rank
    /\ how = [balance |-> 2, maxiter |-> a.maxiter, searchsize |-> a.searchsize,
           TBbalance |-> "none"]
    /\ stage = "init"

Init ==
    /\ \/ \E j \in Jobs : InitJob(j)
       \/ \E a \in Aux : InitAux(a)
    /\ InitSimplex
    /\ calls = <<>>
    /\ uf = [n \in Slots(fg) |-> n]
    /\ ranktype = [n \in Slots(fg) |-> ""]
    /\ clust = [n \in Slots(fg) |-> 0]
    /\ slen = [x |-> 0, y |-> 0]
    /\ comp = <<>>
    /\ freed = {}

vars == <<dotvars, nsvars>>

Spec == Init /\ [][Next]_vars

----------------------------------------------------------------------------
(* Properties                                                              *)

TypeOK ==
    /\ phase \in {"labels", "collapse", "minmax", "decompose", "acyclic", "minmax2", "rank", "cleanup",
                  "done", "alone"}
    /\ stage \in {"init", "tight", "merge", "pivot", "balance", "returned"}
    /\ \A n \in Slots(fg) : \A e \in ToSet(fg.out[n] \o fg.in[n]) :
           Contains(fg.out[fg.tail[e]], e) /\ Contains(fg.in[fg.head[e]], e)
    /\ DOMAIN ranktype = Slots(fg)
    /\ uf \in [Slots(fg) -> Slots(fg)]
    /\ rank \in [Slots(fg) -> Int]
    /\ clust \in [Slots(fg) -> Graphs]
    /\ freed \subseteq DOMAIN fg.tail
    /\ nlist \in Seq(Slots(fg))
    /\ comp \in Seq(Seq(Slots(fg)))
    /\ iter \in Nat
    /\ result \in -1..2

Ranked == {0} \cup ClustersBelow(0)
Finished == phase = "done" /\ trouble = {}

SetsOf(s, kinds)  == {t \in ToSet(SetsBelow(s)) : job.subs[t].kind \in kinds}
NodesOf(s, kinds) == UNION {GD[t].nodes : t \in SetsOf(s, kinds)}

\* The classes of nodes of graph s that its rank sets put on one rank.
Blocks(s) ==
    LET Join(b, P) == LET hit == {x \in P : x \cap b # {}} IN (P \ hit) \cup {UNION (hit \cup {b})}
        sets == {GD[t].nodes : t \in SetsOf(s, {"same"})}
                    \cup {NodesOf(s, {"min", "source"}), NodesOf(s, {"max", "sink"})}
    IN  FoldSet(Join, {{n} : n \in GD[s].nodes}, sets \ {{}})

\* The nodes of s that its clusters do not hold.
Loose(s) == GD[s].nodes \ UNION {GD[c].nodes : c \in ToSet(GD[s].clust)}

Together(s) == \A b \in Blocks(s) : \A m, n \in b : rank[m] = rank[n]

FirstAndLast(s) ==
    \A n \in GD[s].nodes : /\ \A m \in NodesOf(s, {"min", "source"}) : rank[m] <= rank[n]
                           /\ \A m \in NodesOf(s, {"max", "sink"}) : rank[m] >= rank[n]

\* A source or sink set has its rank for itself and the nodes that its class holds.
Strict(s, others) ==
    \A b \in Blocks(s) : \A n \in others \ b :
        /\ b \cap NodesOf(s, {"source"}) # {} => \A m \in b : rank[m] < rank[n]
        /\ b \cap NodesOf(s, {"sink"}) # {} => \A m \in b : rank[m] > rank[n]

Apart(s) ==
    \A t, u \in SetsOf(s, {"same", "min", "source", "max", "sink"}) :
        GD[t].nodes \cap GD[u].nodes # {} => t = u

Plain(s) == GD[s].nodes \ NodesOf(s, {"min", "source", "max", "sink"})

NoFlatLength == \A e \in Input : fg.minlen[e] > 0

\* Through merging, reversal, components and expansion every rank set keeps together.
\* It has its place too, in a graph without clusters; a source or sink set has its rank
\* for itself among the nodes that have no place, if it shares no node with another set and
\* no edge may have length 0.
RankSetsHold ==
    Finished => \A s \in Ranked : /\ Together(s)
                                  /\ GD[s].clust = <<>> => FirstAndLast(s)
                                  /\ GD[s].clust = <<>> /\ Apart(s) /\ NoFlatLength => Strict(s, Plain(s))

\* The edges that constrain the ranks in graph s: within s, outside its clusters, between classes.
Constraining(s) ==
    {e \in Input \ job.ignored :
        /\ {fg.tail[e], fg.head[e]} \subseteq Loose(s)
        /\ ~\E b \in Blocks(s) : {fg.tail[e], fg.head[e]} \subseteq b}

\* Whatever was merged, reversed or collapsed on the way, every such edge spans its least
\* length (twice that if there are edge labels, which need the rank between).
EdgesSpan ==
    Finished => \A s \in Ranked : \A e \in Constraining(s) :
        LET span == rank[fg.head[e]] - rank[fg.tail[e]]
        IN  fg.minlen[e] <= IF span < 0 THEN -span ELSE span

\* Where the edges E lead from the nodes X, if a class of s is one node.
RECURSIVE Leads(_, _, _)
Leads(s, E, X) ==
    LET more == UNION {b \in Blocks(s) : b \cap (X \cup {fg.head[e] : e \in {x \in E : fg.tail[x] \in X}}) # {}}
    IN  IF more = X THEN X ELSE Leads(s, E, more)

\* An edge points up only if it lies on a cycle, leaves the last set or enters the first:
\* acyclic and minmax_edges turn no other.
OnlyCyclesTurn ==
    Finished => \A s \in Ranked : \A e \in Constraining(s) :
        rank[fg.head[e]] < rank[fg.tail[e]] =>
            \/ fg.tail[e] \in Leads(s, Constraining(s), {fg.head[e]})
            \/ \E b \in Blocks(s) : fg.tail[e] \in b /\ b \cap NodesOf(s, {"max", "sink"}) # {}
            \/ \E b \in Blocks(s) : fg.head[e] \in b /\ b \cap NodesOf(s, {"min", "source"}) # {}

\* GD_minrank and GD_maxrank of the graph and of every cluster bound the ranks of its
\* nodes; without TBbalance the first rank is 0.  mincross allocates the ranks by them.
BoundsExact ==
    Finished => /\ how.TBbalance = "none" => GD[0].minrank = 0
                /\ \A s \in Ranked : LET ranks == {rank[n] : n \in GD[s].nodes}
                                     IN  GD[s].minrank = Min(ranks) /\ GD[s].maxrank = Max(ranks)

\* cleanup1 and expand_ranksets leave nothing of the temporary graph: class2, which comes
\* next, takes an edge with ED_to_virt for done, and UF_find for the node to draw.
LeavesNothingBehind ==
    Finished => /\ \A n \in 1..job.nodes : fg.out[n] = <<>> /\ fg.in[n] = <<>> /\ uf[n] = n /\ ranktype[n] = ""
                /\ \A e \in Input : fg.toVirt[e] = 0
==============================================================================
