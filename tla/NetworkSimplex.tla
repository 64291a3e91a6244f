--------------------------- MODULE NetworkSimplex ---------------------------
(***************************************************************************)
(* rank2 of lib/common/ns.c: the network simplex that assigns ranks to the *)
(* nodes of a fast graph, one component at a time.  A spanning tree of     *)
(* tight edges is built, then tree edges of negative cut value are         *)
(* exchanged until there is none, then the ranks are balanced.             *)
(*                                                                         *)
(* A stage of rank2 is an action; so is each round of its two loops.  The  *)
(* recursive walks of the code are recursive operators in the same order,  *)
(* because the order of the lists decides ties.  ED_tree_index is the      *)
(* place of the edge in tree.edge.  ns.c's messages (agerrorf) and what    *)
(* would be a null pointer or an access out of bounds go to trouble, but   *)
(* for a sum of weights above INT_MAX (1015-1025): weights are small here. *)
(*                                                                         *)
(* X_Y, just before X, is X with a mistake: no specification uses it.      *)
(***************************************************************************)
EXTENDS FastGraph

CONSTANT INT_MAX   \* more than any rank, slack or number of rounds

VARIABLES
    stage,      \* where rank2 is
    fg,         \* the graph: ND_in, ND_out, ED_minlen, ED_weight
    virtual,    \* its nodes whose ND_node_type is not NORMAL
    nlist,      \* GD_nlist, the nodes to rank
    how,        \* the arguments: balance, maxiter, searchsize, TBbalance
    rank,       \* ND_rank
    tree,       \* Tree_edge, ND_tree_out, ND_tree_in
    range,      \* ND_par, ND_low, ND_lim
    cut,        \* ED_cutvalue
    pool,       \* the tight subtrees and their heap
    S_i,        \* where leave_edge resumes
    iter,       \* rounds of the simplex
    result,     \* what rank2 returns
    trouble     \* error messages and undefined behaviour

nsvars == <<stage, fg, virtual, nlist, how, rank, tree, range, cut, pool, S_i, iter, result, trouble>>

Nodes == ToSet(nlist)
Edges == UNION {ToSet(fg.out[n]) : n \in Nodes}

Slack(r, e) == r[fg.head[e]] - r[fg.tail[e]] - fg.minlen[e]

SEQ(a, b, c) == a <= b /\ b <= c

TREE_EDGE(t, e) == Contains(t.edge, e)

NoTree == [edge |-> <<>>, out |-> [n \in Slots(fg) |-> <<>>], in |-> [n \in Slots(fg) |-> <<>>]]
NoPool == [sub |-> [n \in Slots(fg) |-> 0], rep |-> <<>>, size |-> <<>>, heap |-> <<>>]
NoRange == [par |-> [n \in Slots(fg) |-> 0], low |-> [n \in Slots(fg) |-> 0],
            lim |-> [n \in Slots(fg) |-> 0], next |-> 0]

\* What a call of rank2 starts from; the caller sets fg, virtual, nlist, how and rank.
Called == /\ stage' = "init"
          /\ iter' = 0
          /\ result' = -1

\* A list of the tree may not get longer than the list of the graph it is taken from.
add_tree_edge(t, e) ==
    LET n    == fg.tail[e]
        h    == fg.head[e]
        half == [t EXCEPT !.edge = Append(@, e), !.out[n] = Append(@, e)]
        full == [half EXCEPT !.in[h] = Append(@, e)]
    IN  IF TREE_EDGE(t, e) THEN [tree |-> t, ok |-> FALSE]
        ELSE IF Len(half.out[n]) > Len(fg.out[n]) THEN [tree |-> half, ok |-> FALSE]
        ELSE [tree |-> full, ok |-> Len(full.in[h]) <= Len(fg.in[h])]

exchange_tree_edges(t, e, f) ==
    [t EXCEPT !.edge = [i \in DOMAIN @ |-> IF @[i] = e THEN f ELSE @[i]],
              !.out = [n \in DOMAIN @ |-> IF n = fg.tail[f] THEN Append(zapinlist(@[n], e), f)
                                          ELSE zapinlist(@[n], e)],
              !.in  = [n \in DOMAIN @ |-> IF n = fg.head[f] THEN Append(zapinlist(@[n], e), f)
                                          ELSE zapinlist(@[n], e)]]

----------------------------------------------------------------------------
(* init_graph and init_rank                                                *)

Feasible(r) == \A n \in Nodes : \A e \in ToSet(fg.in[n]) : Slack(r, e) >= 0

\* The queue of init_rank.  acc: the ranks, the edges not yet counted, the nodes done.
RECURSIVE RankQueue(_, _)
RankQueue(q, acc) ==
    IF q = <<>> THEN acc
    ELSE LET v     == Head(q)
             least == FoldLeft(LAMBDA m, e : Max({m, acc.rank[fg.tail[e]] + fg.minlen[e]}), 0, fg.in[v])
             Count(a, e) ==
                 LET w == fg.head[e]
                     p == a.priority[w] - 1
                 IN  [a EXCEPT !.priority[w] = p, !.q = IF p <= 0 THEN Append(@, w) ELSE @]
             counted == FoldLeft(Count, [priority |-> acc.priority, q |-> Tail(q)], fg.out[v])
         IN  RankQueue(counted.q, [rank |-> [acc.rank EXCEPT ![v] = least],
                                   priority |-> counted.priority, ctr |-> acc.ctr + 1])

init_rank ==
    RankQueue(SelectSeq(nlist, LAMBDA n : fg.in[n] = <<>>),
              [rank |-> rank, priority |-> [n \in Slots(fg) |-> Len(fg.in[n])], ctr |-> 0])

InitGraph ==
    /\ stage = "init"
    /\ tree' = NoTree
    /\ cut' = [e \in DOMAIN fg.tail |-> 0]
    /\ S_i' = 0
    /\ IF Feasible(rank) THEN UNCHANGED <<rank, trouble>>
       ELSE /\ rank' = init_rank.rank
            /\ trouble' = IF init_rank.ctr = Len(nlist) THEN trouble ELSE trouble \cup {"init_rank"}
    /\ stage' = "tight"
    /\ UNCHANGED <<fg, virtual, nlist, how, range, pool, iter, result>>

----------------------------------------------------------------------------
(* feasible_tree                                                           *)

\* tight_subtree_search: every node reached through tight edges joins subtree k.  An edge
\* that add_tree_edge refuses ends the search from its node, which then counts as -1.
RECURSIVE TightSearch(_, _, _)
TightSearch(acc, v, k) ==
    LET Try(a, e) ==
            LET w     == Other(fg, v, e)
                added == add_tree_edge(a.tree, e)
                below == TightSearch([a EXCEPT !.sub[w] = k, !.tree = added.tree], w, k)
            IN  IF a.over \/ TREE_EDGE(a.tree, e) \/ a.sub[w] # 0 \/ Slack(rank, e) # 0 THEN a
                ELSE IF added.ok THEN [below EXCEPT !.rv = a.rv + @, !.over = FALSE]
                ELSE [a EXCEPT !.tree = added.tree, !.rv = -1, !.over = TRUE, !.ok = FALSE]
    IN  FoldLeft(Try, [acc EXCEPT !.rv = 1, !.over = FALSE], fg.in[v] \o fg.out[v])

RECURSIVE STheapify(_, _, _)
STheapify(h, size, i) ==    \* i from 1; the children of i are 2i and 2i + 1
    LET l == 2 * i
        r == 2 * i + 1
        m == IF l <= Len(h) /\ size[h[l]] < size[h[i]] THEN l ELSE i
        s == IF r <= Len(h) /\ size[h[r]] < size[h[m]] THEN r ELSE m
    IN  IF s = i THEN h ELSE STheapify([h EXCEPT ![i] = h[s], ![s] = h[i]], size, s)

STbuildheap(size) ==
    LET half == (Len(size) \div 2) + 1
    IN  FoldLeft(LAMBDA h, j : IF half - j + 1 <= Len(h) THEN STheapify(h, size, half - j + 1) ELSE h,
                 [i \in DOMAIN size |-> i], [j \in 1..half |-> j])

FindTightSubtrees ==
    /\ stage = "tight"
    /\ LET Grow(a, n) ==
               IF a.rv < 0 \/ a.sub[n] # 0 THEN a
               ELSE LET k == Len(a.rep) + 1
                        t == TightSearch([a EXCEPT !.sub[n] = k], n, k)
                    IN  [t EXCEPT !.rep = Append(@, n), !.size = Append(@, t.rv)]
           all  == FoldLeft(Grow, [sub |-> NoPool.sub, tree |-> tree, rep |-> <<>>, size |-> <<>>,
                                   rv |-> 0, over |-> FALSE, ok |-> TRUE], nlist)
       IN  /\ tree' = all.tree
           /\ pool' = [sub |-> all.sub, rep |-> all.rep, size |-> all.size, heap |-> STbuildheap(all.size)]
           /\ trouble' = IF all.ok THEN trouble ELSE trouble \cup {"add_tree_edge"}
           /\ IF all.rv < 0 THEN stage' = "returned" /\ result' = 2
              ELSE stage' = "merge" /\ UNCHANGED result
    /\ UNCHANGED <<fg, virtual, nlist, how, rank, range, cut, S_i, iter>>

\* inter_tree_edge_search, from v away from `from'.
RECURSIVE InterTreeEdge_OutOnly(_, _, _)
InterTreeEdge_OutOnly(v, from, best) ==
    LET Try(b, e) ==
            LET w == Other(fg, v, e)
            IN  IF TREE_EDGE(tree, e) THEN (IF w = from THEN b ELSE InterTreeEdge_OutOnly(w, v, b))
                ELSE IF pool.sub[w] # pool.sub[v] /\ (b = 0 \/ Slack(rank, e) < Slack(rank, b)) THEN e
                ELSE b
    IN  FoldLeft(Try, best, fg.out[v])

RECURSIVE InterTreeEdge(_, _, _)
InterTreeEdge(v, from, best) ==
    LET Try(b, e) ==
            LET w == Other(fg, v, e)
            IN  IF TREE_EDGE(tree, e) THEN (IF w = from THEN b ELSE InterTreeEdge(w, v, b))
                ELSE IF pool.sub[w] # pool.sub[v] /\ (b = 0 \/ Slack(rank, e) < Slack(rank, b)) THEN e
                ELSE b
    IN  IF best # 0 /\ Slack(rank, best) = 0 THEN best
        ELSE FoldLeft(Try, best, fg.out[v] \o fg.in[v])

RECURSIVE TreeReach(_, _)
TreeReach(v, from) ==    \* the nodes that tree_adjust visits
    {v} \cup UNION {TreeReach(Other(fg, v, e), v) :
                        e \in {x \in ToSet(tree.in[v] \o tree.out[v]) : Other(fg, v, x) # from}}

MergeTrees ==
    /\ stage = "merge"
    /\ Len(pool.heap) > 1
    /\ LET t0   == Head(pool.heap)     \* STextractmin
           heap == STheapify(<<Last(pool.heap)>> \o SubSeq(pool.heap, 2, Len(pool.heap) - 1), pool.size, 1)
           e    == InterTreeEdge(pool.rep[t0], 0, 0)
       IN  IF e = 0
           THEN /\ result' = 1
                /\ stage' = "returned"
                /\ UNCHANGED <<rank, tree, pool, trouble>>
           ELSE LET t1    == pool.sub[Other(fg, CHOOSE v \in {fg.tail[e], fg.head[e]} : pool.sub[v] = t0, e)]
                    delta == IF pool.sub[fg.tail[e]] = t0 THEN Slack(rank, e) ELSE -Slack(rank, e)
                    moved == TreeReach(pool.rep[t0], 0)
                    size  == [pool.size EXCEPT ![t1] = @ + pool.size[t0]]
                    at    == SelectInSeq(heap, LAMBDA k : k = t1)
                    added == add_tree_edge(tree, e)
                IN  /\ rank' = [n \in DOMAIN rank |-> IF n \in moved THEN rank[n] + delta ELSE rank[n]]
                    /\ tree' = added.tree
                    /\ IF added.ok
                       THEN /\ pool' = [pool EXCEPT
                                   !.sub = [n \in DOMAIN @ |-> IF @[n] = t0 THEN t1 ELSE @[n]],
                                   !.size = size,
                                   !.heap = STheapify(heap, size, at)]
                            /\ UNCHANGED <<stage, result, trouble>>
                       ELSE /\ trouble' = trouble \cup {"add_tree_edge"}
                            /\ stage' = "returned"
                            /\ result' = 2
                            /\ UNCHANGED pool
    /\ UNCHANGED <<fg, virtual, nlist, how, range, cut, S_i, iter>>

----------------------------------------------------------------------------
(* The ranges: a numbering of the tree, and the cut values                 *)

\* dfs_range_init, and dfs_range when `keep' lets a subtree keep its range.
RECURSIVE DfsRange(_, _, _, _, _, _)
DfsRange(t, r, v, par, low, keep) ==
    IF keep /\ r.par[v] = par /\ r.low[v] = low THEN [r EXCEPT !.next = r.lim[v] + 1]
    ELSE LET Visit(a, e) == IF e = par THEN a ELSE DfsRange(t, a, Other(fg, v, e), e, a.next, keep)
             begun == [r EXCEPT !.par[v] = par, !.low[v] = low, !.next = low]
             done  == FoldLeft(Visit, begun, t.out[v] \o t.in[v])
         IN  [done EXCEPT !.lim[v] = done.next, !.next = done.next + 1]

\* x_val: what e contributes to the cut value of the tree edge above v; c are those below.
x_val(r, c, e, v, dir) ==
    LET outside == ~SEQ(r.low[v], r.lim[Other(fg, v, e)], r.lim[v])
        rv == IF outside THEN fg.weight[e]
              ELSE (IF TREE_EDGE(tree, e) THEN c[e] ELSE 0) - fg.weight[e]
        d  == (IF dir > 0 THEN fg.head[e] = v ELSE fg.tail[e] = v) # outside
    IN  IF d THEN rv ELSE -rv

\* dfs_cutval: children first.
RECURSIVE DfsCutval(_, _, _, _)
DfsCutval(r, c, v, par) ==
    LET Visit(a, e) == IF e = par THEN a ELSE DfsCutval(r, a, Other(fg, v, e), e)
        below == FoldLeft(Visit, c, tree.out[v] \o tree.in[v])
        dir   == IF fg.tail[par] = v THEN 1 ELSE -1
    IN  IF par = 0 THEN below
        ELSE [below EXCEPT ![par] =
                  FoldLeft(LAMBDA s, e : s + x_val(r, below, e, v, dir), 0, fg.out[v] \o fg.in[v])]

\* rank2 between feasible_tree and its loop.
InitCutvalues ==
    /\ stage = "merge"
    /\ Len(pool.heap) <= 1
    /\ LET r == DfsRange(tree, NoRange, Head(nlist), 0, 1, FALSE)
       IN  /\ range' = r
           /\ cut' = DfsCutval(r, cut, Head(nlist), 0)
    /\ pool' = NoPool
    /\ IF how.maxiter <= 0 THEN stage' = "returned" /\ result' = 0
       ELSE stage' = "pivot" /\ UNCHANGED result
    /\ UNCHANGED <<fg, virtual, nlist, how, rank, tree, S_i, iter, trouble>>

----------------------------------------------------------------------------
(* leave_edge, enter_edge, update                                          *)

leave_edge_NoWrap ==
    LET found == SelectSeq([i \in DOMAIN tree.edge |-> i], LAMBDA i : i > S_i /\ cut[tree.edge[i]] < 0)
    IN  [edge |-> IF found = <<>> THEN 0 ELSE tree.edge[Head(found)],
         S_i  |-> IF found = <<>> THEN Len(tree.edge) ELSE Head(found) - 1]

leave_edge_Zero ==
    LET found == SelectSeq([i \in DOMAIN tree.edge |-> i], LAMBDA i : cut[tree.edge[i]] <= 0)
    IN  [edge |-> IF found = <<>> THEN 0 ELSE tree.edge[Head(found)], S_i |-> 0]

\* The search goes round from S_i and looks at so many edges of negative cut value.
leave_edge ==
    LET n     == Len(tree.edge)
        At(k) == ((S_i + k - 1) % n) + 1
        found == SelectSeq([k \in 1..n |-> At(k)], LAMBDA i : cut[tree.edge[i]] < 0)
        seen  == SubSeq(found, 1, Min({Len(found), Max({how.searchsize, 1})}))
        Better(b, i) == IF b = 0 \/ cut[b] > cut[tree.edge[i]] THEN tree.edge[i] ELSE b
    IN  [edge |-> FoldLeft(Better, 0, seen),
         S_i  |-> IF seen # <<>> /\ Len(seen) = Max({how.searchsize, 1}) THEN Last(seen) - 1
                  ELSE IF S_i = 0 THEN n ELSE S_i]

\* dfs_enter_outedge (out) and dfs_enter_inedge: the least slack of the edges that leave
\* (enter) the subtree of v and are not in the tree.
RECURSIVE EnterSearch(_, _, _, _, _)
EnterSearch(out, r, v, todo, best) ==
    IF todo = <<>> THEN best
    ELSE LET u == Last(todo)
             Down(w) == range.lim[w] < range.lim[u]
             Try(a, e) ==
                 LET w == Other(fg, u, e)
                 IN  IF TREE_EDGE(tree, e)
                     THEN IF Down(w) THEN [a EXCEPT !.todo = Append(@, w)] ELSE a
                     ELSE IF ~SEQ(range.low[v], range.lim[w], range.lim[v])
                             /\ (a.best = 0 \/ Slack(r, e) < Slack(r, a.best))
                     THEN [a EXCEPT !.best = e] ELSE a
             tried == FoldLeft(Try, [todo |-> Front(todo), best |-> best],
                               IF out THEN fg.out[u] ELSE fg.in[u])
             back  == SelectSeq([i \in DOMAIN (IF out THEN tree.in[u] ELSE tree.out[u]) |->
                                     Other(fg, u, (IF out THEN tree.in[u] ELSE tree.out[u])[i])], Down)
         IN  EnterSearch(out, r, v,
                         IF tried.best = 0 \/ Slack(r, tried.best) > 0 THEN tried.todo \o back ELSE tried.todo,
                         tried.best)

enter_edge(r, e) ==
    LET out == range.lim[fg.tail[e]] >= range.lim[fg.head[e]]
        v   == IF out THEN fg.head[e] ELSE fg.tail[e]
    IN  EnterSearch(out, r, v, <<v>>, 0)

\* rerank: the nodes it visits from v.
RECURSIVE RerankReach(_)
RerankReach(v) ==
    {v} \cup UNION {RerankReach(Other(fg, v, e)) :
                        e \in ToSet(tree.out[v] \o tree.in[v]) \ {range.par[v]}}

rerank(r, v, delta) ==
    LET moved == RerankReach(v) IN [n \in DOMAIN r |-> IF n \in moved THEN r[n] - delta ELSE r[n]]

Degree(v) == Len(tree.in[v]) + Len(tree.out[v])

Reranked_Swapped(e, f) ==
    LET delta == Slack(rank, f)
        t == fg.tail[e]
        h == fg.head[e]
    IN  IF delta <= 0 THEN rank
        ELSE IF range.lim[t] < range.lim[h] THEN rerank(rank, h, delta)
        ELSE rerank(rank, t, -delta)

\* The ranks after update(e, f).
Reranked(e, f) ==
    LET delta == Slack(rank, f)
        t == fg.tail[e]
        h == fg.head[e]
    IN  IF delta <= 0 THEN rank
        ELSE IF Degree(t) = 1 THEN rerank(rank, t, delta)
        ELSE IF Degree(h) = 1 THEN rerank(rank, h, -delta)
        ELSE IF range.lim[t] < range.lim[h] THEN rerank(rank, t, delta)
        ELSE rerank(rank, h, -delta)

Higher(e) == IF range.lim[fg.tail[e]] > range.lim[fg.head[e]] THEN fg.tail[e] ELSE fg.head[e]

RECURSIVE TreeUpdate_OneWay(_, _, _, _, _)
TreeUpdate_OneWay(c, v, w, cutvalue, dir) ==
    IF SEQ(range.low[v], range.lim[w], range.lim[v]) THEN [cut |-> c, top |-> v]
    ELSE LET e == range.par[v]
         IN  TreeUpdate_OneWay([c EXCEPT ![e] = IF v = fg.tail[e] THEN @ + cutvalue ELSE @ - cutvalue],
                               Higher(e), w, cutvalue, dir)

\* treeupdate: up from v to the first node whose subtree has w.
RECURSIVE TreeUpdate(_, _, _, _, _)
TreeUpdate(c, v, w, cutvalue, dir) ==
    IF SEQ(range.low[v], range.lim[w], range.lim[v]) THEN [cut |-> c, top |-> v]
    ELSE LET e == range.par[v]
             d == (v = fg.tail[e]) = dir
         IN  TreeUpdate([c EXCEPT ![e] = IF d THEN @ + cutvalue ELSE @ - cutvalue],
                        Higher(e), w, cutvalue, dir)

RECURSIVE InvalidatePath_Below(_, _, _)
InvalidatePath_Below(p, lca, v) ==
    IF p.low[v] = -1 \/ range.lim[v] >= range.lim[lca] THEN p
    ELSE InvalidatePath_Below([p EXCEPT !.low[v] = -1], lca, Higher(range.par[v]))

\* invalidate_path: up from v to the lca, which it must not skip.
RECURSIVE InvalidatePath(_, _, _)
InvalidatePath(p, lca, v) ==
    LET q == [p EXCEPT !.low[v] = -1]
        e == range.par[v]
    IN  IF p.low[v] = -1 THEN p
        ELSE IF e = 0 THEN q
        ELSE IF range.lim[v] >= range.lim[lca] THEN [q EXCEPT !.skipped = @ \/ v # lca]
        ELSE InvalidatePath(q, lca, Higher(e))

\* One round of the loop of rank2: leave_edge, enter_edge, update.
Pivot ==
    /\ stage = "pivot"
    /\ leave_edge.edge # 0
    /\ LET e  == leave_edge.edge
           f  == enter_edge(rank, e)
           up == TreeUpdate(cut, fg.tail[f], fg.head[f], cut[e], TRUE)
           dn == TreeUpdate(up.cut, fg.head[f], fg.tail[f], cut[e], FALSE)
           path == InvalidatePath(InvalidatePath([low |-> range.low, skipped |-> FALSE], up.top, fg.head[f]),
                                  up.top, fg.tail[f])
           t  == exchange_tree_edges(tree, e, f)
       IN  IF f = 0 \/ up.top # dn.top
           THEN /\ trouble' = trouble \cup {"enter_edge or lca"}
                /\ stage' = "returned"
                /\ result' = 2
                /\ UNCHANGED <<rank, tree, range, cut, S_i, iter>>
           ELSE /\ rank' = Reranked(e, f)
                /\ cut' = [dn.cut EXCEPT ![f] = -cut[e], ![e] = 0]
                /\ tree' = t
                /\ range' = DfsRange(t, [range EXCEPT !.low = path.low], up.top, range.par[up.top],
                                     range.low[up.top], TRUE)
                /\ S_i' = leave_edge.S_i
                /\ iter' = iter + 1
                /\ stage' = IF iter + 1 >= how.maxiter THEN "balance" ELSE "pivot"
                /\ trouble' = IF path.skipped THEN trouble \cup {"invalidate_path"} ELSE trouble
                /\ UNCHANGED result
    /\ UNCHANGED <<fg, virtual, nlist, how, pool>>

Optimal ==
    /\ stage = "pivot"
    /\ leave_edge.edge = 0
    /\ stage' = "balance"
    /\ S_i' = leave_edge.S_i
    /\ UNCHANGED <<fg, virtual, nlist, how, rank, tree, range, cut, pool, iter, result, trouble>>

----------------------------------------------------------------------------
(* scan_and_normalize, TB_balance, LR_balance                              *)

Normal == Nodes \ virtual

normalized(r) ==
    LET least == Min({r[n] : n \in Normal})
    IN  [n \in DOMAIN r |-> IF n \in Nodes THEN r[n] - least ELSE r[n]]

Return(r) == /\ rank' = r
             /\ stage' = "returned"
             /\ result' = 0
             /\ UNCHANGED <<fg, virtual, nlist, how, tree, range, cut, pool, S_i, iter>>

Normalize ==
    /\ stage = "balance"
    /\ how.balance = 0
    /\ Return(normalized(rank))
    /\ UNCHANGED trouble

SumOf(f, seq) == FoldLeft(LAMBDA s, e : s + f[e], 0, seq)

\* The ranks between which n may move while no edge gets too short.
Least(r, n)    == FoldLeft(LAMBDA m, e : Max({m, r[fg.tail[e]] + fg.minlen[e]}), 0, fg.in[n])
Most(r, n, top) == FoldLeft(LAMBDA m, e : Min({m, r[fg.head[e]] - fg.minlen[e]}), top, fg.out[n])

\* With TBbalance, sources go to the first rank, or sinks to the last.
Pulled(r, top) ==
    [n \in DOMAIN r |-> IF n \notin Normal THEN r[n]
                       ELSE IF how.TBbalance = "min" /\ fg.in[n] = <<>> THEN 0
                       ELSE IF how.TBbalance = "max" /\ fg.out[n] = <<>> THEN top
                       ELSE r[n]]

\* The rank of `low..high' that the loop over nrank takes.
LeastPopulated(nrank, low, high) ==
    FoldLeft(LAMBDA c, i : IF nrank[i] < nrank[c] THEN i ELSE c, low, [k \in 1..(high - low) |-> low + k])

\* One node of the loop of TB_balance.
TBmove(acc, n, top) ==
    LET low  == Least(acc.rank, n)
        high == Most(acc.rank, n, top)
        here == acc.rank[n]
        to   == CASE how.TBbalance = "min" -> low
                  [] how.TBbalance = "max" -> high
                  [] OTHER -> LeastPopulated(acc.nrank, low, high)
    IN  IF n \in virtual \/ SumOf(fg.weight, fg.in[n]) # SumOf(fg.weight, fg.out[n]) THEN acc
        ELSE IF how.TBbalance = "none" /\ ({low, here} \cup low..high) \ (0..top) # {}
        THEN [acc EXCEPT !.wild = TRUE]
        ELSE [acc EXCEPT !.rank[n] = to,
                         !.nrank = IF how.TBbalance # "none" THEN @
                                   ELSE [i \in DOMAIN @ |-> @[i] + (IF i = to THEN 1 ELSE 0)
                                                                 - (IF i = here THEN 1 ELSE 0)]]

\* qsort orders nodes of one rank as it likes.
SortedNodes(r) ==
    {s \in SetToSeqs(Nodes) : \A i, j \in DOMAIN s :
        i < j => IF how.TBbalance = "max" THEN r[s[i]] >= r[s[j]] ELSE r[s[i]] <= r[s[j]]}

TB_balance ==
    /\ stage = "balance"
    /\ how.balance = 1
    /\ LET r0  == normalized(rank)
           top == Max({r0[n] : n \in Normal})
           r1  == Pulled(r0, top)
           nrank == [i \in 0..top |-> Cardinality({n \in Normal : r1[n] = i})]
       IN  \E order \in SortedNodes(r1) :
               LET done == FoldLeft(LAMBDA a, n : TBmove(a, n, top),
                                    [rank |-> r1, nrank |-> nrank, wild |-> FALSE], order)
               IN  /\ Return(done.rank)
                   /\ trouble' = IF done.wild THEN trouble \cup {"nrank"} ELSE trouble

LRmove_AnyCut(r, e) ==
    LET f     == enter_edge(r, e)
        delta == Slack(r, f)
    IN  IF f = 0 \/ delta <= 1 THEN r
        ELSE IF range.lim[fg.tail[e]] < range.lim[fg.head[e]] THEN rerank(r, fg.tail[e], delta \div 2)
        ELSE rerank(r, fg.head[e], -(delta \div 2))

\* A tree edge of cut value 0 lets its subtree move half of the way.
LRmove(r, e) ==
    LET f     == enter_edge(r, e)
        delta == Slack(r, f)
    IN  IF cut[e] # 0 \/ f = 0 \/ delta <= 1 THEN r
        ELSE IF range.lim[fg.tail[e]] < range.lim[fg.head[e]] THEN rerank(r, fg.tail[e], delta \div 2)
        ELSE rerank(r, fg.head[e], -(delta \div 2))

LR_balance ==
    /\ stage = "balance"
    /\ how.balance = 2
    /\ Return(FoldLeft(LRmove, rank, tree.edge))
    /\ UNCHANGED trouble

NSNext == \/ InitGraph \/ FindTightSubtrees \/ MergeTrees \/ InitCutvalues
          \/ Pivot \/ Optimal \/ Normalize \/ TB_balance \/ LR_balance

----------------------------------------------------------------------------
(* Properties                                                              *)

\* ns.c numbers the tree by a walk from its root: the subtree of v holds the numbers low..lim.
\* dfs_range renumbers only the paths that invalidate_path marked; membership tests
\* in enter_edge, treeupdate and x_val rest on what it skipped.
Below(v) == IF range.par[v] = 0 THEN TreeReach(v, 0) ELSE TreeReach(v, Other(fg, v, range.par[v]))

RangesNested ==
    stage = "pivot" =>
        \A v \in Nodes : {range.lim[w] : w \in Below(v)} = range.low[v]..range.lim[v]

\* The cut value of a tree edge, kept by treeupdate, is what its definition gives: the
\* weight of the edges from the side of its tail to the side of its head less that of the others.
CutvaluesExact ==
    stage = "pivot" =>
        \A e \in ToSet(tree.edge) :
            LET side == TreeReach(fg.tail[e], fg.head[e])
                Across(x) == fg.weight[x] * CASE fg.tail[x] \in side /\ fg.head[x] \notin side -> 1
                                              [] fg.tail[x] \notin side /\ fg.head[x] \in side -> -1
                                              [] OTHER -> 0
            IN  cut[e] = FoldSet(LAMBDA x, sum : sum + Across(x), 0, Edges)

\* update takes the rerank branch of a leaf, and the leaf is where the numbering starts.
RootIsLeaf(e) ==
    LET leaf == IF Degree(fg.tail[e]) = 1 THEN fg.tail[e] ELSE fg.head[e]
    IN  Degree(leaf) = 1 /\ range.par[leaf] = 0

\* A pivot moves one side of the tree by the slack of the entering edge, so a tight tree
\* stays tight and no edge gets too short.  If the side is a leaf at which the numbering
\* starts, rerank goes through every tree edge, for ND_par is null there: then the whole tree
\* must move, by one distance, and not a part of it.
PivotKeepsTight ==
    [][(stage = "pivot" /\ leave_edge.edge # 0)
       => /\ Feasible(rank) => Feasible(rank')
          /\ IF RootIsLeaf(leave_edge.edge)
             THEN \A e \in Edges : Slack(rank', e) = Slack(rank, e)
             ELSE (\A e \in ToSet(tree.edge) : Slack(rank, e) = 0)
                  => \A e \in ToSet(tree'.edge) : Slack(rank', e) = 0]_nsvars

Length(r) == FoldSet(LAMBDA e, sum : sum + fg.weight[e] * (r[fg.head[e]] - r[fg.tail[e]]), 0, Edges)

\* No pivot makes the drawing longer, and no balancing without TBbalance, which may:
\* LR_balance goes on with cut values and a tree that its own moves have left behind,
\* TB_balance with counts it updates itself.
LengthNeverRises ==
    [][(stage \in {"pivot", "balance"} /\ how.TBbalance = "none") => Length(rank') <= Length(rank)]_nsvars

\* When the loop ends, no set of nodes can go up a rank and save length without making an
\* edge too short; the length is an L-natural convex function, so no other ranks are better.
NoCheaperShift ==
    (stage = "balance" /\ leave_edge.edge = 0 /\ \A e \in ToSet(tree.edge) : Slack(rank, e) = 0)
        => \A S \in SUBSET Nodes :
               LET up == [n \in DOMAIN rank |-> IF n \in S THEN rank[n] - 1 ELSE rank[n]]
               IN  Feasible(up) => Length(up) >= Length(rank)

\* The loop ends: no spanning tree comes back, so there are no more rounds than trees.
\* leave_edge resumes where it stopped and pivots of slack 0 save nothing.
RoundsBounded ==
    stage = "pivot" => iter <= Cardinality(kSubset(Cardinality(Nodes) - 1, Edges))

RECURSIVE Reached(_)
Reached(S) ==
    LET more == S \cup {Other(fg, n, e) : <<n, e>> \in
                            {p \in S \X Edges : p[1] \in {fg.tail[p[2]], fg.head[p[2]]}}}
    IN  IF more = S THEN S ELSE Reached(more)

\* rank2 gives up exactly on a graph in parts; position.c then ties them together and tries
\* again, and asserts that this works.
FailsOnlyIfApart ==
    [][(stage # "returned" /\ stage' = "returned")
       => (result' = 1) = (Reached({Head(nlist)}) # Nodes)]_nsvars

\* No message of ns.c but that of an overflow, no access out of bounds, no null pointer:
\* init_rank meets no cycle, add_tree_edge gets edges that are not in the tree, enter_edge
\* finds an edge, both sides of update meet, invalidate_path comes to the lca, TB_balance
\* counts within its array of ranks, cluster_leader finds a leader.
NoTrouble == trouble = {}
=============================================================================
