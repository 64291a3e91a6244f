----------------------------- MODULE MCDotRank -----------------------------
(***************************************************************************)
(* Families of small graphs for DotRank: MCJobs for dot1_rank, MCAux for   *)
(* rank2 as position.c calls it.                                           *)
(***************************************************************************)
EXTENDS DotRank

E(t, h, len, wt) == [tail |-> t, head |-> h, minlen |-> len, weight |-> wt]
U(t, h) == E(t, h, 1, 1)
Of(kind, parent, nodes) == [kind |-> kind, parent |-> parent, nodes |-> nodes]
Job(n, edges, subs) ==
    [nodes |-> n, edges |-> edges, ignored |-> {}, subs |-> subs, labels |-> FALSE, local |-> TRUE,
     TBbalance |-> "none", nslimit1 |-> INT_MAX, searchsize |-> 30]

Few(S, most) == {x \in SUBSET S : Cardinality(x) \in 1..most}

\* Three edges anywhere between three nodes: loops, cycles, parallel edges, several components.
Short == {Job(3, <<U(p[1], p[2]), U(q[1], q[2]), U(r[1], r[2])>>, <<>>) : p, q, r \in (1..3) \X (1..3)}

\* Between any two of four nodes no edge or one of several, of several lengths and weights, all
\* leading forth in the order 3, 1, 4, 2; so that the simplex has something to choose.
Forth == <<<<3, 1>>, <<3, 4>>, <<3, 2>>, <<1, 4>>, <<1, 2>>, <<4, 2>>>>
Weighted(f) ==
    LET all == [i \in DOMAIN Forth |-> E(Forth[i][1], Forth[i][2], IF f[i] = 3 THEN 2 ELSE f[i] % 2, f[i])]
    IN  SelectSeq(all, LAMBDA e : e.weight # 0)
Dags(most) == {Job(4, Weighted(f), <<>>) : f \in [DOMAIN Forth -> 0..most]}

\* A cycle with a chord both ways, and a diamond; what may be done with rank sets.
Bases == {<<U(1, 2), U(2, 3), U(3, 1), U(1, 4)>>,
          <<U(1, 2), U(1, 3), U(2, 4), U(3, 4), U(4, 3)>>,
          <<U(2, 1), E(2, 1, 2, 1), U(4, 3)>>}

\* The rank sets that unite the first rank with the last one are left out.
Sane(subs) ==
    LET Low == {s \in DOMAIN subs : subs[s].kind \in {"min", "source"}}
        High == {s \in DOMAIN subs : subs[s].kind \in {"max", "sink"}}
        RECURSIVE Linked(_)
        Linked(X) == LET hit == {s \in DOMAIN subs : subs[s].kind \in {"same", "min", "source"}
                                                     /\ subs[s].nodes \cap X # {}}
                         more == X \cup UNION {subs[s].nodes : s \in hit}
                     IN  IF more = X THEN X ELSE Linked(more)
    IN  Low = {} \/ Linked(UNION {subs[s].nodes : s \in Low}) \cap UNION {subs[s].nodes : s \in High} = {}

Kinds == {"same", "min", "source", "max", "sink"}
RankSets ==
    {Job(4, es, subs) : es \in Bases,
                        subs \in {x \in {<<Of(k, 0, S), Of(l, 0, T)>> : k, l \in Kinds, S, T \in Few(1..4, 2)} : Sane(x)}}

\* A first or last set whose node a set of another kind has taken before it is named again.
Thrice ==
    {Job(4, es, subs) : es \in Bases,
        subs \in {x \in {<<Of(k, 0, {2}), Of("same", 0, {1, 2}), Of(l, 0, S)>> : k, l \in Kinds, S \in Few(1..4, 2)} :
                     Sane(x)}}

\* Clusters side by side, overlapping and nested, with rank sets within and before them.
Clusters ==
    {Job(4, es, subs) : es \in Bases \cup {<<U(1, 4), U(2, 3), E(3, 1, 1, 2)>>},
        subs \in {<<Of("cluster", 0, S), Of("cluster", 0, T)>> : S, T \in Few(1..4, 3)}
                 \cup {<<Of("cluster", 0, {1, 2, 3}), Of("cluster", 1, T)>> : T \in Few(1..3, 3)}
                 \cup {<<Of(k, 0, S), Of("cluster", 0, T)>> : k \in Kinds, S \in Few({1, 3}, 2), T \in Few(1..4, 3)}
                 \cup {<<Of("cluster", 0, {1, 2, 3}), Of(k, 1, T)>> : k \in Kinds, T \in Few(1..3, 2)}}

\* The attributes of the graph and of edges; a subgraph that is neither rank set nor cluster.
Small == {Job(4, es, subs) : es \in Bases,
            subs \in {<<>>, <<Of("", 0, {1, 2}), Of("same", 1, {1, 2})>>, <<Of("max", 0, {}), Of("sink", 0, {2})>>}}
Flat == {Job(4, Tail(es), <<Of("cluster", 0, S)>>) : es \in Bases, S \in Few(1..4, 3)}
Attributes ==
    {[j EXCEPT !.labels = TRUE] : j \in Small \cup Flat}
    \cup {[j EXCEPT !.local = FALSE] : j \in Small \cup Flat}
    \cup {[j EXCEPT !.TBbalance = b] : j \in Small \cup Dags(2), b \in {"min", "max"}}
    \cup {[j EXCEPT !.nslimit1 = 25] : j \in Small}
    \cup {[j EXCEPT !.searchsize = 1] : j \in Dags(2)}
    \cup {[j EXCEPT !.ignored = {1}, !.edges[1].weight = 0] : j \in Small \cup Flat}

MCJobs == Short \cup Dags(3) \cup RankSets \cup Thrice \cup Clusters \cup Attributes

\* The graph of x coordinates: slack nodes of two edges, separations, start ranks of any kind.
MCAux ==
    {[nodes |-> n, real |-> 3, edges |-> es, rank |-> r, maxiter |-> i, searchsize |-> 30] :
        n \in {5}, i \in {0, 1, INT_MAX}, r \in {<<0, 0, 0, 0, 0>>, <<2, 0, 1, 0, 3>>},
        es \in {<<E(4, 1, 1, 1), E(4, 2, a, b), E(5, 2, 1, b), E(5, 3, 0, 2), E(1, 3, c, 0), E(1, 2, d, 0)>> :
                    a \in {1, 4}, b \in {1, 2}, c \in {1, 3}, d \in {2, 5}}
               \cup {<<E(1, 2, a, 0), E(4, 3, 1, 1), E(5, 3, 2, 1)>> : a \in {1, 3}}}
=============================================================================
