----------------------------- MODULE FastGraph -----------------------------
(***************************************************************************)
(* The fast graph of lib/dotgen (fastgr.c): the temporary graph of virtual *)
(* nodes and edges on which dot ranks.  A fast graph is a record: nodes    *)
(* are 1..Len(g.out), edges 1..Len(g.tail), 0 is NULL, and out[n], in[n]   *)
(* are the lists ND_out(n) and ND_in(n).  The edges of the input graph are *)
(* edges of the record that are in no list.  ED_count, ED_xpenalty and     *)
(* the ports are left out: ranking does not read them.                     *)
(*                                                                         *)
(* X_Y, just before X, is X with a mistake: no specification uses it.      *)
(***************************************************************************)
EXTENDS Integers, Sequences, SequencesExt

Slots(g) == 1..Len(g.out)

EmptyFastGraph(nodes) ==
    [tail |-> <<>>, head |-> <<>>, minlen |-> <<>>, weight |-> <<>>, toVirt |-> <<>>, toOrig |-> <<>>,
     out |-> [n \in 1..nodes |-> <<>>], in |-> [n \in 1..nodes |-> <<>>]]

\* The end of e that is not v.
Other(g, v, e) == IF g.tail[e] = v THEN g.head[e] ELSE g.tail[e]

new_edge(g, u, v, len, wt, orig) ==
    [g EXCEPT !.tail = Append(@, u), !.head = Append(@, v),
              !.minlen = Append(@, len), !.weight = Append(@, wt),
              !.toVirt = Append(@, 0), !.toOrig = Append(@, orig)]

fast_edge(g, e) ==
    [g EXCEPT !.out[g.tail[e]] = Append(@, e), !.in[g.head[e]] = Append(@, e)]

\* The hole that e leaves is filled with the last member.
zapinlist(L, e) ==
    LET i == SelectInSeq(L, LAMBDA x : x = e)
    IN  IF i = 0 THEN L ELSE Front([L EXCEPT ![i] = Last(L)])

delete_fast_edge_OutOnly(g, e) == [g EXCEPT !.out[g.tail[e]] = zapinlist(@, e)]

delete_fast_edge(g, e) ==
    [g EXCEPT !.out[g.tail[e]] = zapinlist(@, e), !.in[g.head[e]] = zapinlist(@, e)]

\* ffe searches the shorter of the two lists.
find_fast_edge(g, u, v) ==
    LET uL == g.out[u]
        vL == g.in[v]
        i  == SelectInSeq(uL, LAMBDA e : g.head[e] = v)
        j  == SelectInSeq(vL, LAMBDA e : g.tail[e] = u)
    IN  IF uL = <<>> \/ vL = <<>> THEN 0
        ELSE IF Len(uL) < Len(vL) THEN (IF i = 0 THEN 0 ELSE uL[i])
        ELSE IF j = 0 THEN 0 ELSE vL[j]

\* new_virtual_edge with an original, and fast_edge.
virtual_edge(g, u, v, orig) ==
    LET e  == Len(g.tail) + 1
        g1 == new_edge(g, u, v, g.minlen[orig], g.weight[orig], orig)
        g2 == IF g1.toVirt[orig] = 0 THEN [g1 EXCEPT !.toVirt[orig] = e] ELSE g1
    IN  fast_edge(g2, e)

\* position.c: an edge without original; also virtual_edge(u, v, NULL) with its fields set.
make_aux_edge(g, u, v, len, wt) ==
    LET g1 == new_edge(g, u, v, len, wt, 0) IN fast_edge(g1, Len(g1.tail))

virtual_node(g) == [g EXCEPT !.out = Append(@, <<>>), !.in = Append(@, <<>>)]

\* The edges that rep stands for, through ED_to_virt.
RECURSIVE VirtualChain(_, _)
VirtualChain(g, rep) == IF rep = 0 THEN {} ELSE {rep} \cup VirtualChain(g, g.toVirt[rep])

basic_merge_Weight(g, e, rep) ==
    [g EXCEPT !.weight = [x \in DOMAIN @ |-> IF x \in VirtualChain(g, rep) THEN @[x] + g.weight[e]
                                                                          ELSE @[x]]]

basic_merge(g, e, rep) ==
    [g EXCEPT !.minlen[rep] = Max({@, g.minlen[e]}),
              !.weight = [x \in DOMAIN @ |-> IF x \in VirtualChain(g, rep) THEN @[x] + g.weight[e]
                                                                          ELSE @[x]]]

\* Nothing is done for an edge that is merged already (the warning "merge_oneway glitch").
merge_oneway(g, e, rep) ==
    IF rep = g.toVirt[e] \/ e = g.toVirt[rep] THEN g
    ELSE basic_merge([g EXCEPT !.toVirt[e] = rep], e, rep)

\* acyclic.c: e is replaced by an edge of the other direction, or joins the one that exists.
reverse_edge(g, e) ==
    LET g1 == delete_fast_edge(g, e)
        f  == find_fast_edge(g1, g.head[e], g.tail[e])
    IN  IF f # 0 THEN merge_oneway(g1, e, f) ELSE virtual_edge(g1, g.head[e], g.tail[e], e)
============================================================================
