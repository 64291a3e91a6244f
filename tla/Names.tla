------------------------------- MODULE Names -------------------------------
(***************************************************************************)
(* Names, IDs and shared strings of a graph hierarchy (lib/cgraph/id.c,    *)
(* imap.c, refstr.c, and the callers in graph.c, subg.c, node.c, obj.c).   *)
(* The ID of a named object is the address of its shared, counted string;  *)
(* that of an unnamed one is an odd number; and a name that begins with `%'*)
(* (Local) gets an odd number that the hierarchy's internal map remembers. *)
(*                                                                         *)
(* A label is a text with a mark, whether it is HTML-like: the string      *)
(* dictionary holds at most one string of each label.  A string's address  *)
(* is 2 times a number that no string has.                                 *)
(*                                                                         *)
(* A subgraph is looked up in a set of its parent's, ordered by ID, which  *)
(* renaming one of them puts out of order.  Here a search answers what the *)
(* set holds if callers avoid that (OnlyChildren), and anything if not;    *)
(* NameTrees has the trees themselves, and implements this module.         *)
(*                                                                         *)
(* X_Y, just before X, is X with a mistake: no specification uses it.      *)
(***************************************************************************)
EXTENDS Integers, FiniteSets, Functions, TreeWalk

CONSTANTS
    NULL,
    Text, Local,        \* the names in use, and those among them that begin with `%'
    Html,               \* the texts that callers also use as HTML-like strings
    Node, Graph, root,  \* addresses of nodes and graphs, and the main graph
    MaxAnonymous,       \* bound on odd IDs
    MaxCount,           \* bound on the references to a string
    OnlyChildren        \* callers rename no subgraph that has siblings

ASSUME NamesConstants ==
    /\ Local \subseteq Text /\ Html \subseteq Text \ Local
    /\ root \in Graph
    /\ NULL \notin Graph \cup [text : Text, html : BOOLEAN]
    /\ {MaxAnonymous, MaxCount} \subseteq Nat
    /\ OnlyChildren \in BOOLEAN

VARIABLES
    w,       \* the string dictionary (addr, refcnt of a label), id.c's counter, and
             \* the internal map: for each type of object, the IDs of Local names
    node,    \* the nodes: AGID, and (history) the label given last
    graph,   \* the graphs: likewise, with the parent
    held,    \* the labels of which a caller holds a reference by agstrdup
    leaked,  \* history: a call left a reference to a string without a user
    forgot   \* history: the internal map lost a name in use

vars == <<w, node, graph, held, leaked, forgot>>

Type == {"node", "graph"}

Label == [text : Text, html : {FALSE}] \cup [text : Html, html : {TRUE}]

IsLocal(l) == l # NULL /\ l.text \in Local

\* f with the value v for x, and f without S.
With(f, x, v) == [y \in DOMAIN f \cup {x} |-> IF y = x THEN v ELSE f[y]]
Without(f, S) == Restrict(f, DOMAIN f \ S)

----------------------------------------------------------------------------
(* Shared strings                                                          *)

FreeAddress(u) ==
    2 * CHOOSE n \in 1..(Cardinality(DOMAIN u.dict) + 1) :
            \A l \in DOMAIN u.dict : u.dict[l].addr # 2 * n

\* agstrdup: one more reference, or a new string.
agstrdup(u, l) ==
    LET string == IF l \in DOMAIN u.dict
                  THEN [addr |-> u.dict[l].addr, refcnt |-> u.dict[l].refcnt + 1]
                  ELSE [addr |-> FreeAddress(u), refcnt |-> 1]
    IN  [u EXCEPT !.dict = With(u.dict, l, string)]

\* agstrbind: the address, or 0.
agstrbind(u, l) == IF l \in DOMAIN u.dict THEN u.dict[l].addr ELSE 0

Released(u, l) ==
    LET string == [addr |-> u.dict[l].addr, refcnt |-> u.dict[l].refcnt - 1]
    IN  IF string.refcnt > 0 THEN [u EXCEPT !.dict = With(u.dict, l, string)]
        ELSE [u EXCEPT !.dict = Without(u.dict, {l})]

\* agstrfree(g, s, false) for the string at address a: it looks the text up as
\* plain, and does nothing if it finds none or another string.
agstrfree(u, a) ==
    LET plain == {l \in DOMAIN u.dict : u.dict[l].addr = a /\ ~l.html}
    IN  IF plain = {} THEN u ELSE Released(u, CHOOSE l \in plain : TRUE)

----------------------------------------------------------------------------
(* IDs                                                                     *)

\* agmapnametoid, with idmap: the ID of a label for an object of type ty, and
\* whether there is one.  An unknown plain name has the ID 0.
agmapnametoid(u, ty, l, create) ==
    CASE l = NULL /\ ~create -> [w |-> u, id |-> 0, ok |-> FALSE]
      [] l = NULL /\ create ->
            [w |-> [u EXCEPT !.counter = u.counter + 1], id |-> 2 * u.counter + 1, ok |-> TRUE]
      [] l # NULL /\ ~IsLocal(l) ->
            LET v == IF create THEN agstrdup(u, l) ELSE u
            IN  [w |-> v, id |-> agstrbind(v, l), ok |-> TRUE]
      [] IsLocal(l) /\ l \in DOMAIN u.map[ty] -> [w |-> u, id |-> u.map[ty][l], ok |-> TRUE]
      [] IsLocal(l) /\ l \notin DOMAIN u.map[ty] /\ ~create -> [w |-> u, id |-> 0, ok |-> FALSE]
      [] IsLocal(l) /\ l \notin DOMAIN u.map[ty] /\ create ->    \* aginternalmapinsert
            LET id == 2 * u.counter + 1
            IN  [w |-> [dict |-> agstrdup(u, l).dict, counter |-> u.counter + 1,
                        map |-> [u.map EXCEPT ![ty] = With(u.map[ty], l, id)]],
                 id |-> id, ok |-> TRUE]

\* A name is looked up, and its ID is made if it has none.
Probe(u, ty, l) == agmapnametoid(u, ty, l, FALSE)
Reserve(u, ty, l) == agmapnametoid(u, ty, l, TRUE)

\* aginternalmapdelete.
aginternalmapdelete(u, ty, id) ==
    LET gone == {l \in DOMAIN u.map[ty] : u.map[ty][l] = id}
        l == CHOOSE k \in gone : TRUE
    IN  IF gone = {} THEN u
        ELSE agstrfree([u EXCEPT !.map[ty] = Without(u.map[ty], {l})], u.dict[l].addr)

agfreeid_MapOnly(u, ty, id) == aginternalmapdelete(u, ty, id)

\* agfreeid, with idfree.
agfreeid(u, ty, id) ==
    LET v == aginternalmapdelete(u, ty, id)
    IN  IF id % 2 = 0 THEN agstrfree(v, id) ELSE v

\* A name that a caller can pass: an HTML-like string is one by its address.
Argument == {l \in Label : l.html => l \in DOMAIN w.dict} \cup {NULL}

----------------------------------------------------------------------------
(* References of callers                                                   *)

CallerDup(l) ==
    /\ ~IsLocal(l) /\ l \notin held
    /\ held' = held \cup {l}
    /\ w' = agstrdup(w, l)
    /\ UNCHANGED <<node, graph, leaked, forgot>>

\* agstrfree with the right mark.
CallerFree(l) ==
    /\ l \in held
    /\ held' = held \ {l}
    /\ w' = Released(w, l)
    /\ UNCHANGED <<node, graph, leaked, forgot>>

----------------------------------------------------------------------------
(* Nodes                                                                   *)

NodeOf(id) == {n \in DOMAIN node : node[n].id = id}

\* A node or graph whose name is HTML-like leaves its reference when it goes.
Leaves(l) == l # NULL /\ l.html

agnode_NoSearch(l) ==
    LET r == Reserve(w, "node", l)
    IN
    /\ \E n \in Node \ DOMAIN node : node' = With(node, n, [id |-> r.id, label |-> l])
    /\ w' = r.w
    /\ UNCHANGED <<graph, held, leaked, forgot>>

\* agnode(g, name, 1) that creates.
agnode(l) ==
    LET probe == Probe(w, "node", l)
        r == Reserve(w, "node", l)
    IN
    /\ ~(probe.ok /\ NodeOf(probe.id) # {})
    /\ \E n \in Node \ DOMAIN node : node' = With(node, n, [id |-> r.id, label |-> l])
    /\ w' = r.w
    /\ UNCHANGED <<graph, held, leaked, forgot>>

\* agdelnode of the main graph.
agdelnode(n) ==
    /\ w' = agfreeid(w, "node", node[n].id)
    /\ node' = Without(node, {n})
    /\ leaked' = (leaked \/ Leaves(node[n].label))
    /\ UNCHANGED <<graph, held, forgot>>

agrelabel_node_LateFree(n, l) ==
    LET probe == Probe(w, "node", l)
        r == Reserve(w, "node", l)
    IN
    /\ ~(probe.ok /\ NodeOf(probe.id) # {})
    /\ node' = With(node, n, [id |-> r.id, label |-> l])
    /\ w' = agfreeid(r.w, "node", node'[n].id)
    /\ leaked' = (leaked \/ Leaves(node[n].label))
    /\ UNCHANGED <<graph, held, forgot>>

\* agrelabel_node(n, name); the search for a node that has the new ID comes
\* after the search for one that has the name, and finds none either.
agrelabel_node(n, l) ==
    LET probe == Probe(w, "node", l)
        r == Reserve(w, "node", l)
    IN
    /\ ~(probe.ok /\ NodeOf(probe.id) # {})
    /\ IF NodeOf(r.id) = {}
       THEN /\ w' = agfreeid(r.w, "node", node[n].id)
            /\ node' = With(node, n, [id |-> r.id, label |-> l])
            /\ leaked' = (leaked \/ Leaves(node[n].label))
       ELSE /\ w' = agfreeid(r.w, "node", r.id)
            /\ UNCHANGED <<node, leaked>>
    /\ UNCHANGED <<graph, held, forgot>>

----------------------------------------------------------------------------
(* Graphs                                                                  *)

Children(g) == {h \in DOMAIN graph \ {root} : graph[h].parent = g}

\* What agfindsubg_by_id may answer, for the ID k in the set of g.
Answers(g, k) ==
    LET found == {h \in Children(g) : graph[h].id = k} IN
    IF ~OnlyChildren THEN Children(g) \cup {NULL}
    ELSE IF found = {} THEN {NULL} ELSE found

\* The subgraph that localsubg opens, its ID reserved under the name.
localsubg(g, l) ==
    LET r == Reserve(w, "graph", l)
    IN
    /\ \E h \in Graph \ DOMAIN graph :
          graph' = With(graph, h, [id |-> r.id, label |-> l, parent |-> g])
    /\ w' = r.w
    /\ UNCHANGED <<node, held, leaked, forgot>>

\* agsubg(g, name, 1) that creates.  A name that has an ID already may be that
\* of a subgraph elsewhere.
agsubg(g, l) ==
    LET probe == Probe(w, "graph", l)
    IN
    /\ l # NULL /\ probe.ok => NULL \in Answers(g, probe.id)
    /\ localsubg(g, l)

\* g and the graphs below it.
Family(g) == Down([h \in DOMAIN graph |-> Children(h)], g, DOMAIN graph)

Remembers == \E ty \in Type : DOMAIN w.map[ty] # {}

\* Closing the internal map drops its entries with the references they hold.
EmptyMap == [ty \in Type |-> <<>>]

\* The graphs of a closed subgraph are gone, and so is the internal map.
Closed(g) ==
    /\ g # root
    /\ graph' = Without(graph, Family(g))
    /\ leaked' = (leaked \/ Remembers \/ \E h \in Family(g) : Leaves(graph[h].label))
    /\ forgot' = (forgot \/ Remembers)
    /\ UNCHANGED <<node, held>>

\* agclose of a subgraph: each of its graphs closes the internal map of the
\* hierarchy and gives its ID back.  A plain string whose address is the ID of
\* several of them loses as many references.
agclose(g) ==
    LET given(l) == IF l.html THEN 0
                    ELSE Cardinality({h \in Family(g) : graph[h].id = w.dict[l].addr})
        stays == {l \in DOMAIN w.dict : given(l) = 0 \/ w.dict[l].refcnt > given(l)}
    IN
    /\ Closed(g)
    /\ w' = [w EXCEPT !.map = EmptyMap,
                      !.dict = [l \in stays |-> [addr |-> w.dict[l].addr,
                                                 refcnt |-> w.dict[l].refcnt - given(l)]]]

\* agrename of a graph is called: its name has an ID, not that of the graph.
Renames(g, l) ==
    LET probe == Probe(w, "graph", l)
    IN  probe.ok /\ probe.id # graph[g].id

\* It fails on a sibling: the ID stays reserved.
KeepName(g, l) ==
    /\ w' = Reserve(w, "graph", l).w
    /\ leaked' = (leaked \/ ~IsLocal(l))
    /\ UNCHANGED <<node, graph, held, forgot>>

\* It gives the old ID back.
ChangeName(g, l) ==
    LET r == Reserve(w, "graph", l)
        par == graph[g].parent
    IN
    /\ g # root /\ OnlyChildren => Cardinality(Children(par)) = 1
    /\ w' = agfreeid(r.w, "graph", graph[g].id)
    /\ graph' = With(graph, g, [id |-> r.id, label |-> l, parent |-> par])
    /\ leaked' = (leaked \/ Leaves(graph[g].label))
    /\ forgot' = (forgot \/ \E h \in DOMAIN graph \ {g} : graph[h].id = graph[g].id
                                                         /\ IsLocal(graph[h].label))
    /\ UNCHANGED <<node, held>>

agrename(g, l) ==
    LET r == Reserve(w, "graph", l)
        sibling == IF g = root THEN {NULL} ELSE Answers(graph[g].parent, r.id)
    IN
    /\ Renames(g, l)
    /\ \/ sibling # {NULL} /\ KeepName(g, l)
       \/ NULL \in sibling /\ ChangeName(g, l)

----------------------------------------------------------------------------
\* agopen(name): the world and the main graph that it begins with.
agopen(l) ==
    LET r == Reserve([dict |-> <<>>, counter |-> 0, map |-> EmptyMap], "graph", l)
    IN  [w |-> r.w, graph |-> [g \in {root} |-> [id |-> r.id, label |-> l, parent |-> NULL]]]

Openings == {agopen(l) : l \in [text : Text, html : {FALSE}] \cup {NULL}}

Init ==
    /\ \E o \in Openings : w = o.w /\ graph = o.graph
    /\ node = <<>>
    /\ held = {}
    /\ leaked = FALSE
    /\ forgot = FALSE

\* agclose of the main graph frees the strings whatever their counts, so that
\* callers must have given theirs back; the next agopen starts afresh.
Reopen ==
    /\ held = {}
    /\ \E o \in Openings : w' = o.w /\ graph' = o.graph
    /\ node' = <<>>
    /\ leaked' = FALSE
    /\ forgot' = FALSE
    /\ UNCHANGED held

Bounded ==
    /\ w'.counter <= MaxAnonymous
    /\ \A l \in DOMAIN w'.dict : w'.dict[l].refcnt <= MaxCount

Next ==
    /\ \/ \E l \in Label : CallerDup(l) \/ CallerFree(l)
       \/ \E l \in Argument :
             \/ agnode(l)
             \/ \E n \in DOMAIN node : agrelabel_node(n, l)
             \/ \E g \in DOMAIN graph : agsubg(g, l) \/ (l # NULL /\ agrename(g, l))
       \/ \E n \in DOMAIN node : agdelnode(n)
       \/ \E g \in DOMAIN graph : agclose(g)
       \/ Reopen
    /\ Bounded

Spec == Init /\ [][Next]_vars

----------------------------------------------------------------------------
(* Properties                                                              *)

\* The users of a string: objects with its address as their ID, entries of the
\* internal map, and callers.
Users(l) ==
    LET a == w.dict[l].addr IN
      Cardinality({n \in DOMAIN node : node[n].id = a})
    + Cardinality({g \in DOMAIN graph : graph[g].id = a})
    + Cardinality({ty \in Type : l \in DOMAIN w.map[ty]})
    + Cardinality(held \cap {l})

\* No string goes while it is the name of an object, an entry of the internal
\* map or in the hands of a caller, through any sequence of creating, renaming,
\* deleting and closing: its address is never that of another string's.
StringsOutliveUsers ==
    /\ \A l \in DOMAIN w.dict : w.dict[l].refcnt >= Users(l)
    /\ \A x \in {node[n] : n \in DOMAIN node} \cup {graph[g] : g \in DOMAIN graph} :
          x.label # NULL /\ ~IsLocal(x.label) =>
              x.label \in DOMAIN w.dict /\ w.dict[x.label].addr = x.id
    /\ \A ty \in Type : DOMAIN w.map[ty] \subseteq DOMAIN w.dict
    /\ held \subseteq DOMAIN w.dict

\* And it goes with its last user, save the references left by names that are
\* HTML-like, by an agrename that fails on a sibling, and by the closing of the
\* internal map with a subgraph.
StringsGoWithUsers == ~leaked => \A l \in DOMAIN w.dict : w.dict[l].refcnt = Users(l)

\* IDs tell the nodes of the hierarchy and the subgraphs of a graph apart; and
\* as long as no name has been forgotten, each is found by the name it was given
\* last, and by no other.
FoundByName ==
    /\ \A m, n \in DOMAIN node : node[m].id = node[n].id => m = n
    /\ \A n \in DOMAIN node :
          LET l == node[n].label IN
          l # NULL /\ (IsLocal(l) => ~forgot) =>
              NodeOf(Probe(w, "node", l).id) = {n}
    /\ \A g \in DOMAIN graph \ {root} :
          LET x == graph[g]
              id == IF x.label = NULL \/ (IsLocal(x.label) /\ forgot) THEN x.id
                    ELSE Probe(w, "graph", x.label).id
          IN  {h \in Children(x.parent) : graph[h].id = id} = {g}
=============================================================================
