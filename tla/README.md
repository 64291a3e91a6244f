# Graphviz in TLA+

A verification development kept beside the Graphviz sources (`src/`). Graphviz
reads graphs, keeps them in the library *cgraph*, lays them out with one of
several engines and renders the result. The parts worth a state machine are
those that keep linked structures alive through long sequences of calls:
*cgraph* first of all, whose objects are shared by a whole tree of graphs and
freed by hand, and the dictionaries and names it rests on. The layout engines are
mostly floating-point algorithms over a graph that no longer changes. The ranking
of *dot* is the discrete one among them: passes that build, merge, reverse and free a
temporary graph, and a network simplex that keeps its tree, numbering and cut values
up to date in place. It is modelled from end to end.

Every definition is translated from the C code, not from the manual. Where the
manual says something else, the difference is a run of its own (below).

## 1. Inventory

| Component | State it keeps | Operations | What is hard | What makes it correct |
|---|---|---|---|---|
| **Graph hierarchy**: `graph.c subg.c node.c edge.c apply.c obj.c` of `lib/cgraph` | the tree of subgraphs; per graph the nodes by ID and by sequence, the edges in four sets per node; heads and tails; IDs | `agopen agsubg agdelsubg agclose`, `agnode agidnode agsubnode agdelnode`, `agedge agidedge agsubedge agdeledge`, `agrename agrelabel_node agnodebefore` | one object is listed in many graphs; searches and deletions prune the tree on the assumption that subgraphs nest; loops delete from the dictionary they walk | subgraphs nest; an edge's end points are present; nothing listed is freed, nothing allocated is lost; keys stay unique; saved successors stay valid; calls return |
| **Node set by ID**: `node.c`, `graphviz_node_set` | an open-addressed hash table, tombstones, bounds of the IDs seen | new, add (with growth), find, remove, size, free | probing across tombstones, growth by recursive adds, early exits | it is a set keyed by ID |
| **Names and IDs**: `id.c imap.c refstr.c` | reference-counted strings, a counter of anonymous IDs, the map of local (`%`) names | map, allocate, free, print, close | counts shared by all graphs of a hierarchy; addresses of strings serve as IDs; renames that fail half way; one internal map for the hierarchy, closed with any subgraph | each string is referenced as often as it is used; a name finds its object |
| **Callback stack**: `obj.c` 77-233 | a stack of callback sets per graph | push, pop, run on init, update and delete | removal from the middle; methods that push, pop or run the stack again, while the outer run holds entries of it | every set there was when a run began is called, once, in order, and only live entries are read |
| **Attributes and records**: `attr.c rec.c` | per object a circular list of records, one of them locked to the front; per graph a dictionary of declared attributes viewed through its parent | `agbindrec aggetrec agdelrec agattr agxset` | move-to-front against a lock; defaults that subgraphs override | a record is found once; declared attributes reach every object |
| **DOT reader and writer**: `grammar.y scan.l write.c io.c` | a stack of subgraphs being read | parse, write | which nodes the edge statements bring into a subgraph | what it calls with what operands (used as the justification of `LocalOperands`) |
| **Dictionaries**: `lib/cdt` | splay trees and hash chains, detachable roots | search, insert, delete, walk, extract, restore | one dictionary object serves the edge sets of all nodes; keys are fields of the objects and change while they are filed; every search rebuilds the tree | an ordered set; a walk sees the members in order |
| **Containers**: `list.c list.h` of `lib/util`; `lib/rbtree` | a circular buffer and an optional destructor of its items; a red-black tree | append, prepend, set, remove, pop, clear, sort, reverse, sync, reserve, shrink, copy, detach, free | growth of a wrapped buffer; an index and a slot differ once the head moves | a sequence; what it owns is destroyed once; a balanced search tree |
| **Network simplex**: `lib/common/ns.c` | ranks, a spanning tree with its numbering and cut values, a heap of tight subtrees | `rank2`: `init_rank feasible_tree leave_edge enter_edge update`, three balances | numbers and cut values are patched, never recomputed; degenerate pivots; moves made with a tree that earlier moves left behind | the tree's numbers and cut values are exact; no shorter ranking exists; the loop ends |
| **Layered layout, ranking**: `rank.c class1.c acyclic.c decomp.c fastgr.c cluster.c` of `lib/dotgen` | the fast graph of virtual nodes and edges; a union-find of united nodes; rank bounds of graphs and clusters | `dot1_rank`: `collapse_sets class1 minmax_edges decompose acyclic minmax_edges2 rank1 expand_ranksets cleanup1` | each pass undoes or relies on fields of another; lists change while they are walked; clusters are ranked by nested calls | rank sets hold, edges span their length, only cycles are turned, bounds are exact, nothing temporary is left |
| **Layered layout, the rest**: `mincross.c position.c class2.c flat.c dotsplines.c` | orders, coordinates, splines | `mincross position splines` | heuristics and geometry | not modelled |
| **Other layouts**: `neatogen fdpgen sfdpgen circogen twopigen osage patchwork` | coordinates | iterate | numerics | energy decreases: floating point, not modelled |
| **Routing, packing, labels**: `ortho pathplan pack label vpsc sparse` | geometry | route, pack, place | numerics; an R-tree | not modelled |
| **Rendering context**: `lib/gvc` | plugins, jobs, the layout a graph has | layout, render, free | order of calls, re-layout | a layout is freed once and before the next |
| **Languages and formats**: `gvpr expr ast sfio xdot`, plugins, commands, bindings | interpreters, text | | | clients of the calls above |

Interaction: everything goes through *cgraph* calls. The reader turns text into
them; `gvpr` and the tools call them from programs; layouts attach records to
the objects and detach them again. Inside *cgraph*, a call on a graph climbs
to the ancestors (adding) or descends to the descendants (deleting), runs the
callback stack, and keeps names alive in the ID module. One thread is assumed
throughout the library: what interleaves is not threads but *calls*, in any
order a program makes them, and the rounds of two loops that call back into
the operations that modify what they walk.

## 2. Modules

    TreeWalk ── Cgraph ──┬── MCCgraph      (TLC)
                         └── CgraphProofs ── CgraphLoopProofs      (TLAPS)
    NodeTable ──┬── NodeSet ──┬── MCNodeSet                        (TLC)
                │             ├── NodeSetProofs                    (TLAPS)
                │             └── implements ── IdSet
                ├── Relabel ──┬── MCRelabel                        (TLC)
                │             └── RelabelProofs                    (TLAPS)
                └── NodeTableProofs: lemmas, for NodeSetProofs and RelabelProofs
    List ──┬── MCList                                              (TLC)
           ├── ListProofs                                          (TLAPS)
           └── implements ── ListSpec
    SplayTree ──┬── OrderedSets ──┬── MCOrderedSets                (TLC)
                │                 └── implements ── OrderedGraph
                └── NameTrees ──┬── MCNames                        (TLC)
    TreeWalk ── Names ──┬───────┘ (extended and implemented by NameTrees)
                        └── NamesProofs                            (TLAPS)
    CallbackStack ──┬── MCCallbackStack                            (TLC)
                    └── CallbackProofs                             (TLAPS)
    FastGraph ── NetworkSimplex ── DotRank ── MCDotRank            (TLC)

* **`Cgraph`** is the object hierarchy. `nodes[g]` is the content of `g->n_id`
  and `g->n_seq`; `edges[g]` that of the four edge dictionaries, which
  `agdeledgeimage` clears together; `kids[g]` that of `g->g_id` and `g->g_seq`;
  `nodeHeap`, `edgeHeap`, `graphs` are what is allocated. An ID is a name, or
  the object itself when it is anonymous (`id.c` gives each anonymous object an
  ID nobody else has). A call of the library is one action named after the C
  function, with all it does to the hierarchy. Two are not atomic, because what
  they get wrong would be between their rounds: `agclose` (`agclose`,
  `CloseSubg`, `SubgsClosed`, `CloseNode`, `CloseGraph`), whose two loops keep a
  saved successor in `next[g]`, one per nested call; and `agdelnode` of the root
  (`agdelnode`, `DeleteEdge`, `FinishDelete`), whose loop keeps `nextEdge`, also
  when `agclose` calls it. A call that returns without changing anything (an
  object found, a failure) is a stuttering step and not written.
  Dereferencing a missing dictionary entry sets `fault`, after which nothing
  happens: the program is gone.
* **`TreeWalk`** defines the two walks: `Down` is `rec_apply`, which enters a
  subgraph only where its search for the object succeeds; `Up` is the loop (or
  recursion) of `agsubnode`, `installnodetoroot`, `installedge` towards the root,
  which stops at the first graph that already has the object. They are defined
  as least closed sets, so that proofs need no recursion.
* **`NodeTable`** is the hash table of a graph's nodes by ID as a value and its
  probe loops as operators; **`NodeSet`** the operations, the growing insertion
  slot by slot; **`IdSet`** what a caller relies on, the abstract specification
  that `NodeSet` implements with `members <- Stored(table)`.
* **`Relabel`** puts two such tables together: those of a root graph and of a
  subgraph, which file the same nodes and read their IDs through the nodes.
  `agrelabel_node` changes an ID while both tables hold the node. Each graph also
  has its sequence `n_seq[g]`, so that the assertion of `installnode` on the two sizes
  can be stated; once it fails the program has stopped (`Next` requires
  `SizesAgree`, and the run does not check deadlock). The copy loop of a growth, whose
  steps `NodeSet` interleaves with nothing, is here a recursive function (`Copies`). An entry is identified with its
  node; an entry that outlives its node reads any ID, as freed memory may. `Cgraph`
  leaves renaming out: there a node keeps its ID, under which its entries are filed.
* **`List`** is the container the layout libraries use for stacks, queues and vectors.
  The operations of `list.c` are operators on a record like `list_t_`; the macros of
  `list.h`, which combine them with the destructor, are the actions. `open` is what
  AddressSanitizer lets the program touch: growth poisons and unpoisons slots as the
  items before the wrap move. `status` follows the items of a list that owns them.
  `qsort` and `realloc` are external (`LIST_SORT` leaves any ordered arrangement of the values); `LIST_TRY_APPEND` may find no memory to double and
  add one slot. It implements **`ListSpec`**, a sequence, with `items <- Content(list)`.
* **`CallbackStack`** is `g->clos->cb` and the runs through it. An entry is in the domain of `entry` as long as
  it is allocated. `aginitcb` (and its two twins) calls itself on `prev` before it reads a method, so a run
  goes down (`Descend`) and comes back (`Call`, `Return`), and keeps pointers to entries all the while. The client
  acts when no run is under way or from within a method: it pushes, pops, and makes calls that start a
  run of their own (`agmethod`). `installed`, and `top` and `past` of a run, are history that no action
  reads except for the conditions on the caller. Of an entry's `state` nothing depends, and it is left out.
* **`SplayTree`** is the ordered set of `lib/cdt`. `Split` is the loop of `dttree` that takes
  a tree apart around a key, two levels at a time; what each operation then does
  with the parts is an operator named after it. A dictionary is a tree and a count;
  `dtrestore` and `dtextract` put a tree in and take it out, `dtrenew` refiles the root.
  A search gets its key as a function from the objects to the sign of the comparison.
* **`OrderedSets`** is the ordered side of a main graph: `n_seq` and the four edge sets of every
  node (`s.sub[n]`), which two dictionaries serve in turn (`s.e_seq`, `s.e_id`; `Restored`, `Extracted`).
  Keys are read from the nodes and edges at the moment of the search, as in the code, so a call
  that changes one (`agnodebefore`, `agrelabel_node`) can leave a tree out of order. A call is an
  action; the loops in `agdelnode`, `agnodebefore`, `agnedges` and `agcountuniqedges` are recursive
  operators. `failed` holds the assertion that stopped the program, `ret` the last call and
  its answer. It implements **`OrderedGraph`**: a sequence of nodes and a list of edges, in
  which every call has one right answer, with `order` and `edges` computed from the sequence numbers.
* **`Names`** is the string dictionary, the ID discipline and the internal map (`w`), with the
  nodes and graphs that get their IDs from them. The ID of a named object is the address of its
  string, and freed addresses are used again, the least first. `leaked` and `forgot` are
  history: they record the calls after which the code is known to leave a reference without a user
  or to forget a name (below). `Reopen` is the close of the main graph and the next `agopen`.
  A search for a subgraph by ID answers what the parent has (`Answers`), and `agclose` of a
  subgraph counts what its graphs give back together.
* **`NameTrees`** is the same with what the code does in their place: `g_id` holds the subgraphs of
  each graph in a splay tree, in which renaming can lose one, and `agclose` gives one ID back after
  the other. It implements `Names`, so that recursion stays out of the module that is proved about.
* **`FastGraph`** is the temporary graph on which dot ranks, a record with the lists `ND_out` and
  `ND_in`; its operators are the functions of `fastgr.c`, and the record keeps the order of
  the lists, which decides ties later.
* **`NetworkSimplex`** is `rank2`: an action for each stage (`init`, `tight`, `merge`, `pivot`,
  `balance`), for each round of the merging and of the pivoting. Walks are recursive operators
  in the order of the code. Messages and accesses out of bounds go to `trouble`.
* **`DotRank`** is `dot1_rank`, an action for each function it calls, with a run of the simplex for
  each component. `calls` is the stack of calls, one for each cluster under way. The
  other initial states (`InitAux`) are calls of `rank2` alone, as `position.c` makes them.

A definition `X_Y` just before `X` is `X` with a mistake somebody could make. No
specification uses it; replacing `X` by it must make TLC find the property that
`PROJECT.json` names violated.

### What is abstracted

* In `Cgraph`: the order of sequence dictionaries and the hash tables under `n_id`. A loop's
  "next object" is any object of the dictionary, and `NodeSet` shows separately
  that the table is a set. A property of `Cgraph` holds for every order.
* In `Cgraph`, the entry of a node (`Agsubnode_t`) and its detachable trees: an edge
  is in `edges[x]` or not. Where the code looks an entry up and uses it, the model
  checks that it exists (`installedge`) or searches only where it does (`EraseEdge`,
  `EraseNode`). `OrderedSets` has the trees, for the main graph.
* `Names` has labels in place of texts: a name, a name that begins with `%`, and the mark of
  HTML-like strings. `refstr.c`'s hash table is the algorithm of `NodeTable`.
* `DotRank` leaves out what ranking does not read: ports, crossing penalties, drawing attributes.
* Attribute records: another component. In `Cgraph` methods do nothing; `CallbackStack` has them.
* Allocation failures: `gv_alloc` ends the process.
* Callers pass live objects of the same root graph: a graph found from the root,
  a node or edge that the root holds.

### Constants that describe callers

* `LocalOperands`: callers of `agedge` and `agidedge` pass end points that the
  graph they name holds. The DOT reader does: `grammar.y` 406, 473, 526, 530 and 551
  bring a node into the subgraph before the edge. With `FALSE` the end points
  are any nodes of the root, which the interface allows.
* `MayUnlink`: callers use `agdelsubg`.
* `RotatedRemove` (`List`): callers use `LIST_REMOVE` on an owning list whose head is not 0.
* `MovesRarely` (`OrderedSets`): after `agnodebefore` has left a node with a number above the
  counter, callers create and move no node until that node is gone. `MovesFree`: callers move
  and rename only nodes without edges, because neither call refiles the edge sets.
* `OnlyChildren` (`Names`): callers rename no subgraph that has siblings, because `agrename` does
  not refile the parent's set by ID.
* `OnlyTop`: callers of `agpopdisc` name the newest set, and a method does not pop one that a run has still to
  come to. The only caller in the repository is `agclose`, which pops from the top when no run is under
  way. With FALSE they pop any set that is installed. That it is installed is always required: on an
  empty stack the code fails and changes nothing, on another its loop reads through a null pointer.

## 3. Runs

| Run | Question | Answer |
|---|---|---|
| `node_set` | Is the hash table a set keyed by ID, through growth and removal, and are its assertions true? | yes: probe chains are never broken, early exits never hide an item, a growth copies everything and does not recurse deeper than one, an insertion always finds a slot; it implements `IdSet` |
| `cgraph_directed` | Does a hierarchy of a directed graph stay consistent under every sequence of calls? | yes: nesting, end points, no dangling object, no leak, live loop cursors, unique keys, no null entry |
| `cgraph_strict` | Does an undirected strict graph have at most one edge between two nodes, whichever subgraphs are involved and also with `agdelsubg`; and do `agclose` and `agdelnode` return? | yes, as long as edges are not named |
| `edge_of_foreign_nodes` | `agedge` on a subgraph without the end points of an edge the root has | `installedge` uses a null entry; `agsubedge` and `newedge` bring the end points in, `subedge` does not |
| `relabel` | Does renaming leave the tables usable? | the root always finds each node by its ID, and so does a subgraph as long as no node it lists was renamed |
| `relabel_in_subgraph` | The same, for a node that a subgraph lists | no: `dict_relabel` refiles the table of the root only. The subgraph does not find the node, the next `agsubnode` installs it again, and the assertion at `node.c:105` fails. `CHANGELOG.md:852` says the set is no longer corrupted; `gxl2gv` renames nodes it made in subgraphs |
| `ordered_sets` | Do the splay trees of a main graph, with shared dictionaries and keys that change in place, answer like an ordered graph? | yes, under `MovesRarely` and `MovesFree`: every tree is in the order of its keys at every moment, and `OrderedGraph` is implemented |
| `node_before` | The same for the nodes, without `MovesRarely` | no: `agnodebefore(a, b)`, then `agnodebefore(b, a)`, with a node behind them, give that node and the parked one the same number; `dtrenew` drops one, and the assertions of `installnode` fail at the next `agnode` |
| `names` | Is a string kept as long as it is in use, and no longer, and does each name find its object? | yes, under `OnlyChildren`, but for the references and names that `leaked` and `forgot` record; with its splay trees the hierarchy implements `Names`, in which searches simply look |
| `list` | Is `LIST(type)` a sequence, are its storage invariants (`list-private.h:26-32`) kept, does it never poison a live slot, and does a list with a destructor own what it holds? | yes, with `LIST_REMOVE` on an owning list only while its head is 0 (the storage invariants are a part of `IndInv`) |
| `list_remove_rotated` | The same, without that restriction | no: `gv_list_find_` returns the index of the item, `LIST_REMOVE` runs the destructor on the slot of that number. `list-private.h:111` says "Slot index" |
| `dot_rank` | Does dot's ranking end, with the shortest ranks, keeping every rank set, every edge length and every bound, and without a message or a trace of the temporary graph? | yes, for the graphs below |

Bounds. `Cgraph` is checked with a root and two subgraph objects, two nodes,
two edges, one name of each kind (so that named and anonymous objects both
occur, and one name is asked for twice). Two subgraphs are enough for nested
(depth three) and for sibling graphs; two nodes and two edges for parallel
edges, both orientations, a loop next to an ordinary edge and two loops.
Freed objects may be allocated again, so the histories are unbounded.
Subgraphs, nodes and edges are symmetric. `NodeSet` has five items whose IDs
collide modulo 2, 4 and 8, and `InitialCapacity` 2 in place of the `1 << 10` of the
code: the set grows twice, each time with tombstones possible in the old store.
Keys searched for include absent ones below, between and above the items' IDs.

`Relabel` has three nodes, one subgraph and three IDs, all of which collide in a table of
2 slots and two of which in one of 4, so that renaming meets tombstones and a growth.

`List` has three values and storage up to `MaxCapacity` = 5 slots: growth from 1, 2 and 4 by doubling
(to 4 at most) and by one slot, by reservation from any size with the head at any slot.
`MaxCapacity` is the only bound; sizes near `SIZE_MAX` are not modelled. A list that owns its
items holds each once, one that does not may hold a value several times. When a full wrapped
list grows, the code poisons no slot of the gap (`list.c:151` subtracts from the old capacity), against
the comment at `list.c:149`; the model does the same, and no property depends on it.

`OrderedSets` bounds what is ever created, not what is alive at once: three nodes, three edges, and
3 × nodes + 2 × edges at 11. So there are three nodes with one edge, two nodes with two edges, loops and
parallel edges among them, or one node with three loops; two IDs of edges and three of nodes. Addresses
are used again. A tree of three objects takes every branch of `Split`. The run
leaves `ret` out of the states it tells apart (`VIEW View`): no action reads it, and the
refinement is checked on every step.

`Names` has two nodes, two subgraphs, the names `a`, `%c` and the HTML-like `a`, two anonymous IDs
(`MaxAnonymous`) and up to two references to a string (`MaxCount`), so that every kind of object
can have every kind of name, two objects one string, and a name a free address. Nodes and
subgraphs are symmetric.

`dot_rank` goes through some 16000 graphs (`MCDotRank`): all graphs of three nodes and three edges;
the acyclic ones of four nodes with lengths and weights; two rank sets of every kind on three
bases with cycles, chords and parallel edges, and three where a `same` set takes the node of the first
before the third may name it again (`UF_union` of a node with itself looks up no root,
`utils.c:116`); clusters beside, over and in each other and with
rank sets; edge labels, `clusterrank`, `TBbalance`, `nslimit1`, `searchsize` and ignored edges; and
the graphs of x coordinates. Each takes a dozen steps or two. Left out are inputs for which the code is
known to do otherwise:

* rank sets visited after a cluster that overlaps them, and overlaps when `clusterrank` is not
  `local`: `collapse_sets` and `find_clusters` unite their nodes in an order that breaks the set
  (`rank.c:365-372` looks for `CLUSTER` where nothing sets it);
* a `min` set linked with a `max` set by common nodes, which the code unites in one rank;
* `TBbalance` in a graph with clusters: `TB_balance` moves nodes after ranks were normalised
  (`ns.c:776`), and with `max` no node of a cluster may be left on rank 0, where `cluster_leader` looks
  for one and asserts that it found it (`rank.c:309`);
* `nslimit1` small enough for no round at all in a cluster: `rank2` returns before it normalises, to the
  same effect.

`PivotKeepsTight` asks something else of a pivot on a leaf at which the numbering starts. There `update`
(`ns.c:671`) calls `rerank`, which goes through every tree edge but `ND_par`; it is null,
the whole tree moves, and the edge that enters is not tight. The property then asks that every
edge keeps its slack, and in every pivot that ranks stay feasible; `NoCheaperShift` is asked only
where the tree ended tight.

`NoTrouble` covers the messages of `ns.c` (`init_rank`, `add_tree_edge`, `invalidate_path`, `update`) but for
that of a sum of weights above `INT_MAX` (`ns.c:1015-1025`): weights are small numbers here. What follows a refused `add_tree_edge` is modelled too, up to the 2 that `rank2` returns.

Deadlock is checked in every run except those of `Relabel` and `dot_rank`: a program can always make
another call. In `Relabel` it stops at a failed assertion; a ranking ends.

`CallbackStack` is not among the runs: what they would show is proved (section 4). Its configurations
answer when called by hand with `MCCallbackStack`, with two sets of callbacks, one of them without a method for
one of two kinds of events, three entries that are allocated again and again, and a run within a method of
another (`MaxNested`):

* `CallbackStack.cfg`: `StackHolds`, under `OnlyTop`, in 10599 states;
* `PopBelowTop.cfg`: without `OnlyTop`, `agpopdisc` of a set below the top, which `Agraph.tex:738` allows,
  frees the entry above, and that stays linked. No caller in the repository does it;
* `TopDown.cfg`: methods are not called top-down, as `cgraph.h:376` says, but the set pushed first comes first.

Fairness. Only `cgraph_strict` assumes any (`FairSpec`): weak fairness of `Step`, the rounds of
a call in progress. The library is called by one thread and a call that started
runs without waiting for anything, so its next round comes.

## 4. Proofs

Each theorem holds for every value of the constants, under the assumptions that the
module it is about declares (`Objects`, `Kind` in `Cgraph`; `TableConstants`, and those of
`NodeSet` and `Relabel`; `ListConstants`; `NamesConstants`) and the one named in the table. Unless it says
otherwise the statement is `Spec => []` of the property.

| Module | Theorem | Property | Assumed |
|---|---|---|---|
| `CgraphProofs` | `Inductive` | `IndInv` | |
| | `TypeCorrect` | `TypeOK` | |
| | `SubgraphsNested` | `Nested` | |
| | `EdgesHaveEndpoints` | `EndpointsPresent` | |
| | `NothingDangles` | `NoDangling` | |
| | `IdsUnique` | `KeysUnique` | |
| | `TreeAgrees` | `ListedAgree` | |
| | `NoFault` | `NoNullDereference` | `LocalOperands` |
| `CgraphLoopProofs` | `LoopsHold` | `LoopsOK` | |
| | `CursorsStayLive` | `CursorsLive` | |
| | `NothingLeaks` | `NoLeak` | |
| | `StrictIsStrict` | `AtMostOneEdge` | `EdgeName = {}` |
| `NodeSetProofs` | `Inductive` | `IndInv` | |
| | `ChainsUnbroken` | `ChainsIntact` | |
| | `BoundsHold` | `BoundsCover` | |
| | `CopyDoesNotGrow` | `CopyNeverGrows` | |
| | `SlotFound` | `SlotAvailable` | |
| | `Implements` | `Spec => ImplementsIdSet` | |
| `RelabelProofs` | `Inductive` | `IndInv` | |
| | `RootFinds` | `RootFindsAll` | |
| | `SubgraphFinds` | `ListedIsFound` | |
| `ListProofs` | `Inductive` | `IndInv` | |
| | `TypeCorrect` | `TypeOK` | |
| | `ItemsOpen` | `LiveOpen` | |
| | `Ownership` | `OwnsWhatItHolds` | `~RotatedRemove` |
| | `Implements` | `Spec => ImplementsListSpec` | |
| `NamesProofs` | `Inductive` | `IndInv` | |
| | `NoStringGoesEarly` | `StringsOutliveUsers` | |
| | `NoStringStays` | `StringsGoWithUsers` | |
| | `NamesFind` | `FoundByName` | `OnlyChildren` |
| `CallbackProofs` | `Inductive` | `IndInv` | `OnlyTop`, `CallbackConstants` |
| | `StackIntact` | `StackHolds` | `OnlyTop`, `CallbackConstants` |

`CallbackConstants` gives the constants of `CallbackStack` their types, with NULL no address. The five
others say how the library is called, and each is needed. Without `LocalOperands`
the run `edge_of_foreign_nodes` finds the fault; without `~RotatedRemove` the run
`list_remove_rotated` finds the wrong item destroyed, and without `OnlyTop` `PopBelowTop.cfg`
a link to freed memory; with edge names a strict graph may
have two edges between two nodes (section 5); and without `OnlyChildren` the answers of the tree
of subgraphs are any (`Answers`), so that two siblings may come to have one ID. The other theorems hold whatever these
constants are. `newedge` brings in the end points that its caller took from elsewhere
(`NewEdgeSafe`), so `NoLeak` does not depend on them; and a list whose callers use
`LIST_REMOVE` at any head still keeps its shape, its open slots and its sequence: only the
choice of the item to destroy is wrong.

TLC checks the inductive invariant of `List` in `list`. Those of the other modules have no run of
their own: their runs check what follows from them. They can be added as an INVARIANT (to
`CgraphDirected.cfg`, `NodeSet.cfg`, `Relabel.cfg`, `CallbackStack.cfg` and, with a specification of
`Names` and a range for `Addresses`, to `Names.cfg`), and hold there.

### The hierarchy

None of the properties is inductive alone, and they need each other:

* `Nested` is disturbed by insertions that stop climbing at the first graph that
  has the object, which is right only because of `Nested` itself; `installedge`
  recognises an edge by its key, so `Nested` also needs `KeysUnique`.
* `agdelnodeimage` finds the edges of a node through the node's entry, so that a
  deleted node leaves no edge behind only if `EndpointsPresent`.
* `NoDangling` needs `Nested`: deletions prune the walk where the object is absent.
* Graphs in the middle of `agclose` must be told from those that are not: `ClosingOK`
  says that they are listed, that each loop's saved subgraph is listed and not
  yet being closed, and that all calls in progress come from one. Lemma `OpenBelow`
  derives that nothing below an open graph is being closed.

`CgraphProofs` is laid out accordingly: facts about the walks (`DownClosed`, `DownLeast`,
`UpClosed`, `UpLeast` and what they say of listed graphs), type correctness, what an
insertion does (`NodesEntered`, `EdgeEntered`), what a deletion does
(`EraseEdgeEffect`, `EraseNodeEffect`), the tree operations, the steps of
`agclose`, then `Invariance` with one case per action.

`CgraphLoopProofs` goes on from there. A loop that has no successor left must have done its
work: no edge of the doomed node is in the root when `nextEdge` is `NULL`, and a
loop over nodes without a successor has left at most the doomed node. `LoopsOK` says so, and
that the `agdelnode` under way runs alone or inside the `agclose` of the root, which has saved
another node. `NoLeak` follows: the last
step of `agdelnode` frees a node that no edge in the root needs any more, and `agclose` frees the root
when it is empty. `AtMostOneEdge` needs from `IndInv` that an edge a subgraph lists is in the
root, because `agedge` probes the root before it makes one.

### The hash table

`NodeTableProofs` has what the loops do to one table, whichever module runs them. `TableOK`
joins five facts that hold together or not at all: the store has the shape of its capacity
(`IsTable`), `size` counts the items and each has one slot (`Sized`), their IDs differ (`Distinct`), no probe chain is
broken (`Reachable`), the bounds enclose them (`Covers`). `ProbeIn`, `ProbeOnce` and `ProbeOnto` say that
a probe sequence visits every slot once; then an insertion finds a slot (`RoomLeft`, `FirstFree`),
keeps `TableOK` and adds one item (`PutOK`), `Find` finds exactly what is stored (`FindOK`), and a
removal keeps `TableOK`, because a tombstone is not an empty slot (`RemovedOK`).

In `NodeSet` the inductive invariant is `TableOK` of both tables, with `CopyOK` (the new
table is at least twice as large and holds what the slots passed so far held, so that 70% is out of reach:
`CopyDoesNotGrow`) and `PlaceOK` (the pending ID is absent and there is room: `SlotFound`). In
`Relabel` each table is sound for the IDs its nodes have *now*, the table of the subgraph
only while no node of it was renamed; `SameIds` says that a table does not notice when an ID
changes of a node it does not hold, which is why the node must be out of the table at
the moment of the assignment in `dict_relabel`.

### The list

`IndInv` of `List` has the shape of the record, that live slots are open and hold items, and
ownership stated on the sequence `Content(list)`: what the list owns is what is in it, each once.
Stated on slots it would have to follow every move of storage; on the sequence the operations
that only move storage do not disturb it. Each operation has a lemma that says what
fields it leaves (`...Fields`), one that says which sequence the new record holds (`...Holds`), and
the step lemmas and the refinement of `ListSpec` both follow from the second.

### Names and counts

`StringsOutliveUsers` counts the users of a string by its address, which is what the code compares.
A proof by addresses would go in a circle: an address means a label only as long as the string stays,
and it stays because of the count. So `IndInv` counts by label (`CountsOK`): for a plain label the nodes
and graphs that were given it and a caller that holds it, for a local one its entries in the
internal map. A step changes these numbers by what it does to one object (`NamedWith`, `NamedWithout`,
`NamedChange`), and the references by what it does to one string (`Dup`, `Release`, and from them
`ReserveId` and `FreeId`, which say what `agmapnametoid` and `agfreeid` do to a world). Beside the counts
`IndInv` has

* `WorldOK`: addresses are even and differ, IDs of the internal map are odd, below the counter, and differ;
* `ObjectsOK`: the ID of an object is the address of its label's string, or odd, or that of its entry;
* `NodesApart`, and `SiblingsApart` under `OnlyChildren`.

After a step that gives references back, an object keeps its ID because the count that remains covers
it (`ObjectsRemain`): the order in `agrelabel_node` and `agrename`, new ID first, is what this needs.
A new address is found among one more numbers than there are strings (`AddressFree`, by the
pigeonhole principle) and a new odd number is below no counter so far (`NewId`). `agclose` gives
back as many references of a string as closed graphs have its address; they have its label, unless it
is local (`IdIsAddress`), so the count it leaves is never negative. `UsersAreOwners` at the end turns labels
into addresses again: there is one user by address for each by label. Local names lead to their objects until a
name is forgotten, which `forgot` records.

The theorems are about `Names`. That the hierarchy with its splay trees implements it is checked by
`names` and not proved, because `SplayTree` is recursive.

### The callback stack

`StackHolds` says that the links (`entry`, `cb`) spell out `installed`, the history of pushes and pops, and
that what a run holds on the C stack (`todo`, `due`) is a stretch of the same history: going down, from the
top there was when it began (`top`), and coming back, from the number of entries it is past. Said this way a
push does not disturb a run, because the history only grows at its end; and a pop does not, because it takes
away one entry that no run is yet to read (`Pop`). `IndInv` adds that addresses in the history differ
(`EntriesApart`; without it a free would take two entries away) and that only the innermost run can be on
its way down (`RunsWait`), where no method is executed and so nobody pushes or pops.

### What stays with TLC

* Liveness under fairness and `ENABLED`: `CallsReturn` in `cgraph_strict`.
* Modules with RECURSIVE operators, for which the prover has no arithmetic:
  `SplayTree`, `OrderedSets`, `NameTrees`, `FastGraph`, `NetworkSimplex`, `DotRank`. They follow recursive
  walks of the code whose order matters. So every property of `ordered_sets` and `dot_rank`, and the
  refinements of `OrderedGraph` and `Names`, are checked and not proved.
* What a recursive definition computes for every input, in general: the library's induction theorems
  cannot be instantiated by the installed provers. Two such facts were needed and proved
  another way. The walks of the hierarchy are least closed sets in place of recursions; and
  for the recursive function `Copies`, `NodeTableProofs` derives that a set of naturals has a least member
  (`LeastNat`, from the well-foundedness of inclusion of finite sets) and from it induction over a
  set of numbers (`Induction`), which takes no operator as a parameter.

## 5. Not modelled

See `PROJECT.json`, "components", for each part and the reason. In short: floating-point
layout and routing, text formats, plugin loading, interpreters and command
lines have no small discrete state to explore.
"hazards" lists what is hard to test, at its line, also where no module covers it yet; where the
code goes wrong and a property leaves the case out, the hazard has a note and no property.

Known departures of the code from its documents or assertions that the models leave out
by a constant or a bound, beside those that have a run in section 3:

* a strict graph may get two edges between two nodes if both are named
  (`cgraph.3:186`, "at most one edge", against `edge.c:229`, which searches one orientation);
* `agdelsubg`, "same as agclose()" at `cgraph.3:60`, unlinks the subgraph and frees nothing;
* `agrename` of a subgraph with siblings leaves the parent's tree by ID out of order
  (`obj.c:60-63`), so that `agclose` may not find one and its assertion at `graph.c:130` fails;
  if a sibling has the new name already, the reference to it is never given back;
* moving or renaming a node with edges leaves the trees of its neighbours out of order, and `del`
  may not find an edge (assertion at `edge.c:162`);
* `agpopdisc` below the top, and the order of methods (`PopBelowTop.cfg` and `TopDown.cfg`, above);
* an object with an HTML-like name never frees its reference (`id.c:73` frees as plain text), and
  closing a subgraph empties the internal map of the hierarchy without freeing its strings
  (`graph.c:114`, `imap.c:185-201`);
* the ranks that the manual promises (`dotguide.tex:721-726`) are not kept by `max` and `sink` sets beside
  clusters, by `min` sets with edges from clusters, by a `source` set that shares nodes with another set,
  or over edges of length 0; the conditions in `RankSetsHold` say where they are;
* some temporary edges are freed by no one (`rank.c:134`): slack edges turned at the first set
  and edges turned twice.

## 6. Plan

Done: `Cgraph`, `NodeSet`, `Relabel`, `List`, `Names` and `CallbackStack` with proofs of the safety
properties of each (the refinement of `Names` by `NameTrees` apart); `SplayTree`, `OrderedSets`,
`NameTrees`, `FastGraph`, `NetworkSimplex`, `DotRank`. Next, in this order:

1. `Rec`: the circular record list with move-to-front and lock, and its proofs.
2. The ordered sets of subgraphs in `OrderedSets`: agapply in `agnodebefore`, and edges that a
   subgraph lists.
3. `class2` and `flat` of `dotgen`, on the `FastGraph` that `DotRank` leaves.
