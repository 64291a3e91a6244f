---------------------------- MODULE NamesProofs ----------------------------
(***************************************************************************)
(* The three invariants of Names, for every set of names, nodes and graphs *)
(* and every length of the run.  A string's count is compared with the     *)
(* users it has by label (Owners), which no step needs an address for; the *)
(* IDs then are the addresses of the labels' strings, because strings with *)
(* users stay.                                                             *)
(***************************************************************************)
EXTENDS Names, FiniteSetTheorems, TLAPS

\* The IDs of named objects are even, those of the others odd.
Addresses == {2 * n : n \in Nat \ {0}}
OddBelow(c) == {2 * n + 1 : n \in 0..(c - 1)}

IsPlain(l) == l \in Label /\ ~IsLocal(l)

DictOK(d) ==
    /\ DOMAIN d \subseteq Label
    /\ IsFiniteSet(DOMAIN d)
    /\ \A l \in DOMAIN d : d[l].addr \in Addresses /\ d[l].refcnt \in Nat \ {0}
    /\ \A k, l \in DOMAIN d : d[k].addr = d[l].addr => k = l

MapOK(m, c) ==
    /\ DOMAIN m = Type
    /\ \A ty \in Type :
          /\ \A l \in DOMAIN m[ty] : l \in Label /\ IsLocal(l) /\ m[ty][l] \in OddBelow(c)
          /\ \A k, l \in DOMAIN m[ty] : m[ty][k] = m[ty][l] => k = l

WorldOK(u) ==
    /\ u = [dict |-> u.dict, counter |-> u.counter, map |-> u.map]
    /\ DictOK(u.dict)
    /\ u.counter \in Nat
    /\ MapOK(u.map, u.counter)

\* The ID of an object is what its label says it is.
ObjectOK(x, ty, u, lost) ==
    /\ x.label \in Label \cup {NULL}
    /\ x.label = NULL \/ IsLocal(x.label) => x.id \in OddBelow(u.counter)
    /\ IsPlain(x.label) => x.label \in DOMAIN u.dict /\ x.id = u.dict[x.label].addr
    /\ IsLocal(x.label) /\ ~lost =>
          x.label \in DOMAIN u.map[ty] /\ u.map[ty][x.label] = x.id

ObjectsOK(f, ty, u, lost) ==
    /\ IsFiniteSet(DOMAIN f)
    /\ \A x \in DOMAIN f : ObjectOK(f[x], ty, u, lost)

\* The references to a string, and those who have them.
Refs(u, l) == IF l \in DOMAIN u.dict THEN u.dict[l].refcnt ELSE 0
One(P) == IF P THEN 1 ELSE 0
Entries(u, l) == One(l \in DOMAIN u.map["node"]) + One(l \in DOMAIN u.map["graph"])
Named(f, l) == Cardinality({x \in DOMAIN f : f[x].label = l})

Owners(l) ==
    IF IsLocal(l) THEN Entries(w, l) ELSE Named(node, l) + Named(graph, l) + One(l \in held)

CountsOK ==
    \A l \in Label : Refs(w, l) >= Owners(l) /\ (~leaked => Refs(w, l) = Owners(l))

NodesApart == \A m, n \in DOMAIN node : node[m].id = node[n].id => m = n

SiblingsApart ==
    OnlyChildren => \A g, h \in DOMAIN graph \ {root} :
        graph[g].parent = graph[h].parent /\ graph[g].id = graph[h].id => g = h

IndInv ==
    /\ WorldOK(w)
    /\ ObjectsOK(node, "node", w, forgot)
    /\ ObjectsOK(graph, "graph", w, forgot)
    /\ DOMAIN graph \subseteq Graph
    /\ \A l \in held : IsPlain(l)
    /\ {leaked, forgot} \subseteq BOOLEAN
    /\ CountsOK
    /\ NodesApart
    /\ SiblingsApart

----------------------------------------------------------------------------
(* Numbers                                                                 *)

LEMMA Parity ==
    ASSUME NEW c \in Nat
    PROVE  /\ \A a \in Addresses : a \in Nat /\ a # 0 /\ a % 2 = 0 /\ a \notin OddBelow(c)
           /\ \A i \in OddBelow(c) : i \in Nat /\ i % 2 # 0
  BY DEF Addresses, OddBelow

LEMMA NextOdd ==
    ASSUME NEW c \in Nat
    PROVE  /\ 2 * c + 1 \in OddBelow(c + 1)
           /\ 2 * c + 1 \notin OddBelow(c)
           /\ \A d \in Nat : c <= d => OddBelow(c) \subseteq OddBelow(d)
  BY DEF OddBelow

----------------------------------------------------------------------------
(* Functions                                                               *)

LEMMA WithoutFacts ==
    \A f, S :
        /\ DOMAIN Without(f, S) = DOMAIN f \ S
        /\ \A y \in DOMAIN f \ S : Without(f, S)[y] = f[y]
  BY DEF Without, Restrict

\* The objects of a label, after one more object and after some less.
LEMMA NamedFinite ==
    ASSUME NEW f, IsFiniteSet(DOMAIN f), NEW l
    PROVE  IsFiniteSet({x \in DOMAIN f : f[x].label = l}) /\ Named(f, l) \in Nat
  BY FS_Subset, FS_CardinalityType DEF Named

LEMMA NamedWith ==
    ASSUME NEW f, IsFiniteSet(DOMAIN f), NEW x, x \notin DOMAIN f, NEW v, NEW l
    PROVE  Named(With(f, x, v), l) = Named(f, l) + One(v.label = l)
  <1> DEFINE F == With(f, x, v)
             S == {y \in DOMAIN f : f[y].label = l}
             T == {y \in DOMAIN F : F[y].label = l}
  <1>1. IsFiniteSet(S) /\ Cardinality(S) \in Nat /\ x \notin S
    BY NamedFinite DEF Named
  <1>2. T = IF v.label = l THEN S \cup {x} ELSE S
    <2>1. /\ DOMAIN F = DOMAIN f \cup {x}
          /\ F[x] = v
          /\ \A y \in DOMAIN f : y # x => F[y] = f[y]
      BY ONLY DEF With
    <2> HIDE DEF F
    <2>2. CASE v.label = l
      BY <2>1, <2>2
    <2>3. CASE v.label # l
      BY <2>1, <2>3
    <2> QED
      BY <2>2, <2>3
  <1>3. Cardinality(S \cup {x}) = Cardinality(S) + 1
    BY <1>1, FS_AddElement
  <1>4. Named(f, l) = Cardinality(S) /\ Named(With(f, x, v), l) = Cardinality(T)
    BY DEF Named
  <1> HIDE DEF S, T
  <1> QED
    BY <1>1, <1>2, <1>3, <1>4 DEF One

LEMMA NamedWithout ==
    ASSUME NEW f, IsFiniteSet(DOMAIN f), NEW H, H \subseteq DOMAIN f, NEW l
    PROVE  Named(Without(f, H), l) = Named(f, l) - Cardinality({x \in H : f[x].label = l})
  <1> DEFINE S == {y \in DOMAIN f : f[y].label = l}
             T == {y \in DOMAIN Without(f, H) : Without(f, H)[y].label = l}
             G == {x \in H : f[x].label = l}
  <1>1. IsFiniteSet(S)
    BY NamedFinite
  <1>2. T = S \ G /\ S \cap G = G
    BY DEF Without, Restrict
  <1>3. Cardinality(S \ G) = Cardinality(S) - Cardinality(S \cap G)
    BY <1>1, FS_Difference
  <1>4. Named(f, l) = Cardinality(S) /\ Named(Without(f, H), l) = Cardinality(T)
    BY DEF Named
  <1> HIDE DEF S, T
  <1> QED
    BY <1>2, <1>3, <1>4

LEMMA NamedWithoutOne ==
    ASSUME NEW f, IsFiniteSet(DOMAIN f), NEW x \in DOMAIN f, NEW l
    PROVE  Named(Without(f, {x}), l) = Named(f, l) - One(f[x].label = l)
  <1> DEFINE G == {y \in {x} : f[y].label = l}
  <1>1. Named(Without(f, {x}), l) = Named(f, l) - Cardinality(G)
    BY NamedWithout
  <1>2. G = IF f[x].label = l THEN {x} ELSE {}
    OBVIOUS
  <1>3. Cardinality({x}) = 1 /\ Cardinality({}) = 0
    BY FS_Singleton, FS_EmptySet
  <1> QED
    BY <1>1, <1>2, <1>3 DEF One

\* Changing one object is dropping it and adding another in its place.
LEMMA NamedChange ==
    ASSUME NEW f, IsFiniteSet(DOMAIN f), NEW x \in DOMAIN f, NEW v, NEW l
    PROVE  Named(With(f, x, v), l) = Named(f, l) - One(f[x].label = l) + One(v.label = l)
  <1> DEFINE h == Without(f, {x})
  <1>1. DOMAIN h = DOMAIN f \ {x} /\ IsFiniteSet(DOMAIN h)
    BY WithoutFacts, FS_RemoveElement
  <1>2. With(f, x, v) = With(h, x, v)
    <2>1. DOMAIN h \cup {x} = DOMAIN f \cup {x} /\ \A y \in DOMAIN h : h[y] = f[y]
      BY <1>1, WithoutFacts
    <2>2. \A y \in DOMAIN f \cup {x} :
             (IF y = x THEN v ELSE h[y]) = IF y = x THEN v ELSE f[y]
      BY <1>1, <2>1
    <2> HIDE DEF h
    <2> QED
      BY <2>1, <2>2 DEF With
  <1>3. Named(With(h, x, v), l) = Named(h, l) + One(v.label = l)
    BY <1>1, NamedWith
  <1> QED
    BY <1>2, <1>3, NamedWithoutOne

----------------------------------------------------------------------------
(* Shared strings                                                          *)

SameAddresses(u, v) ==
    \A k \in DOMAIN u.dict \cap DOMAIN v.dict : v.dict[k].addr = u.dict[k].addr

\* Among one more numbers than there are strings, one is free.
LEMMA AddressFree ==
    ASSUME NEW u, DictOK(u.dict)
    PROVE  /\ FreeAddress(u) \in Addresses
           /\ \A l \in DOMAIN u.dict : u.dict[l].addr # FreeAddress(u)
  <1> DEFINE D == DOMAIN u.dict
             N == 1..(Cardinality(D) + 1)
             Free(n) == \A l \in D : u.dict[l].addr # 2 * n
  <1>1. IsFiniteSet(D) /\ Cardinality(D) \in Nat
    BY FS_CardinalityType DEF DictOK
  <1>2. IsFiniteSet(N) /\ Cardinality(N) = Cardinality(D) + 1
    <2> DEFINE c == Cardinality(D) + 1
    <2>1. 1 \in Int /\ c \in Int /\ ~(1 > c) /\ c - 1 + 1 = c
      BY <1>1
    <2> HIDE DEF c
    <2>2. IsFiniteSet(1..c) /\ Cardinality(1..c) = IF 1 > c THEN 0 ELSE c - 1 + 1
      BY <2>1, FS_Interval
    <2>3. IsFiniteSet(1..c) /\ Cardinality(1..c) = c
      BY <2>1, <2>2
    <2> USE DEF c
    <2> QED
      BY <2>3
  <1>3. \E n \in N : Free(n)
    <2> SUFFICES ASSUME \A n \in N : \E l \in D : u.dict[l].addr = 2 * n
                 PROVE  FALSE
      OBVIOUS
    <2> DEFINE h == [n \in N |-> CHOOSE l \in D : u.dict[l].addr = 2 * n]
    <2>1. \A n \in N : h[n] \in D /\ u.dict[h[n]].addr = 2 * n
      OBVIOUS
    <2>2. h \in [N -> D]
      BY <2>1
    <2>3. Cardinality(D) < Cardinality(N)
      BY <1>1, <1>2
    <2>4. PICK m, n \in N : m # n /\ h[m] = h[n]
      <3> HIDE DEF h, D, N
      <3> QED
        BY <1>1, <1>2, <2>2, <2>3, FS_PigeonHole
    <2>5. 2 * m = 2 * n /\ m \in Nat /\ n \in Nat
      BY <1>1, <2>1, <2>4
    <2> QED
      BY <2>4, <2>5
  <1> DEFINE n == CHOOSE m \in N : Free(m)
  <1>4. n \in N /\ Free(n)
    <2> HIDE DEF N, Free
    <2> QED
      BY <1>3
  <1>5. FreeAddress(u) = 2 * n
    BY DEF FreeAddress
  <1>6. n \in Nat \ {0}
    BY <1>1, <1>4
  <1> HIDE DEF n
  <1> QED
    BY <1>4, <1>5, <1>6 DEF Addresses

LEMMA NewDict ==
    ASSUME NEW u, WorldOK(u), NEW d
    PROVE  [u EXCEPT !.dict = d] = [dict |-> d, counter |-> u.counter, map |-> u.map]
  BY DEF WorldOK

\* A new count for a string that is there, a new string, and one string less.
LEMMA Counted ==
    ASSUME NEW d, DictOK(d), NEW l \in DOMAIN d, NEW c \in Nat \ {0}
    PROVE  DictOK(With(d, l, [addr |-> d[l].addr, refcnt |-> c]))
  <1> DEFINE e == With(d, l, [addr |-> d[l].addr, refcnt |-> c])
  <1> SUFFICES DictOK(e)
    OBVIOUS
  <1>1. DOMAIN e = DOMAIN d
    BY DEF With
  <1>2. \A k \in DOMAIN d : e[k].addr = d[k].addr /\ (e[k].refcnt = c \/ e[k].refcnt = d[k].refcnt)
    BY DEF With
  <1> HIDE DEF e
  <1> QED
    BY <1>1, <1>2 DEF DictOK

LEMMA Added ==
    ASSUME NEW d, DictOK(d), NEW l \in Label \ DOMAIN d, NEW a \in Addresses,
           \A k \in DOMAIN d : d[k].addr # a
    PROVE  DictOK(With(d, l, [addr |-> a, refcnt |-> 1]))
  <1> DEFINE e == With(d, l, [addr |-> a, refcnt |-> 1])
  <1> SUFFICES DictOK(e)
    OBVIOUS
  <1>1. DOMAIN e = DOMAIN d \cup {l}
    BY DEF With
  <1>2. e[l].addr = a /\ e[l].refcnt = 1
    BY DEF With
  <1>3. \A k \in DOMAIN d : e[k] = d[k]
    BY DEF With
  <1>4. IsFiniteSet(DOMAIN d \cup {l})
    BY FS_AddElement DEF DictOK
  <1> HIDE DEF e
  <1> QED
    BY <1>1, <1>2, <1>3, <1>4 DEF DictOK

LEMMA Dropped ==
    ASSUME NEW d, DictOK(d), NEW S
    PROVE  DictOK(Without(d, S))
  <1> DEFINE e == Without(d, S)
  <1> SUFFICES DictOK(e)
    OBVIOUS
  <1>1. DOMAIN e = DOMAIN d \ S
    BY DEF Without, Restrict
  <1>2. \A k \in DOMAIN e : e[k] = d[k]
    BY DEF Without, Restrict
  <1>3. IsFiniteSet(DOMAIN d \ S)
    BY FS_Difference DEF DictOK
  <1> HIDE DEF e
  <1> QED
    BY <1>1, <1>2, <1>3 DEF DictOK

\* agstrdup takes one reference.
LEMMA Dup ==
    ASSUME NEW u, WorldOK(u), NEW l \in Label, NEW v, v = agstrdup(u, l)
    PROVE  /\ WorldOK(v) /\ v.counter = u.counter /\ v.map = u.map
           /\ DOMAIN v.dict = DOMAIN u.dict \cup {l}
           /\ SameAddresses(u, v)
           /\ l \notin DOMAIN u.dict => \A k \in DOMAIN u.dict : u.dict[k].addr # v.dict[l].addr
           /\ \A k \in Label : Refs(v, k) = Refs(u, k) + One(k = l)
  <1> DEFINE s == IF l \in DOMAIN u.dict
                  THEN [addr |-> u.dict[l].addr, refcnt |-> u.dict[l].refcnt + 1]
                  ELSE [addr |-> FreeAddress(u), refcnt |-> 1]
             d == With(u.dict, l, s)
  <1>1. v = [dict |-> d, counter |-> u.counter, map |-> u.map]
    BY NewDict DEF agstrdup
  <1>2. DictOK(d)
    <2>1. CASE l \in DOMAIN u.dict
      <3>1. u.dict[l].refcnt + 1 \in Nat \ {0}
        BY <2>1 DEF WorldOK, DictOK
      <3> QED
        BY <2>1, <3>1, Counted DEF WorldOK
    <2>2. CASE l \notin DOMAIN u.dict
      BY <2>2, Added, AddressFree DEF WorldOK
    <2> QED
      BY <2>1, <2>2
  <1>3. DOMAIN d = DOMAIN u.dict \cup {l}
    BY DEF With
  <1>4. d[l] = s
    BY DEF With
  <1>5. \A k \in DOMAIN u.dict : k # l => d[k] = u.dict[k]
    BY DEF With
  <1>6. l \in DOMAIN u.dict => s.addr = u.dict[l].addr /\ s.refcnt = u.dict[l].refcnt + 1
    OBVIOUS
  <1>7. l \notin DOMAIN u.dict => s.addr = FreeAddress(u) /\ s.refcnt = 1
    OBVIOUS
  <1> HIDE DEF d, s
  <1>8. WorldOK(v) /\ v.dict = d /\ v.counter = u.counter /\ v.map = u.map
    BY <1>1, <1>2 DEF WorldOK
  <1>9. SameAddresses(u, v)
    BY <1>4, <1>5, <1>6, <1>8 DEF SameAddresses
  <1>10. l \notin DOMAIN u.dict => \A k \in DOMAIN u.dict : u.dict[k].addr # v.dict[l].addr
    BY <1>4, <1>7, <1>8, AddressFree DEF WorldOK
  <1>11. \A k \in DOMAIN u.dict : u.dict[k].refcnt \in Nat
    BY DEF WorldOK, DictOK
  <1>12. ASSUME NEW k \in Label
         PROVE  Refs(v, k) = Refs(u, k) + One(k = l)
    BY <1>3, <1>4, <1>5, <1>6, <1>7, <1>8, <1>11 DEF Refs, One
  <1> QED
    BY <1>3, <1>8, <1>9, <1>10, <1>12

\* agstrfree of a string that is there gives one back.
LEMMA Release ==
    ASSUME NEW u, WorldOK(u), NEW l \in DOMAIN u.dict, NEW v, v = Released(u, l)
    PROVE  /\ WorldOK(v) /\ v.counter = u.counter /\ v.map = u.map
           /\ SameAddresses(u, v)
           /\ \A k \in Label : Refs(v, k) = Refs(u, k) - One(k = l)
  <1> DEFINE c == u.dict[l].refcnt - 1
             s == [addr |-> u.dict[l].addr, refcnt |-> c]
             d == IF c > 0 THEN With(u.dict, l, s) ELSE Without(u.dict, {l})
  <1>1. v = [dict |-> d, counter |-> u.counter, map |-> u.map]
    BY NewDict DEF Released
  <1>2. c \in Nat /\ u.dict[l].refcnt = c + 1
    BY DEF WorldOK, DictOK
  <1>3. DictOK(d)
    <2>1. CASE c > 0
      BY <1>2, <2>1, Counted DEF WorldOK
    <2>2. CASE ~(c > 0)
      BY <2>2, Dropped DEF WorldOK
    <2> QED
      BY <2>1, <2>2
  <1>4. DOMAIN d = IF c > 0 THEN DOMAIN u.dict ELSE DOMAIN u.dict \ {l}
    BY DEF With, Without, Restrict
  <1>5. \A k \in DOMAIN d : k # l => d[k] = u.dict[k]
    BY DEF With, Without, Restrict
  <1>6. c > 0 => d[l] = s
    BY DEF With
  <1>7. s.addr = u.dict[l].addr /\ s.refcnt = c
    OBVIOUS
  <1> HIDE DEF d, s, c
  <1>8. WorldOK(v) /\ v.dict = d /\ v.counter = u.counter /\ v.map = u.map
    BY <1>1, <1>3 DEF WorldOK
  <1>9. SameAddresses(u, v)
    BY <1>4, <1>5, <1>6, <1>7, <1>8 DEF SameAddresses
  <1>10. \A k \in DOMAIN u.dict : u.dict[k].refcnt \in Nat
    BY DEF WorldOK, DictOK
  <1>11. ASSUME NEW k \in Label
         PROVE  Refs(v, k) = Refs(u, k) - One(k = l)
    BY <1>2, <1>4, <1>5, <1>6, <1>7, <1>8, <1>10 DEF Refs, One
  <1> QED
    BY <1>8, <1>9, <1>11

----------------------------------------------------------------------------
(* IDs                                                                     *)

LEMMA Labels ==
    ASSUME NEW l \in Label
    PROVE  /\ l # NULL
           /\ l.html \in BOOLEAN
           /\ IsLocal(l) => ~l.html
  BY NamesConstants DEF Label, IsLocal

LEMMA NullIsPlain == ~IsLocal(NULL) /\ ~IsPlain(NULL)
  BY Labels DEF IsLocal, IsPlain

\* What taking or giving back an ID leaves: strings keep their addresses, those
\* of local names their references of others than the internal map.
SameStrings(u, v) ==
    /\ SameAddresses(u, v)
    /\ \A k \in Label : IsLocal(k) => Refs(v, k) - Entries(v, k) = Refs(u, k) - Entries(u, k)

LEMMA RefsType ==
    ASSUME NEW u, WorldOK(u), NEW l \in Label
    PROVE  /\ Refs(u, l) \in Nat
           /\ Refs(u, l) > 0 <=> l \in DOMAIN u.dict
           /\ Entries(u, l) \in Nat
  BY DEF WorldOK, DictOK, Refs, Entries, One

\* agstrfree finds the string at an address, if it is a plain one.
LEMMA StringFreed ==
    ASSUME NEW u, WorldOK(u), NEW l \in DOMAIN u.dict
    PROVE  agstrfree(u, u.dict[l].addr) = IF l.html THEN u ELSE Released(u, l)
  <1> DEFINE plain == {k \in DOMAIN u.dict : u.dict[k].addr = u.dict[l].addr /\ ~k.html}
  <1>1. \A k \in plain : k = l
    BY DEF WorldOK, DictOK
  <1>2. agstrfree(u, u.dict[l].addr) =
        IF plain = {} THEN u ELSE Released(u, CHOOSE k \in plain : TRUE)
    BY DEF agstrfree
  <1>3. CASE l.html
    <2>1. plain = {}
      BY <1>1, <1>3
    <2> QED
      BY <1>2, <1>3, <2>1
  <1>4. CASE ~l.html
    <2>1. plain = {l}
      BY <1>1, <1>4
    <2>2. (CHOOSE k \in plain : TRUE) = l
      BY <2>1
    <2> HIDE DEF plain
    <2> QED
      BY <1>2, <1>4, <2>1, <2>2
  <1> QED
    BY <1>3, <1>4

LEMMA NewMap ==
    ASSUME NEW u, WorldOK(u), NEW ty \in Type, NEW f
    PROVE  LET v == [u EXCEPT !.map[ty] = f] IN
           /\ v = [dict |-> u.dict, counter |-> u.counter, map |-> v.map]
           /\ DOMAIN v.map = Type
           /\ v.map[ty] = f
           /\ \A t \in Type \ {ty} : v.map[t] = u.map[t]
  BY DEF WorldOK, MapOK

\* aginternalmapdelete drops the entry with the ID, if there is one, and the
\* reference that it holds.
LEMMA MapDelete ==
    ASSUME NEW u, WorldOK(u), NEW ty \in Type, NEW id,
           \A k \in Label : IsLocal(k) => Refs(u, k) >= Entries(u, k),
           NEW v, v = aginternalmapdelete(u, ty, id)
    PROVE  /\ WorldOK(v) /\ v.counter = u.counter
           /\ SameStrings(u, v)
           /\ \A k \in Label : ~IsLocal(k) => Refs(v, k) = Refs(u, k)
           /\ \A t \in Type : \A k \in DOMAIN u.map[t] : u.map[t][k] # id \/ t # ty =>
                 k \in DOMAIN v.map[t] /\ v.map[t][k] = u.map[t][k]
           /\ (\A k \in DOMAIN u.map[ty] : u.map[ty][k] # id) => v = u
  <1> DEFINE gone == {k \in DOMAIN u.map[ty] : u.map[ty][k] = id}
  <1>1. CASE gone = {}
    <2>1. v = u
      BY <1>1 DEF aginternalmapdelete
    <2> QED
      BY <1>1, <2>1, RefsType DEF SameStrings, SameAddresses
  <1>2. CASE gone # {}
    <2> DEFINE l == CHOOSE k \in gone : TRUE
               x == [u EXCEPT !.map[ty] = Without(u.map[ty], {l})]
    <2>1. l \in DOMAIN u.map[ty] /\ u.map[ty][l] = id
      BY <1>2
    <2>2. v = agstrfree(x, u.dict[l].addr)
      BY <1>2 DEF aginternalmapdelete
    <2> HIDE DEF l
    <2>3. l \in Label /\ IsLocal(l) /\ ~l.html
      BY <2>1, Labels DEF WorldOK, MapOK
    <2>4. l \in DOMAIN u.dict
      <3>1. Entries(u, l) > 0
        BY <2>1 DEF Entries, One, Type
      <3> QED
        BY <2>3, <3>1, RefsType
    <2>5. /\ x = [dict |-> u.dict, counter |-> u.counter, map |-> x.map]
          /\ DOMAIN x.map = Type
          /\ x.map[ty] = Without(u.map[ty], {l})
          /\ \A t \in Type \ {ty} : x.map[t] = u.map[t]
      BY NewMap
    <2> HIDE DEF x
    <2>6. DOMAIN x.map[ty] = DOMAIN u.map[ty] \ {l}
      BY <2>5 DEF Without, Restrict
    <2>7. \A k \in DOMAIN x.map[ty] : x.map[ty][k] = u.map[ty][k]
      BY <2>5 DEF Without, Restrict
    <2>8. WorldOK(x) /\ x.dict = u.dict /\ x.counter = u.counter
      <3>1. x.dict = u.dict /\ x.counter = u.counter
        BY <2>5
      <3>2. MapOK(u.map, u.counter)
        BY DEF WorldOK
      <3>3. ASSUME NEW t \in Type
            PROVE  \A k \in DOMAIN x.map[t] : k \in DOMAIN u.map[t] /\ x.map[t][k] = u.map[t][k]
        BY <2>5, <2>6, <2>7
      <3>4. MapOK(x.map, u.counter)
        BY <2>5, <3>2, <3>3 DEF MapOK
      <3>5. x = [dict |-> x.dict, counter |-> x.counter, map |-> x.map]
        BY <2>5, <3>1
      <3> QED
        BY <3>1, <3>4, <3>5 DEF WorldOK
    <2>9. v = Released(x, l)
      BY <2>2, <2>3, <2>4, <2>8, StringFreed
    <2>10. /\ WorldOK(v) /\ v.counter = u.counter /\ v.map = x.map
           /\ SameAddresses(x, v)
           /\ \A k \in Label : Refs(v, k) = Refs(x, k) - One(k = l)
      BY <2>4, <2>8, <2>9, Release
    <2>11. SameAddresses(u, v)
      BY <2>8, <2>10 DEF SameAddresses
    <2>12. \A k \in Label : Refs(v, k) = Refs(u, k) - One(k = l)
      BY <2>8, <2>10 DEF Refs
    <2>13. ASSUME NEW k \in Label
           PROVE  Entries(v, k) = Entries(u, k) - One(k = l)
      BY <2>1, <2>5, <2>6, <2>10 DEF Entries, One, Type
    <2>14. SameStrings(u, v)
      BY <2>11, <2>12, <2>13, RefsType DEF SameStrings, One
    <2>15. \A k \in Label : ~IsLocal(k) => Refs(v, k) = Refs(u, k)
      BY <2>3, <2>12, RefsType DEF One
    <2>16. ASSUME NEW t \in Type, NEW k \in DOMAIN u.map[t], u.map[t][k] # id \/ t # ty
           PROVE  k \in DOMAIN v.map[t] /\ v.map[t][k] = u.map[t][k]
      BY <2>1, <2>5, <2>6, <2>7, <2>10, <2>16
    <2> QED
      BY <2>1, <2>10, <2>14, <2>15, <2>16
  <1> QED
    BY <1>1, <1>2

\* agfreeid gives back the ID of an object: its plain string loses a reference,
\* an HTML-like one does not, and only the object's own entry goes.
LEMMA FreeId ==
    ASSUME NEW u, WorldOK(u), NEW ty \in Type, NEW x, NEW lost, ObjectOK(x, ty, u, lost),
           \A k \in Label : IsLocal(k) => Refs(u, k) >= Entries(u, k),
           NEW v, v = agfreeid(u, ty, x.id)
    PROVE  /\ WorldOK(v) /\ v.counter = u.counter
           /\ SameStrings(u, v)
           /\ \A k \in Label : ~IsLocal(k) =>
                 Refs(v, k) = Refs(u, k) - One(k = x.label /\ ~k.html)
           /\ \A t \in Type : \A k \in DOMAIN u.map[t] : u.map[t][k] # x.id \/ t # ty =>
                 k \in DOMAIN v.map[t] /\ v.map[t][k] = u.map[t][k]
  <1>1. CASE IsPlain(x.label)
    <2>1. x.label \in DOMAIN u.dict /\ x.id = u.dict[x.label].addr /\ x.label \in Label
      BY <1>1 DEF ObjectOK, IsPlain
    <2>2. x.id \in Addresses
      BY <2>1 DEF WorldOK, DictOK
    <2>3. x.id % 2 = 0 /\ \A k \in DOMAIN u.map[ty] : u.map[ty][k] # x.id
      BY <2>2, Parity DEF WorldOK, MapOK
    <2>4. aginternalmapdelete(u, ty, x.id) = u
      BY <2>3, MapDelete
    <2>5. v = IF x.label.html THEN u ELSE Released(u, x.label)
      BY <2>1, <2>3, <2>4, StringFreed DEF agfreeid
    <2>6. CASE x.label.html
      BY <1>1, <2>5, <2>6, RefsType DEF SameStrings, SameAddresses, One
    <2>7. CASE ~x.label.html
      <3>1. /\ WorldOK(v) /\ v.counter = u.counter /\ v.map = u.map
            /\ SameAddresses(u, v)
            /\ \A k \in Label : Refs(v, k) = Refs(u, k) - One(k = x.label)
        BY <2>1, <2>5, <2>7, Release
      <3>2. SameStrings(u, v)
        BY <1>1, <3>1, RefsType DEF SameStrings, Entries, One, IsPlain
      <3> QED
        BY <2>7, <3>1, <3>2 DEF One
    <2> QED
      BY <2>6, <2>7
  <1>2. CASE ~IsPlain(x.label)
    <2>1. x.id \in OddBelow(u.counter)
      BY <1>2 DEF ObjectOK, IsPlain
    <2>2. x.id % 2 # 0
      BY <2>1, Parity DEF WorldOK
    <2>3. v = aginternalmapdelete(u, ty, x.id)
      BY <2>2 DEF agfreeid
    <2>4. \A k \in Label : ~IsLocal(k) => k # x.label
      BY <1>2 DEF IsPlain
    <2> QED
      BY <2>3, <2>4, MapDelete, RefsType DEF One
  <1> QED
    BY <1>1, <1>2

\* agmapnametoid that creates takes one reference for a plain label, and for a
\* local one if it makes an entry.  The ID is that found without creating, or
\* new.
LEMMA ReserveId ==
    ASSUME NEW u, WorldOK(u), NEW ty \in Type, NEW l \in Label \cup {NULL},
           NEW r, r = Reserve(u, ty, l)
    PROVE  /\ WorldOK(r.w) /\ u.counter <= r.w.counter
           /\ DOMAIN u.dict \subseteq DOMAIN r.w.dict
           /\ SameStrings(u, r.w)
           /\ \A k \in Label : ~IsLocal(k) => Refs(r.w, k) = Refs(u, k) + One(k = l)
           /\ \A t \in Type : \A k \in DOMAIN u.map[t] :
                 k \in DOMAIN r.w.map[t] /\ r.w.map[t][k] = u.map[t][k]
           /\ \A x, lost : x.id = r.id /\ x.label = l => ObjectOK(x, ty, r.w, lost)
           /\ \/ Probe(u, ty, l) = [w |-> u, id |-> r.id, ok |-> TRUE]
              \/ /\ r.id \notin OddBelow(u.counter)
                 /\ \A k \in DOMAIN u.dict : u.dict[k].addr # r.id
  <1> DEFINE fresh == 2 * u.counter + 1
  <1>0. u.counter \in Nat
    BY DEF WorldOK
  <1>1. ASSUME NEW v, v.map = u.map, v.counter \in Nat, u.counter <= v.counter,
               v = [dict |-> v.dict, counter |-> v.counter, map |-> v.map],
               DictOK(v.dict)
        PROVE  WorldOK(v)
    <2>1. OddBelow(u.counter) \subseteq OddBelow(v.counter)
      BY <1>0, <1>1, NextOdd
    <2> QED
      BY <1>1, <2>1 DEF WorldOK, MapOK
  <1>2. /\ fresh \notin OddBelow(u.counter)
        /\ fresh \in OddBelow(u.counter + 1)
        /\ \A k \in DOMAIN u.dict : u.dict[k].addr # fresh
    BY <1>0, NextOdd, Parity DEF WorldOK, DictOK
  <1>3. CASE l = NULL
    <2>1. r = [w |-> [u EXCEPT !.counter = u.counter + 1], id |-> fresh, ok |-> TRUE]
      BY <1>3 DEF Probe, Reserve, agmapnametoid, IsLocal
    <2>2. r.id = fresh /\ r.w = [dict |-> u.dict, counter |-> u.counter + 1, map |-> u.map]
      BY <2>1 DEF WorldOK
    <2> HIDE DEF fresh
    <2>3. WorldOK(r.w)
      BY <1>0, <1>1, <2>2 DEF WorldOK
    <2>4. SameStrings(u, r.w)
      BY <2>2, RefsType DEF SameStrings, SameAddresses, Refs, Entries
    <2>5. \A k \in Label : k # l /\ Refs(r.w, k) = Refs(u, k)
      BY <1>3, <2>2, Labels DEF Refs
    <2>6. \A x, lost : x.id = r.id /\ x.label = l => ObjectOK(x, ty, r.w, lost)
      BY <1>2, <1>3, <2>2, NullIsPlain DEF ObjectOK
    <2> QED
      BY <1>0, <1>2, <2>2, <2>3, <2>4, <2>5, <2>6, RefsType DEF One
  <1>4. CASE l \in Label /\ ~IsLocal(l)
    <2> DEFINE v == agstrdup(u, l)
    <2>1. r = [w |-> v, id |-> agstrbind(v, l), ok |-> TRUE]
      BY <1>4, Labels DEF Probe, Reserve, agmapnametoid
    <2>2. /\ WorldOK(v) /\ v.counter = u.counter /\ v.map = u.map
          /\ DOMAIN v.dict = DOMAIN u.dict \cup {l}
          /\ SameAddresses(u, v)
          /\ l \notin DOMAIN u.dict => \A k \in DOMAIN u.dict : u.dict[k].addr # v.dict[l].addr
          /\ \A k \in Label : Refs(v, k) = Refs(u, k) + One(k = l)
      BY <1>4, Dup
    <2> HIDE DEF v
    <2>3. r.w = v /\ r.id = v.dict[l].addr /\ l \in DOMAIN v.dict
      BY <2>1, <2>2 DEF agstrbind
    <2>4. SameStrings(u, v)
      BY <1>4, <2>2, RefsType DEF SameStrings, Entries, One
    <2>5. \A x, lost : x.id = r.id /\ x.label = l => ObjectOK(x, ty, v, lost)
      BY <1>4, <2>3, Labels DEF ObjectOK
    <2>6. CASE l \in DOMAIN u.dict
      <3>1. r.id = u.dict[l].addr
        BY <2>2, <2>3, <2>6 DEF SameAddresses
      <3>2. Probe(u, ty, l) = [w |-> u, id |-> r.id, ok |-> TRUE]
        BY <1>4, <2>6, <3>1, Labels DEF Probe, Reserve, agmapnametoid, agstrbind
      <3> QED
        BY <1>0, <2>2, <2>3, <2>4, <2>5, <3>2
    <2>7. CASE l \notin DOMAIN u.dict
      <3>1. r.id \in Addresses
        BY <2>2, <2>3 DEF WorldOK, DictOK
      <3>2. r.id \notin OddBelow(u.counter)
        BY <1>0, <3>1, Parity
      <3> QED
        BY <1>0, <2>2, <2>3, <2>4, <2>5, <2>7, <3>2
    <2> QED
      BY <2>6, <2>7
  <1>5. CASE l \in Label /\ IsLocal(l) /\ l \in DOMAIN u.map[ty]
    <2>1. r = [w |-> u, id |-> u.map[ty][l], ok |-> TRUE] /\ r = Probe(u, ty, l)
      BY <1>5, Labels DEF Probe, Reserve, agmapnametoid
    <2>2. \A x, lost : x.id = r.id /\ x.label = l => ObjectOK(x, ty, u, lost)
      BY <1>5, <2>1, Labels DEF ObjectOK, WorldOK, MapOK, IsPlain
    <2>3. SameStrings(u, u)
      BY RefsType DEF SameStrings, SameAddresses
    <2> QED
      BY <1>0, <1>5, <2>1, <2>2, <2>3, RefsType DEF One
  <1>6. CASE l \in Label /\ IsLocal(l) /\ l \notin DOMAIN u.map[ty]
    <2> DEFINE d == agstrdup(u, l)
               m == [u.map EXCEPT ![ty] = With(u.map[ty], l, fresh)]
               v == [dict |-> d.dict, counter |-> u.counter + 1, map |-> m]
    <2>1. r = [w |-> v, id |-> fresh, ok |-> TRUE]
      BY <1>6, Labels DEF Probe, Reserve, agmapnametoid
    <2>2. /\ WorldOK(d) /\ d.counter = u.counter /\ d.map = u.map
          /\ DOMAIN d.dict = DOMAIN u.dict \cup {l}
          /\ SameAddresses(u, d)
          /\ \A k \in Label : Refs(d, k) = Refs(u, k) + One(k = l)
      BY <1>6, Dup
    <2> HIDE DEF d, fresh
    <2>3. /\ v = [dict |-> d.dict, counter |-> u.counter + 1, map |-> v.map]
          /\ DOMAIN v.map = Type
          /\ v.map[ty] = With(u.map[ty], l, fresh)
          /\ \A t \in Type \ {ty} : v.map[t] = u.map[t]
      BY DEF WorldOK, MapOK
    <2> HIDE DEF m, v
    <2>4. v.dict = d.dict /\ v.counter = u.counter + 1
      BY <2>3
    <2>5. DOMAIN v.map[ty] = DOMAIN u.map[ty] \cup {l} /\ v.map[ty][l] = fresh
      BY <2>3 DEF With
    <2>6. \A k \in DOMAIN u.map[ty] : v.map[ty][k] = u.map[ty][k]
      BY <1>6, <2>3 DEF With
    <2>7. WorldOK(v)
      <3>1. OddBelow(u.counter) \subseteq OddBelow(u.counter + 1)
        BY <1>0, NextOdd
      <3>2. MapOK(u.map, u.counter)
        BY DEF WorldOK
      <3>3. \A k \in DOMAIN v.map[ty] :
               k \in Label /\ IsLocal(k) /\ v.map[ty][k] \in OddBelow(u.counter + 1)
        BY <1>2, <1>6, <2>5, <2>6, <3>1, <3>2 DEF MapOK
      <3>4. \A j, k \in DOMAIN v.map[ty] : v.map[ty][j] = v.map[ty][k] => j = k
        BY <1>2, <2>5, <2>6, <3>2 DEF MapOK
      <3>5. \A t \in Type \ {ty} : \A k \in DOMAIN v.map[t] :
               k \in Label /\ IsLocal(k) /\ v.map[t][k] \in OddBelow(u.counter + 1)
        BY <2>3, <3>1, <3>2 DEF MapOK
      <3>6. MapOK(v.map, u.counter + 1)
        BY <2>3, <3>2, <3>3, <3>4, <3>5 DEF MapOK
      <3> QED
        BY <1>0, <2>2, <2>3, <2>4, <3>6 DEF WorldOK
    <2>8. SameAddresses(u, v)
      BY <2>2, <2>4 DEF SameAddresses
    <2>9. \A k \in Label : Refs(v, k) = Refs(u, k) + One(k = l)
      BY <2>2, <2>4 DEF Refs
    <2>10. \A k \in Label : Entries(v, k) = Entries(u, k) + One(k = l)
      BY <1>6, <2>3, <2>5 DEF Entries, One, Type
    <2>11. SameStrings(u, v)
      BY <2>8, <2>9, <2>10, RefsType DEF SameStrings, One
    <2>12. \A k \in Label : ~IsLocal(k) => Refs(v, k) = Refs(u, k) + One(k = l)
      BY <2>9
    <2>13. \A x, lost : x.id = fresh /\ x.label = l => ObjectOK(x, ty, v, lost)
      BY <1>2, <1>6, <2>4, <2>5, Labels DEF ObjectOK, IsPlain
    <2>14. \A t \in Type : \A k \in DOMAIN u.map[t] :
              k \in DOMAIN v.map[t] /\ v.map[t][k] = u.map[t][k]
      BY <2>3, <2>5, <2>6
    <2>15. r.w = v /\ r.id = fresh
      BY <2>1
    <2> QED
      BY <1>0, <1>2, <2>2, <2>4, <2>7, <2>11, <2>12, <2>13, <2>14, <2>15
  <1> QED
    BY <1>3, <1>4, <1>5, <1>6

----------------------------------------------------------------------------
(* Steps                                                                   *)

\* An object keeps an ID that suits its label if its string stays, and its entry.
LEMMA ObjectStays ==
    ASSUME NEW u, WorldOK(u), NEW v, WorldOK(v), u.counter <= v.counter, SameAddresses(u, v),
           NEW ty, NEW x, NEW lost, NEW gone, ObjectOK(x, ty, u, lost),
           IsPlain(x.label) => x.label \in DOMAIN v.dict,
           IsLocal(x.label) /\ ~gone => ~lost,
           IsLocal(x.label) /\ ~gone => \A k \in DOMAIN u.map[ty] : u.map[ty][k] = x.id =>
               k \in DOMAIN v.map[ty] /\ v.map[ty][k] = u.map[ty][k]
    PROVE  ObjectOK(x, ty, v, gone)
  <1>1. OddBelow(u.counter) \subseteq OddBelow(v.counter)
    BY NextOdd DEF WorldOK
  <1> QED
    BY <1>1 DEF ObjectOK, SameAddresses

\* After a reservation every object does.
LEMMA ObjectsStay ==
    ASSUME NEW u, WorldOK(u), NEW v, WorldOK(v), u.counter <= v.counter, SameAddresses(u, v),
           DOMAIN u.dict \subseteq DOMAIN v.dict,
           \A t \in Type : \A k \in DOMAIN u.map[t] :
               k \in DOMAIN v.map[t] /\ v.map[t][k] = u.map[t][k],
           NEW f, NEW ty \in Type, NEW lost, ObjectsOK(f, ty, u, lost)
    PROVE  ObjectsOK(f, ty, v, lost)
  <1>1. ASSUME NEW x \in DOMAIN f
        PROVE  ObjectOK(f[x], ty, v, lost)
    <2>1. ObjectOK(f[x], ty, u, lost)
      BY DEF ObjectsOK
    <2>2. IsPlain(f[x].label) => f[x].label \in DOMAIN v.dict
      BY <2>1 DEF ObjectOK
    <2> QED
      BY <2>1, <2>2, ObjectStays
  <1> QED
    BY <1>1 DEF ObjectsOK

\* No object has a new ID.
LEMMA NewId ==
    ASSUME NEW u, NEW ty, NEW x, NEW lost, ObjectOK(x, ty, u, lost), NEW id,
           id \notin OddBelow(u.counter), \A k \in DOMAIN u.dict : u.dict[k].addr # id
    PROVE  x.id # id
  BY DEF ObjectOK, IsPlain

\* A label that an object has is counted.
LEMMA NamedPositive ==
    ASSUME NEW f, IsFiniteSet(DOMAIN f), NEW x \in DOMAIN f
    PROVE  Named(f, f[x].label) \in Nat \ {0}
  <1> DEFINE S == {y \in DOMAIN f : f[y].label = f[x].label}
  <1>1. IsFiniteSet(S) /\ x \in S
    BY NamedFinite
  <1>2. Cardinality(S) # 0 /\ Cardinality(S) \in Nat
    BY <1>1, FS_EmptySet, FS_CardinalityType
  <1> QED
    BY <1>2 DEF Named

\* After references were given back, objects keep their IDs if their strings are
\* still counted, and if no entry went that one of them needs.
LEMMA ObjectsRemain ==
    ASSUME NEW u, WorldOK(u), NEW v, WorldOK(v), u.counter <= v.counter, SameAddresses(u, v),
           NEW f, NEW ty \in Type, NEW lost, NEW gone, ObjectsOK(f, ty, u, lost),
           \A k \in Label : ~IsLocal(k) => Refs(v, k) >= Named(f, k),
           \A x \in DOMAIN f : IsLocal(f[x].label) /\ ~gone =>
               /\ ~lost
               /\ \A k \in DOMAIN u.map[ty] : u.map[ty][k] = f[x].id =>
                     k \in DOMAIN v.map[ty] /\ v.map[ty][k] = u.map[ty][k]
    PROVE  ObjectsOK(f, ty, v, gone)
  <1>1. ASSUME NEW x \in DOMAIN f
        PROVE  ObjectOK(f[x], ty, v, gone)
    <2>1. ObjectOK(f[x], ty, u, lost) /\ IsFiniteSet(DOMAIN f)
      BY DEF ObjectsOK
    <2>2. ASSUME IsPlain(f[x].label)
          PROVE  f[x].label \in DOMAIN v.dict
      <3>1. f[x].label \in Label /\ Refs(v, f[x].label) >= Named(f, f[x].label)
        BY <2>2 DEF IsPlain
      <3>2. Named(f, f[x].label) \in Nat \ {0}
        BY <2>1, NamedPositive
      <3> QED
        BY <3>1, <3>2, RefsType
    <2>3. IsLocal(f[x].label) /\ ~gone =>
               /\ ~lost
               /\ \A k \in DOMAIN u.map[ty] : u.map[ty][k] = f[x].id =>
                     k \in DOMAIN v.map[ty] /\ v.map[ty][k] = u.map[ty][k]
      OBVIOUS
    <2> QED
      BY <2>1, <2>2, <2>3, ObjectStays
  <1> QED
    BY <1>1 DEF ObjectsOK

LEMMA ObjectsWith ==
    ASSUME NEW f, NEW ty, NEW u, NEW lost, ObjectsOK(f, ty, u, lost),
           NEW n, NEW x, ObjectOK(x, ty, u, lost)
    PROVE  ObjectsOK(With(f, n, x), ty, u, lost)
  <1>1. IsFiniteSet(DOMAIN f \cup {n})
    BY FS_AddElement DEF ObjectsOK
  <1>2. DOMAIN With(f, n, x) = DOMAIN f \cup {n}
    BY DEF With
  <1>3. \A y \in DOMAIN f \cup {n} : With(f, n, x)[y] = IF y = n THEN x ELSE f[y]
    BY DEF With
  <1>4. \A y \in DOMAIN f : ObjectOK(f[y], ty, u, lost)
    BY DEF ObjectsOK
  <1>5. ASSUME NEW y \in DOMAIN With(f, n, x)
        PROVE  ObjectOK(With(f, n, x)[y], ty, u, lost)
    <2>1. CASE y = n
      BY <1>3, <2>1
    <2>2. CASE y # n
      BY <1>2, <1>3, <1>4, <2>2
    <2> QED
      BY <2>1, <2>2
  <1> QED
    BY <1>1, <1>2, <1>5 DEF ObjectsOK

LEMMA ObjectsWithout ==
    ASSUME NEW f, NEW ty, NEW u, NEW lost, ObjectsOK(f, ty, u, lost), NEW S
    PROVE  ObjectsOK(Without(f, S), ty, u, lost)
  <1>1. IsFiniteSet(DOMAIN f \ S)
    BY FS_Difference DEF ObjectsOK
  <1>2. DOMAIN Without(f, S) = DOMAIN f \ S
    BY DEF Without, Restrict
  <1>3. \A y \in DOMAIN f \ S : Without(f, S)[y] = f[y]
    BY DEF Without, Restrict
  <1>4. \A y \in DOMAIN f : ObjectOK(f[y], ty, u, lost)
    BY DEF ObjectsOK
  <1>5. ASSUME NEW y \in DOMAIN Without(f, S)
        PROVE  ObjectOK(Without(f, S)[y], ty, u, lost)
    BY <1>2, <1>3, <1>4
  <1> QED
    BY <1>1, <1>2, <1>5 DEF ObjectsOK

LEMMA CountTypes ==
    ASSUME IndInv
    PROVE  \A k \in Label : /\ Refs(w, k) \in Nat
                            /\ Entries(w, k) \in Nat
                            /\ Named(node, k) \in Nat
                            /\ Named(graph, k) \in Nat
                            /\ IsLocal(k) => Refs(w, k) >= Entries(w, k)
  BY RefsType, NamedFinite DEF IndInv, ObjectsOK, CountsOK, Owners

LEMMA CallerDupStep ==
    ASSUME IndInv, NEW l \in Label, CallerDup(l)
    PROVE  IndInv'
  <1>1. /\ ~IsLocal(l) /\ l \notin held
        /\ held' = held \cup {l} /\ w' = agstrdup(w, l)
        /\ node' = node /\ graph' = graph /\ leaked' = leaked /\ forgot' = forgot
    BY DEF CallerDup
  <1>2. /\ WorldOK(w') /\ w'.counter = w.counter /\ w'.map = w.map
        /\ DOMAIN w'.dict = DOMAIN w.dict \cup {l}
        /\ SameAddresses(w, w')
        /\ \A k \in Label : Refs(w', k) = Refs(w, k) + One(k = l)
    BY <1>1, Dup DEF IndInv
  <1>3. w.counter <= w'.counter
    BY <1>2 DEF IndInv, WorldOK
  <1>4. ObjectsOK(node', "node", w', forgot') /\ ObjectsOK(graph', "graph", w', forgot')
    BY <1>1, <1>2, <1>3, ObjectsStay DEF IndInv, Type
  <1>5. CountsOK'
    <2> SUFFICES ASSUME NEW k \in Label
                 PROVE  /\ Refs(w', k) >= Owners(k)'
                        /\ ~leaked' => Refs(w', k) = Owners(k)'
      BY DEF CountsOK
    <2>1. Refs(w, k) >= Owners(k) /\ (~leaked => Refs(w, k) = Owners(k))
      BY DEF IndInv, CountsOK
    <2>2. Entries(w', k) = Entries(w, k)
      BY <1>2 DEF Entries
    <2> QED
      BY <1>1, <1>2, <2>1, <2>2, CountTypes DEF Owners, One
  <1> QED
    BY <1>1, <1>2, <1>4, <1>5 DEF IndInv, NodesApart, SiblingsApart, IsPlain

LEMMA CallerFreeStep ==
    ASSUME IndInv, NEW l \in Label, CallerFree(l)
    PROVE  IndInv'
  <1>1. /\ l \in held
        /\ held' = held \ {l} /\ w' = Released(w, l)
        /\ node' = node /\ graph' = graph /\ leaked' = leaked /\ forgot' = forgot
    BY DEF CallerFree
  <1>2. ~IsLocal(l) /\ l \in DOMAIN w.dict
    <2>1. ~IsLocal(l)
      BY <1>1 DEF IndInv, IsPlain
    <2>2. Owners(l) > 0
      BY <1>1, <2>1, CountTypes DEF Owners, One
    <2>3. Refs(w, l) >= Owners(l) /\ Owners(l) \in Nat
      BY <2>1, CountTypes DEF IndInv, CountsOK, Owners, One
    <2> QED
      BY <2>1, <2>2, <2>3, RefsType DEF IndInv
  <1>3. /\ WorldOK(w') /\ w'.counter = w.counter /\ w'.map = w.map
        /\ SameAddresses(w, w')
        /\ \A k \in Label : Refs(w', k) = Refs(w, k) - One(k = l)
    BY <1>1, <1>2, Release DEF IndInv
  <1>4. CountsOK'
    <2> SUFFICES ASSUME NEW k \in Label
                 PROVE  /\ Refs(w', k) >= Owners(k)'
                        /\ ~leaked' => Refs(w', k) = Owners(k)'
      BY DEF CountsOK
    <2>1. Refs(w, k) >= Owners(k) /\ (~leaked => Refs(w, k) = Owners(k))
      BY DEF IndInv, CountsOK
    <2>2. Entries(w', k) = Entries(w, k)
      BY <1>3 DEF Entries
    <2> QED
      BY <1>1, <1>2, <1>3, <2>1, <2>2, CountTypes DEF Owners, One
  <1>5. \A k \in Label : ~IsLocal(k) => Refs(w', k) >= Named(node, k) /\ Refs(w', k) >= Named(graph, k)
    <2> SUFFICES ASSUME NEW k \in Label, ~IsLocal(k)
                 PROVE  Refs(w', k) >= Named(node, k) /\ Refs(w', k) >= Named(graph, k)
      OBVIOUS
    <2>1. Refs(w', k) >= Owners(k)' /\ Refs(w', k) \in Nat
      BY <1>3, <1>4, RefsType DEF CountsOK
    <2>2. Owners(k)' = Named(node, k) + Named(graph, k) + One(k \in held')
      BY <1>1 DEF Owners
    <2> QED
      BY <2>1, <2>2, CountTypes DEF One
  <1>6. w.counter <= w'.counter
    BY <1>3 DEF IndInv, WorldOK
  <1>7. ObjectsOK(node, "node", w', forgot)
    BY <1>3, <1>5, <1>6, ObjectsRemain DEF IndInv, Type
  <1>8. ObjectsOK(graph, "graph", w', forgot)
    BY <1>3, <1>5, <1>6, ObjectsRemain DEF IndInv, Type
  <1> QED
    BY <1>1, <1>3, <1>4, <1>7, <1>8 DEF IndInv, NodesApart, SiblingsApart

\* The counts after a reservation that gave its label to one more object.
LEMMA CountsReserved ==
    ASSUME IndInv, NEW l \in Label \cup {NULL}, WorldOK(w'), SameStrings(w, w'),
           \A k \in Label : ~IsLocal(k) => Refs(w', k) = Refs(w, k) + One(k = l),
           \A k \in Label : Named(node', k) + Named(graph', k)
                           = Named(node, k) + Named(graph, k) + One(k = l),
           held' = held, leaked' = leaked
    PROVE  CountsOK'
  <1> SUFFICES ASSUME NEW k \in Label
               PROVE  /\ Refs(w', k) >= Owners(k)'
                      /\ ~leaked' => Refs(w', k) = Owners(k)'
    BY DEF CountsOK
  <1>1. Refs(w, k) >= Owners(k) /\ (~leaked => Refs(w, k) = Owners(k))
    BY DEF IndInv, CountsOK
  <1>2. Refs(w', k) \in Nat /\ Entries(w', k) \in Nat
    BY RefsType
  <1>3. CASE IsLocal(k)
    <2>1. Refs(w', k) - Entries(w', k) = Refs(w, k) - Entries(w, k)
      BY <1>3 DEF SameStrings
    <2> QED
      BY <1>1, <1>2, <1>3, <2>1, CountTypes DEF Owners
  <1>4. CASE ~IsLocal(k)
    BY <1>1, <1>2, <1>4, CountTypes DEF Owners, One
  <1> QED
    BY <1>3, <1>4

\* The ID reserved for a node is not another's.
LEMMA NodeIdNew ==
    ASSUME IndInv, NEW l \in Label \cup {NULL},
           ~(Probe(w, "node", l).ok /\ NodeOf(Probe(w, "node", l).id) # {}),
           NEW r, r = Reserve(w, "node", l)
    PROVE  \A m \in DOMAIN node : node[m].id # r.id
  <1>1. WorldOK(w) /\ "node" \in Type
    BY DEF IndInv, Type
  <1>2. \/ Probe(w, "node", l) = [w |-> w, id |-> r.id, ok |-> TRUE]
        \/ r.id \notin OddBelow(w.counter) /\ \A k \in DOMAIN w.dict : w.dict[k].addr # r.id
    BY <1>1, ReserveId
  <1>3. CASE Probe(w, "node", l) = [w |-> w, id |-> r.id, ok |-> TRUE]
    <2>1. Probe(w, "node", l).ok /\ Probe(w, "node", l).id = r.id
      BY <1>3
    <2> QED
      BY <2>1 DEF NodeOf
  <1>4. CASE r.id \notin OddBelow(w.counter) /\ \A k \in DOMAIN w.dict : w.dict[k].addr # r.id
    BY <1>4, NewId DEF IndInv, ObjectsOK
  <1> QED
    BY <1>2, <1>3, <1>4

LEMMA agnodeStep ==
    ASSUME IndInv, NEW l \in Argument, agnode(l)
    PROVE  IndInv'
  <1> DEFINE r == Reserve(w, "node", l)
             x == [id |-> r.id, label |-> l]
  <1>0. r = Reserve(w, "node", l)
    OBVIOUS
  <1>1. l \in Label \cup {NULL}
    BY DEF Argument
  <1>2. PICK n \in Node \ DOMAIN node : node' = With(node, n, x)
    BY DEF agnode
  <1>3. /\ ~(Probe(w, "node", l).ok /\ NodeOf(Probe(w, "node", l).id) # {})
        /\ w' = r.w
        /\ graph' = graph /\ held' = held /\ leaked' = leaked /\ forgot' = forgot
    BY DEF agnode
  <1>4. x.id = r.id /\ x.label = l
    OBVIOUS
  <1> HIDE DEF r
  <1>5. /\ WorldOK(w') /\ w.counter <= w'.counter
        /\ DOMAIN w.dict \subseteq DOMAIN w'.dict
        /\ SameStrings(w, w')
        /\ \A k \in Label : ~IsLocal(k) => Refs(w', k) = Refs(w, k) + One(k = l)
        /\ \A t \in Type : \A k \in DOMAIN w.map[t] :
              k \in DOMAIN w'.map[t] /\ w'.map[t][k] = w.map[t][k]
        /\ \A y, lost : y.id = r.id /\ y.label = l => ObjectOK(y, "node", w', lost)
    <2>1. WorldOK(w) /\ "node" \in Type
      BY DEF IndInv, Type
    <2> QED
      BY <1>0, <1>1, <1>3, <2>1, ReserveId
  <1> HIDE DEF x
  <1>6. \A k : Named(node', k) = Named(node, k) + One(l = k)
    BY <1>2, <1>4, NamedWith DEF IndInv, ObjectsOK
  <1>7. CountsOK'
    BY <1>1, <1>3, <1>5, <1>6, CountsReserved, CountTypes DEF One
  <1>8. ObjectsOK(node, "node", w', forgot') /\ ObjectsOK(graph', "graph", w', forgot')
    BY <1>3, <1>5, ObjectsStay DEF IndInv, SameStrings, Type
  <1>9. ObjectsOK(node', "node", w', forgot')
    BY <1>2, <1>5, <1>4, <1>8, ObjectsWith
  <1>10. \A m \in DOMAIN node : node[m].id # r.id
    BY <1>0, <1>1, <1>3, NodeIdNew
  <1>11. NodesApart'
    <2>1. DOMAIN node' = DOMAIN node \cup {n} /\ node'[n].id = r.id
      BY <1>2, <1>4 DEF With
    <2>2. \A m \in DOMAIN node : node'[m] = node[m]
      BY <1>2 DEF With
    <2> QED
      BY <1>10, <2>1, <2>2 DEF IndInv, NodesApart
  <1> QED
    BY <1>3, <1>5, <1>7, <1>8, <1>9, <1>11 DEF IndInv, SiblingsApart

\* The counts after an object lost the label of x and one got the label l.
LEMMA CountsChanged ==
    ASSUME IndInv, NEW l \in Label \cup {NULL}, NEW x, WorldOK(w'), SameStrings(w, w'),
           \A k \in Label : ~IsLocal(k) =>
               Refs(w', k) = Refs(w, k) + One(k = l) - One(k = x.label /\ ~k.html),
           \A k \in Label : Named(node', k) + Named(graph', k)
                           = Named(node, k) + Named(graph, k) + One(k = l) - One(k = x.label),
           held' = held, leaked' = (leaked \/ Leaves(x.label))
    PROVE  CountsOK'
  <1> SUFFICES ASSUME NEW k \in Label
               PROVE  /\ Refs(w', k) >= Owners(k)'
                      /\ ~leaked' => Refs(w', k) = Owners(k)'
    BY DEF CountsOK
  <1>0. ~leaked' => ~leaked /\ ~Leaves(x.label)
    OBVIOUS
  <1>1. Refs(w, k) >= Owners(k) /\ (~leaked => Refs(w, k) = Owners(k))
    BY DEF IndInv, CountsOK
  <1>2. Refs(w', k) \in Nat /\ Entries(w', k) \in Nat
    BY RefsType
  <1>3. CASE IsLocal(k)
    <2>1. Refs(w', k) - Entries(w', k) = Refs(w, k) - Entries(w, k)
      BY <1>3 DEF SameStrings
    <2>2. Owners(k)' = Entries(w', k) /\ Owners(k) = Entries(w, k)
      BY <1>3 DEF Owners
    <2> QED
      BY <1>0, <1>1, <1>2, <2>1, <2>2, CountTypes
  <1>4. CASE ~IsLocal(k)
    <2>1. k = x.label /\ k.html => leaked'
      BY <1>0, Labels DEF Leaves
    <2>2. Owners(k)' = Named(node', k) + Named(graph', k) + One(k \in held)
      BY <1>4 DEF Owners
    <2>3. Owners(k) = Named(node, k) + Named(graph, k) + One(k \in held)
      BY <1>4 DEF Owners
    <2>4. CASE k = x.label /\ k.html
      BY <1>1, <1>2, <1>4, <2>1, <2>2, <2>3, <2>4, CountTypes DEF One
    <2>5. CASE ~(k = x.label /\ k.html)
      <3>1. One(k = x.label /\ ~k.html) = One(k = x.label)
        BY <2>5 DEF One
      <3>2. Refs(w', k) - Owners(k)' = Refs(w, k) - Owners(k)
        BY <1>2, <1>4, <2>2, <2>3, <3>1, CountTypes DEF One
      <3>3. Owners(k) \in Nat /\ Owners(k)' \in Int
        BY <1>2, <2>2, <2>3, CountTypes DEF One
      <3> QED
        BY <1>0, <1>1, <1>2, <3>2, <3>3, CountTypes
    <2> QED
      BY <2>4, <2>5
  <1> QED
    BY <1>3, <1>4

\* What the counts say of the objects after any step.
LEMMA CountsSuffice ==
    ASSUME CountsOK', WorldOK(w'), IsFiniteSet(DOMAIN node'), IsFiniteSet(DOMAIN graph'),
           NEW k \in Label, ~IsLocal(k)
    PROVE  Refs(w', k) >= Named(node', k) /\ Refs(w', k) >= Named(graph', k)
  <1>1. Refs(w', k) >= Owners(k)' /\ Refs(w', k) \in Nat
    BY RefsType DEF CountsOK
  <1>2. Owners(k)' = Named(node', k) + Named(graph', k) + One(k \in held')
    BY DEF Owners
  <1>3. Named(node', k) \in Nat /\ Named(graph', k) \in Nat
    BY NamedFinite
  <1> QED
    BY <1>1, <1>2, <1>3 DEF One

LEMMA agdelnodeStep ==
    ASSUME IndInv, NEW n \in DOMAIN node, agdelnode(n)
    PROVE  IndInv'
  <1>1. /\ w' = agfreeid(w, "node", node[n].id) /\ node' = Without(node, {n})
        /\ leaked' = (leaked \/ Leaves(node[n].label))
        /\ graph' = graph /\ held' = held /\ forgot' = forgot
    BY DEF agdelnode
  <1>2. /\ WorldOK(w) /\ "node" \in Type /\ "graph" \in Type
        /\ ObjectsOK(node, "node", w, forgot) /\ ObjectsOK(graph, "graph", w, forgot)
        /\ IsFiniteSet(DOMAIN node) /\ IsFiniteSet(DOMAIN graph)
        /\ ObjectOK(node[n], "node", w, forgot)
    BY DEF IndInv, Type, ObjectsOK
  <1>3. /\ WorldOK(w') /\ w'.counter = w.counter
        /\ SameStrings(w, w')
        /\ \A k \in Label : ~IsLocal(k) =>
              Refs(w', k) = Refs(w, k) - One(k = node[n].label /\ ~k.html)
        /\ \A t \in Type : \A k \in DOMAIN w.map[t] : w.map[t][k] # node[n].id \/ t # "node" =>
              k \in DOMAIN w'.map[t] /\ w'.map[t][k] = w.map[t][k]
    BY <1>1, <1>2, FreeId, CountTypes
  <1>4. \A k : Named(node', k) = Named(node, k) - One(node[n].label = k)
    BY <1>1, <1>2, NamedWithoutOne
  <1>5. CountsOK'
    <2>1. \A k \in Label : One(k = NULL) = 0
      BY Labels DEF One
    <2>2. \A k \in Label : One(node[n].label = k) = One(k = node[n].label)
      BY DEF One
    <2>3. \A k \in Label : ~IsLocal(k) =>
             Refs(w', k) = Refs(w, k) + One(k = NULL) - One(k = node[n].label /\ ~k.html)
      BY <1>3, <2>1, CountTypes DEF One
    <2>4. \A k \in Label : Named(node', k) + Named(graph', k) =
             Named(node, k) + Named(graph, k) + One(k = NULL) - One(k = node[n].label)
      <3> SUFFICES ASSUME NEW k \in Label
                   PROVE  Named(node', k) + Named(graph', k) =
             Named(node, k) + Named(graph, k) + One(k = NULL) - One(k = node[n].label)
        OBVIOUS
      <3>1. Named(node', k) = Named(node, k) - One(k = node[n].label)
        BY <1>4, <2>2
      <3>2. One(k = node[n].label) \in Nat
        BY DEF One
      <3> QED
        BY <1>1, <2>1, <3>1, <3>2, CountTypes
    <2> QED
      BY <1>1, <1>3, <2>3, <2>4, CountsChanged
  <1>6. ObjectsOK(node', "node", w, forgot) /\ IsFiniteSet(DOMAIN node')
    BY <1>1, <1>2, ObjectsWithout DEF ObjectsOK
  <1>7. w.counter <= w'.counter /\ SameAddresses(w, w')
    BY <1>2, <1>3 DEF WorldOK, SameStrings
  <1>8. DOMAIN node' = DOMAIN node \ {n} /\ \A m \in DOMAIN node' : node'[m] = node[m]
    BY <1>1 DEF Without, Restrict
  <1>9. \A m \in DOMAIN node' : node'[m].id # node[n].id
    BY <1>8 DEF IndInv, NodesApart
  <1>10. ObjectsOK(node', "node", w', forgot)
    <2>1. \A k \in Label : ~IsLocal(k) => Refs(w', k) >= Named(node', k)
      BY <1>1, <1>2, <1>3, <1>5, <1>6, CountsSuffice
    <2>2. \A m \in DOMAIN node' : \A k \in DOMAIN w.map["node"] : w.map["node"][k] = node'[m].id =>
             k \in DOMAIN w'.map["node"] /\ w'.map["node"][k] = w.map["node"][k]
      BY <1>2, <1>3, <1>9
    <2> QED
      BY <1>1, <1>2, <1>3, <1>6, <1>7, <2>1, <2>2, ObjectsRemain
  <1>11. ObjectsOK(graph, "graph", w', forgot)
    BY <1>1, <1>2, <1>3, <1>5, <1>6, <1>7, ObjectsRemain, CountsSuffice
  <1> QED
    <2>1. NodesApart' /\ SiblingsApart'
      BY <1>1, <1>8 DEF IndInv, NodesApart, SiblingsApart
    <2>2. {leaked', forgot'} \subseteq BOOLEAN
      BY <1>1 DEF IndInv
    <2> QED
      BY <1>1, <1>3, <1>5, <1>10, <1>11, <2>1, <2>2 DEF IndInv

\* Renaming reserves the new ID and gives the old one back.
LEMMA Renamed ==
    ASSUME NEW u, WorldOK(u), \A k \in Label : IsLocal(k) => Refs(u, k) >= Entries(u, k),
           NEW ty \in Type, NEW l \in Label \cup {NULL},
           NEW old, NEW lost, ObjectOK(old, ty, u, lost),
           NEW r, r = Reserve(u, ty, l), r.id # old.id,
           NEW v, v = agfreeid(r.w, ty, old.id)
    PROVE  /\ WorldOK(v) /\ u.counter <= v.counter
           /\ SameStrings(u, v)
           /\ \A k \in Label : ~IsLocal(k) =>
                 Refs(v, k) = Refs(u, k) + One(k = l) - One(k = old.label /\ ~k.html)
           /\ \A t \in Type : \A k \in DOMAIN u.map[t] : u.map[t][k] # old.id \/ t # ty =>
                 k \in DOMAIN v.map[t] /\ v.map[t][k] = u.map[t][k]
           /\ \A y, gone : y.id = r.id /\ y.label = l /\ (IsPlain(l) => Refs(v, l) > 0)
                 => ObjectOK(y, ty, v, gone)
  <1>0. PICK s : s = r.w
    OBVIOUS
  <1>1. /\ WorldOK(s) /\ u.counter <= s.counter
        /\ DOMAIN u.dict \subseteq DOMAIN s.dict
        /\ SameStrings(u, s)
        /\ \A k \in Label : ~IsLocal(k) => Refs(s, k) = Refs(u, k) + One(k = l)
        /\ \A t \in Type : \A k \in DOMAIN u.map[t] :
              k \in DOMAIN s.map[t] /\ s.map[t][k] = u.map[t][k]
        /\ \A x, gone : x.id = r.id /\ x.label = l => ObjectOK(x, ty, s, gone)
    BY <1>0, ReserveId
  <1>2. v = agfreeid(s, ty, old.id)
    BY <1>0
  <1>3. ObjectOK(old, ty, s, lost)
    <2>1. IsPlain(old.label) => old.label \in DOMAIN s.dict
      BY <1>1 DEF ObjectOK
    <2> QED
      BY <1>1, <2>1, ObjectStays DEF SameStrings
  <1>4. \A k \in Label : IsLocal(k) => Refs(s, k) >= Entries(s, k)
    BY <1>1, RefsType DEF SameStrings
  <1>5. /\ WorldOK(v) /\ v.counter = s.counter
        /\ SameStrings(s, v)
        /\ \A k \in Label : ~IsLocal(k) =>
              Refs(v, k) = Refs(s, k) - One(k = old.label /\ ~k.html)
        /\ \A t \in Type : \A k \in DOMAIN s.map[t] : s.map[t][k] # old.id \/ t # ty =>
              k \in DOMAIN v.map[t] /\ v.map[t][k] = s.map[t][k]
    BY <1>1, <1>2, <1>3, <1>4, FreeId
  <1>6. SameStrings(u, v)
    <2>1. SameAddresses(u, v)
      BY <1>1, <1>5 DEF SameStrings, SameAddresses
    <2>2. \A k \in Label : IsLocal(k) => Refs(v, k) - Entries(v, k) = Refs(u, k) - Entries(u, k)
      BY <1>1, <1>5 DEF SameStrings
    <2> QED
      BY <2>1, <2>2 DEF SameStrings
  <1>7. ASSUME NEW y, NEW gone, y.id = r.id, y.label = l, IsPlain(l) => Refs(v, l) > 0
        PROVE  ObjectOK(y, ty, v, gone)
    <2>1. ObjectOK(y, ty, s, gone)
      BY <1>1, <1>7
    <2>2. IsPlain(y.label) => y.label \in DOMAIN v.dict
      BY <1>5, <1>7, RefsType DEF IsPlain
    <2>3. s.counter <= v.counter /\ SameAddresses(s, v)
      BY <1>1, <1>5 DEF SameStrings, WorldOK
    <2>4. \A k \in DOMAIN s.map[ty] : s.map[ty][k] = y.id =>
             k \in DOMAIN v.map[ty] /\ v.map[ty][k] = s.map[ty][k]
      BY <1>5, <1>7
    <2> QED
      BY <1>1, <1>5, <2>1, <2>2, <2>3, <2>4, ObjectStays
  <1>8. u.counter <= v.counter
    BY <1>1, <1>5
  <1>9. \A t \in Type : \A k \in DOMAIN u.map[t] : u.map[t][k] # old.id \/ t # ty =>
           k \in DOMAIN v.map[t] /\ v.map[t][k] = u.map[t][k]
    BY <1>1, <1>5
  <1>10. \A k \in Label : ~IsLocal(k) =>
            Refs(v, k) = Refs(u, k) + One(k = l) - One(k = old.label /\ ~k.html)
    BY <1>1, <1>5, RefsType DEF One
  <1> QED
    BY <1>5, <1>6, <1>7, <1>8, <1>9, <1>10

LEMMA agrelabelStep ==
    ASSUME IndInv, NEW n \in DOMAIN node, NEW l \in Argument, agrelabel_node(n, l)
    PROVE  IndInv'
  <1>0. PICK r : r = Reserve(w, "node", l)
    OBVIOUS
  <1> DEFINE x == [id |-> r.id, label |-> l]
  <1>1. l \in Label \cup {NULL}
    BY DEF Argument
  <1>2. \A m \in DOMAIN node : node[m].id # r.id
    <2>1. ~(Probe(w, "node", l).ok /\ NodeOf(Probe(w, "node", l).id) # {})
      BY DEF agrelabel_node
    <2> QED
      BY <1>0, <1>1, <2>1, NodeIdNew
  <1>3. /\ w' = agfreeid(r.w, "node", node[n].id)
        /\ node' = With(node, n, x)
        /\ leaked' = (leaked \/ Leaves(node[n].label))
        /\ graph' = graph /\ held' = held /\ forgot' = forgot
    <2>1. NodeOf(r.id) = {}
      BY <1>2 DEF NodeOf
    <2> QED
      BY <1>0, <2>1 DEF agrelabel_node
  <1>4. /\ WorldOK(w) /\ "node" \in Type /\ "graph" \in Type
        /\ ObjectsOK(node, "node", w, forgot) /\ ObjectsOK(graph, "graph", w, forgot)
        /\ IsFiniteSet(DOMAIN node) /\ IsFiniteSet(DOMAIN graph)
        /\ ObjectOK(node[n], "node", w, forgot)
    BY DEF IndInv, Type, ObjectsOK
  <1>5. x.id = r.id /\ x.label = l
    OBVIOUS
  <1> HIDE DEF x
  <1>6. /\ WorldOK(w') /\ w.counter <= w'.counter
        /\ SameStrings(w, w')
        /\ \A k \in Label : ~IsLocal(k) =>
              Refs(w', k) = Refs(w, k) + One(k = l) - One(k = node[n].label /\ ~k.html)
        /\ \A t \in Type : \A k \in DOMAIN w.map[t] : w.map[t][k] # node[n].id \/ t # "node" =>
              k \in DOMAIN w'.map[t] /\ w'.map[t][k] = w.map[t][k]
        /\ \A y, gone : y.id = r.id /\ y.label = l /\ (IsPlain(l) => Refs(w', l) > 0)
              => ObjectOK(y, "node", w', gone)
    <2>1. \A k \in Label : IsLocal(k) => Refs(w, k) >= Entries(w, k)
      BY CountTypes
    <2>2. PICK v : v = agfreeid(r.w, "node", node[n].id)
      OBVIOUS
    <2>3. v = w'
      BY <1>3, <2>2
    <2>4. r.id # node[n].id
      BY <1>2
    <2>5. WorldOK(w) /\ "node" \in Type /\ ObjectOK(node[n], "node", w, forgot)
      BY <1>4
    <2>6. /\ WorldOK(v) /\ w.counter <= v.counter
          /\ SameStrings(w, v)
          /\ \A k \in Label : ~IsLocal(k) =>
                Refs(v, k) = Refs(w, k) + One(k = l) - One(k = node[n].label /\ ~k.html)
          /\ \A t \in Type : \A k \in DOMAIN w.map[t] : w.map[t][k] # node[n].id \/ t # "node" =>
                k \in DOMAIN v.map[t] /\ v.map[t][k] = w.map[t][k]
          /\ \A y, gone : y.id = r.id /\ y.label = l /\ (IsPlain(l) => Refs(v, l) > 0)
                => ObjectOK(y, "node", v, gone)
      BY <1>0, <1>1, <2>1, <2>2, <2>4, <2>5, Renamed
    <2> QED
      BY <2>3, <2>6
  <1>7. CountsOK'
    <2>1. ASSUME NEW k \in Label
          PROVE  Named(node', k) + Named(graph', k) =
                 Named(node, k) + Named(graph, k) + One(k = l) - One(k = node[n].label)
      <3>1. Named(node', k) = Named(node, k) - One(node[n].label = k) + One(x.label = k)
        BY <1>3, <1>4, NamedChange
      <3> QED
        BY <1>3, <1>5, <3>1, CountTypes DEF One
    <2> QED
      BY <1>1, <1>3, <1>6, <2>1, CountsChanged
  <1> DEFINE h == Without(node, {n})
  <1>8. ObjectsOK(h, "node", w, forgot) /\ IsFiniteSet(DOMAIN h)
    BY <1>4, ObjectsWithout DEF ObjectsOK
  <1>9. DOMAIN h = DOMAIN node \ {n} /\ \A m \in DOMAIN h : h[m] = node[m]
    BY DEF Without, Restrict
  <1>10. DOMAIN node' = DOMAIN node
    BY <1>3 DEF With
  <1>11. node'[n] = x
    BY <1>3 DEF With
  <1>12. \A m \in DOMAIN h : node'[m] = h[m]
    BY <1>3, <1>9 DEF With
  <1> HIDE DEF h
  <1>13. \A k \in Label : ~IsLocal(k) =>
            Refs(w', k) >= Named(node', k) /\ Refs(w', k) >= Named(graph', k)
    BY <1>3, <1>4, <1>6, <1>7, <1>10, CountsSuffice
  <1>14. SameAddresses(w, w')
    BY <1>6 DEF SameStrings
  <1>15. ObjectsOK(h, "node", w', forgot)
    <2>1. \A k \in Label : Named(h, k) = Named(node, k) - One(node[n].label = k)
      BY <1>4, NamedWithoutOne DEF h
    <2>2. \A k \in Label : Named(node', k) = Named(node, k) - One(node[n].label = k) + One(x.label = k)
      BY <1>3, <1>4, NamedChange
    <2>3. \A k \in Label : ~IsLocal(k) => Refs(w', k) >= Named(h, k)
      BY <1>6, <1>13, <2>1, <2>2, CountTypes, RefsType DEF One
    <2>4. \A m \in DOMAIN h : h[m].id # node[n].id
      BY <1>9 DEF IndInv, NodesApart
    <2>5. \A m \in DOMAIN h : \A k \in DOMAIN w.map["node"] : w.map["node"][k] = h[m].id =>
             k \in DOMAIN w'.map["node"] /\ w'.map["node"][k] = w.map["node"][k]
      BY <1>4, <1>6, <2>4
    <2> QED
      BY <1>4, <1>6, <1>8, <1>14, <2>3, <2>5, ObjectsRemain
  <1>16. ObjectOK(x, "node", w', forgot)
    <2>1. ASSUME IsPlain(l)
          PROVE  Refs(w', l) > 0
      <3>1. Named(node', node'[n].label) \in Nat \ {0}
        BY <1>4, <1>10, NamedPositive
      <3> QED
        BY <1>5, <1>6, <1>11, <1>13, <2>1, <3>1, RefsType DEF IsPlain
    <2> QED
      BY <1>5, <1>6, <2>1
  <1>17. ObjectsOK(node', "node", w', forgot)
    <2>1. \A m \in DOMAIN node' : ObjectOK(node'[m], "node", w', forgot)
      BY <1>9, <1>10, <1>11, <1>12, <1>15, <1>16 DEF ObjectsOK
    <2> QED
      BY <1>4, <1>10, <2>1 DEF ObjectsOK
  <1>18. ObjectsOK(graph, "graph", w', forgot)
    <2>1. \A m \in DOMAIN graph : \A k \in DOMAIN w.map["graph"] : w.map["graph"][k] = graph[m].id =>
             k \in DOMAIN w'.map["graph"] /\ w'.map["graph"][k] = w.map["graph"][k]
      BY <1>4, <1>6
    <2> QED
      BY <1>3, <1>4, <1>6, <1>13, <1>14, <2>1, ObjectsRemain
  <1>19. NodesApart'
    BY <1>2, <1>5, <1>9, <1>10, <1>11, <1>12 DEF IndInv, NodesApart
  <1> QED
    BY <1>3, <1>6, <1>7, <1>17, <1>18, <1>19 DEF IndInv, SiblingsApart

LEMMA agsubgStep ==
    ASSUME IndInv, NEW g \in DOMAIN graph, NEW l \in Argument, agsubg(g, l)
    PROVE  IndInv'
  <1>0. PICK r : r = Reserve(w, "graph", l)
    OBVIOUS
  <1> DEFINE x == [id |-> r.id, label |-> l, parent |-> g]
  <1>1. l \in Label \cup {NULL}
    BY DEF Argument
  <1>2. PICK h \in Graph \ DOMAIN graph : graph' = With(graph, h, x)
    BY <1>0 DEF agsubg, localsubg
  <1>3. /\ l # NULL /\ Probe(w, "graph", l).ok => NULL \in Answers(g, Probe(w, "graph", l).id)
        /\ w' = r.w
        /\ node' = node /\ held' = held /\ leaked' = leaked /\ forgot' = forgot
    BY <1>0 DEF agsubg, localsubg
  <1>4. x.id = r.id /\ x.label = l /\ x.parent = g
    OBVIOUS
  <1> HIDE DEF x
  <1>5. WorldOK(w) /\ "node" \in Type /\ "graph" \in Type
    BY DEF IndInv, Type
  <1>6. /\ WorldOK(w') /\ w.counter <= w'.counter
        /\ DOMAIN w.dict \subseteq DOMAIN w'.dict
        /\ SameStrings(w, w')
        /\ \A k \in Label : ~IsLocal(k) => Refs(w', k) = Refs(w, k) + One(k = l)
        /\ \A t \in Type : \A k \in DOMAIN w.map[t] :
              k \in DOMAIN w'.map[t] /\ w'.map[t][k] = w.map[t][k]
        /\ \A y, lost : y.id = r.id /\ y.label = l => ObjectOK(y, "graph", w', lost)
    <2>1. w' = r.w
      BY <1>3
    <2>2. /\ WorldOK(w') /\ w.counter <= w'.counter
          /\ DOMAIN w.dict \subseteq DOMAIN w'.dict
          /\ SameStrings(w, w')
          /\ \A k \in Label : ~IsLocal(k) => Refs(w', k) = Refs(w, k) + One(k = l)
      BY <1>0, <1>1, <1>5, <2>1, ReserveId
    <2>3. \A t \in Type : \A k \in DOMAIN w.map[t] :
             k \in DOMAIN w'.map[t] /\ w'.map[t][k] = w.map[t][k]
      BY <1>0, <1>1, <1>5, <2>1, ReserveId
    <2>4. ASSUME NEW y, NEW lost, y.id = r.id, y.label = l
          PROVE  ObjectOK(y, "graph", w', lost)
      <3>1. PICK ty : ty = "graph" /\ ty \in Type
        BY <1>5
      <3>2. r = Reserve(w, ty, l)
        BY <1>0, <3>1
      <3>3. ObjectOK(y, ty, r.w, lost)
        BY <1>1, <1>5, <2>4, <3>1, <3>2, ReserveId
      <3> QED
        BY <2>1, <3>1, <3>3
    <2> QED
      BY <2>2, <2>3, <2>4
  <1>7. \/ Probe(w, "graph", l) = [w |-> w, id |-> r.id, ok |-> TRUE]
        \/ r.id \notin OddBelow(w.counter) /\ \A k \in DOMAIN w.dict : w.dict[k].addr # r.id
    BY <1>0, <1>1, <1>5, ReserveId
  <1>8. \A k : Named(graph', k) = Named(graph, k) + One(l = k)
    BY <1>2, <1>4, NamedWith DEF IndInv, ObjectsOK
  <1>9. CountsOK'
    BY <1>1, <1>3, <1>6, <1>8, CountsReserved, CountTypes DEF One
  <1>10. ObjectsOK(graph, "graph", w', forgot') /\ ObjectsOK(node', "node", w', forgot')
    BY <1>3, <1>5, <1>6, ObjectsStay DEF IndInv, SameStrings
  <1>11. ObjectsOK(graph', "graph", w', forgot')
    BY <1>2, <1>4, <1>6, <1>10, ObjectsWith
  <1>12. DOMAIN graph' = DOMAIN graph \cup {h} /\ graph'[h] = x
    <2>1. DOMAIN graph' = DOMAIN graph \cup {h}
      BY <1>2 DEF With
    <2>2. graph'[h] = x
      BY <1>2 DEF With
    <2> QED
      BY <2>1, <2>2
  <1>13. \A m \in DOMAIN graph : graph'[m] = graph[m]
    BY <1>2 DEF With
  <1>14. OnlyChildren => \A m \in Children(g) : graph[m].id # r.id
    <2>1. CASE Probe(w, "graph", l) = [w |-> w, id |-> r.id, ok |-> TRUE]
      <3>1. Probe(w, "graph", l).ok /\ Probe(w, "graph", l).id = r.id
        BY <2>1
      <3>2. ASSUME l = NULL
            PROVE  FALSE
        <4>1. Probe(w, "graph", l) = [w |-> w, id |-> 0, ok |-> FALSE]
          BY <3>2 DEF Probe, agmapnametoid, IsLocal
        <4>2. ~Probe(w, "graph", l).ok
          BY <4>1
        <4> QED
          BY <3>1, <4>2
      <3>3. NULL \in Answers(g, r.id)
        BY <1>3, <3>1, <3>2
      <3>4. NULL \notin Children(g)
        BY NamesConstants DEF IndInv, Children
      <3> QED
        BY <3>3, <3>4 DEF Answers
    <2>2. CASE r.id \notin OddBelow(w.counter) /\ \A k \in DOMAIN w.dict : w.dict[k].addr # r.id
      BY <2>2, NewId DEF IndInv, ObjectsOK, Children
    <2> QED
      BY <1>7, <2>1, <2>2
  <1>15. SiblingsApart'
    BY <1>4, <1>12, <1>13, <1>14 DEF IndInv, SiblingsApart, Children
  <1>16. DOMAIN graph' \subseteq Graph
    BY <1>12 DEF IndInv
  <1> QED
    BY <1>3, <1>6, <1>9, <1>10, <1>11, <1>15, <1>16 DEF IndInv, NodesApart

LEMMA KeepNameStep ==
    ASSUME IndInv, NEW g \in DOMAIN graph, NEW l \in Label, KeepName(g, l)
    PROVE  IndInv'
  <1>0. PICK r : r = Reserve(w, "graph", l)
    OBVIOUS
  <1>1. /\ w' = r.w /\ leaked' = (leaked \/ ~IsLocal(l))
        /\ node' = node /\ graph' = graph /\ held' = held /\ forgot' = forgot
    BY <1>0 DEF KeepName
  <1>2. WorldOK(w) /\ "node" \in Type /\ "graph" \in Type
    BY DEF IndInv, Type
  <1>3. /\ WorldOK(w') /\ w.counter <= w'.counter
        /\ DOMAIN w.dict \subseteq DOMAIN w'.dict
        /\ SameStrings(w, w')
        /\ \A k \in Label : ~IsLocal(k) => Refs(w', k) = Refs(w, k) + One(k = l)
        /\ \A t \in Type : \A k \in DOMAIN w.map[t] :
              k \in DOMAIN w'.map[t] /\ w'.map[t][k] = w.map[t][k]
    BY <1>0, <1>1, <1>2, ReserveId
  <1>4. ObjectsOK(graph', "graph", w', forgot') /\ ObjectsOK(node', "node", w', forgot')
    BY <1>1, <1>2, <1>3, ObjectsStay DEF IndInv, SameStrings
  <1>5. CountsOK'
    <2> SUFFICES ASSUME NEW k \in Label
                 PROVE  /\ Refs(w', k) >= Owners(k)'
                        /\ ~leaked' => Refs(w', k) = Owners(k)'
      BY DEF CountsOK
    <2>1. Refs(w, k) >= Owners(k) /\ (~leaked => Refs(w, k) = Owners(k))
      BY DEF IndInv, CountsOK
    <2>2. Refs(w', k) \in Nat /\ Entries(w', k) \in Nat
      BY <1>3, RefsType
    <2>3. ~leaked' => ~leaked /\ IsLocal(l)
      BY <1>1
    <2>4. CASE IsLocal(k)
      <3>1. Refs(w', k) - Entries(w', k) = Refs(w, k) - Entries(w, k)
        BY <1>3, <2>4 DEF SameStrings
      <3>2. Owners(k)' = Entries(w', k) /\ Owners(k) = Entries(w, k)
        BY <2>4 DEF Owners
      <3> QED
        BY <2>1, <2>2, <2>3, <3>1, <3>2, CountTypes
    <2>5. CASE ~IsLocal(k)
      <3>1. Owners(k)' = Owners(k) /\ Owners(k) \in Nat
        BY <1>1, <2>5, CountTypes DEF Owners, One
      <3>2. Refs(w', k) >= Refs(w, k) /\ (k # l => Refs(w', k) = Refs(w, k))
        BY <1>3, <2>5, CountTypes DEF One
      <3> QED
        BY <2>1, <2>2, <2>3, <2>5, <3>1, <3>2, CountTypes
    <2> QED
      BY <2>4, <2>5
  <1> QED
    BY <1>1, <1>3, <1>4, <1>5 DEF IndInv, NodesApart, SiblingsApart

LEMMA ChangeNameStep ==
    ASSUME IndInv, NEW g \in DOMAIN graph, NEW l \in Label, Renames(g, l), ChangeName(g, l)
    PROVE  IndInv'
  <1>0. PICK r : r = Reserve(w, "graph", l)
    OBVIOUS
  <1> DEFINE par == graph[g].parent
             x == [id |-> r.id, label |-> l, parent |-> par]
  <1>1. /\ g # root /\ OnlyChildren => Cardinality(Children(par)) = 1
        /\ w' = agfreeid(r.w, "graph", graph[g].id)
        /\ graph' = With(graph, g, x)
        /\ leaked' = (leaked \/ Leaves(graph[g].label))
        /\ forgot' = (forgot \/ \E h \in DOMAIN graph \ {g} : graph[h].id = graph[g].id
                                                             /\ IsLocal(graph[h].label))
        /\ node' = node /\ held' = held
    BY <1>0 DEF ChangeName
  <1>2. /\ WorldOK(w) /\ "node" \in Type /\ "graph" \in Type
        /\ ObjectsOK(node, "node", w, forgot) /\ ObjectsOK(graph, "graph", w, forgot)
        /\ IsFiniteSet(DOMAIN node) /\ IsFiniteSet(DOMAIN graph)
        /\ ObjectOK(graph[g], "graph", w, forgot)
    BY DEF IndInv, Type, ObjectsOK
  <1>3. r.id # graph[g].id
    <2>1. \/ Probe(w, "graph", l) = [w |-> w, id |-> r.id, ok |-> TRUE]
          \/ r.id \notin OddBelow(w.counter) /\ \A k \in DOMAIN w.dict : w.dict[k].addr # r.id
      BY <1>0, <1>2, ReserveId
    <2>2. CASE Probe(w, "graph", l) = [w |-> w, id |-> r.id, ok |-> TRUE]
      <3>1. Probe(w, "graph", l).id = r.id
        BY <2>2
      <3> QED
        BY <3>1 DEF Renames
    <2>3. CASE r.id \notin OddBelow(w.counter) /\ \A k \in DOMAIN w.dict : w.dict[k].addr # r.id
      BY <1>2, <2>3, NewId
    <2> QED
      BY <2>1, <2>2, <2>3
  <1>4. x.id = r.id /\ x.label = l /\ x.parent = par
    OBVIOUS
  <1> HIDE DEF x
  <1>5. ~forgot' => ~forgot /\ \A h \in DOMAIN graph \ {g} :
                                  IsLocal(graph[h].label) => graph[h].id # graph[g].id
    BY <1>1
  <1>6. /\ WorldOK(w') /\ w.counter <= w'.counter
        /\ SameStrings(w, w')
        /\ \A k \in Label : ~IsLocal(k) =>
              Refs(w', k) = Refs(w, k) + One(k = l) - One(k = graph[g].label /\ ~k.html)
        /\ \A t \in Type : \A k \in DOMAIN w.map[t] : w.map[t][k] # graph[g].id \/ t # "graph" =>
              k \in DOMAIN w'.map[t] /\ w'.map[t][k] = w.map[t][k]
        /\ \A y, gone : y.id = r.id /\ y.label = l /\ (IsPlain(l) => Refs(w', l) > 0)
              => ObjectOK(y, "graph", w', gone)
    <2>1. \A k \in Label : IsLocal(k) => Refs(w, k) >= Entries(w, k)
      BY CountTypes
    <2>2. PICK v : v = agfreeid(r.w, "graph", graph[g].id)
      OBVIOUS
    <2>3. v = w'
      BY <1>1, <2>2
    <2>4. WorldOK(w) /\ "graph" \in Type /\ ObjectOK(graph[g], "graph", w, forgot)
      BY <1>2
    <2>5. /\ WorldOK(v) /\ w.counter <= v.counter
          /\ SameStrings(w, v)
          /\ \A k \in Label : ~IsLocal(k) =>
                Refs(v, k) = Refs(w, k) + One(k = l) - One(k = graph[g].label /\ ~k.html)
          /\ \A t \in Type : \A k \in DOMAIN w.map[t] : w.map[t][k] # graph[g].id \/ t # "graph" =>
                k \in DOMAIN v.map[t] /\ v.map[t][k] = w.map[t][k]
          /\ \A y, gone : y.id = r.id /\ y.label = l /\ (IsPlain(l) => Refs(v, l) > 0)
                => ObjectOK(y, "graph", v, gone)
      BY <1>0, <1>3, <2>1, <2>2, <2>4, Renamed
    <2> QED
      BY <2>3, <2>5
  <1>7. CountsOK'
    <2>1. ASSUME NEW k \in Label
          PROVE  Named(node', k) + Named(graph', k) =
                 Named(node, k) + Named(graph, k) + One(k = l) - One(k = graph[g].label)
      <3>1. Named(graph', k) = Named(graph, k) - One(graph[g].label = k) + One(x.label = k)
        BY <1>1, <1>2, NamedChange
      <3> QED
        BY <1>1, <1>4, <3>1, CountTypes DEF One
    <2> QED
      BY <1>1, <1>6, <2>1, CountsChanged
  <1> DEFINE h == Without(graph, {g})
  <1>8. ObjectsOK(h, "graph", w, forgot) /\ IsFiniteSet(DOMAIN h)
    BY <1>2, ObjectsWithout DEF ObjectsOK
  <1>9. DOMAIN h = DOMAIN graph \ {g} /\ \A m \in DOMAIN h : h[m] = graph[m]
    BY DEF Without, Restrict
  <1>10. DOMAIN graph' = DOMAIN graph
    BY <1>1 DEF With
  <1>11. graph'[g] = x
    BY <1>1 DEF With
  <1>12. \A m \in DOMAIN h : graph'[m] = h[m]
    BY <1>1, <1>9 DEF With
  <1> HIDE DEF h
  <1>13. \A k \in Label : ~IsLocal(k) =>
            Refs(w', k) >= Named(node', k) /\ Refs(w', k) >= Named(graph', k)
    BY <1>1, <1>2, <1>6, <1>7, <1>10, CountsSuffice
  <1>14. SameAddresses(w, w')
    BY <1>6 DEF SameStrings
  <1>15. ObjectsOK(h, "graph", w', forgot')
    <2>1. \A k \in Label : Named(h, k) = Named(graph, k) - One(graph[g].label = k)
      BY <1>2, NamedWithoutOne DEF h
    <2>2. \A k \in Label :
             Named(graph', k) = Named(graph, k) - One(graph[g].label = k) + One(x.label = k)
      BY <1>1, <1>2, NamedChange
    <2>3. \A k \in Label : ~IsLocal(k) => Refs(w', k) >= Named(h, k)
      BY <1>6, <1>13, <2>1, <2>2, CountTypes, RefsType DEF One
    <2>4. ASSUME NEW m \in DOMAIN h, IsLocal(h[m].label), ~forgot'
          PROVE  /\ ~forgot
                 /\ \A k \in DOMAIN w.map["graph"] : w.map["graph"][k] = h[m].id =>
                       k \in DOMAIN w'.map["graph"] /\ w'.map["graph"][k] = w.map["graph"][k]
      <3>1. h[m].id # graph[g].id /\ ~forgot
        BY <1>5, <1>9, <2>4
      <3> QED
        BY <1>2, <1>6, <3>1
    <2> QED
      BY <1>2, <1>6, <1>8, <1>14, <2>3, <2>4, ObjectsRemain
  <1>16. ObjectOK(x, "graph", w', forgot')
    <2>1. ASSUME IsPlain(l)
          PROVE  Refs(w', l) > 0
      <3>1. Named(graph', graph'[g].label) \in Nat \ {0}
        BY <1>2, <1>10, NamedPositive
      <3> QED
        BY <1>4, <1>6, <1>11, <1>13, <2>1, <3>1, RefsType DEF IsPlain
    <2> QED
      BY <1>4, <1>6, <2>1
  <1>17. ObjectsOK(graph', "graph", w', forgot')
    <2>1. \A m \in DOMAIN graph' : ObjectOK(graph'[m], "graph", w', forgot')
      BY <1>9, <1>10, <1>11, <1>12, <1>15, <1>16 DEF ObjectsOK
    <2> QED
      BY <1>2, <1>10, <2>1 DEF ObjectsOK
  <1>18. ObjectsOK(node', "node", w', forgot')
    <2>1. \A m \in DOMAIN node : \A k \in DOMAIN w.map["node"] : w.map["node"][k] = node[m].id =>
             k \in DOMAIN w'.map["node"] /\ w'.map["node"][k] = w.map["node"][k]
      BY <1>2, <1>6
    <2> QED
      BY <1>1, <1>2, <1>5, <1>6, <1>13, <1>14, <2>1, ObjectsRemain
  <1>19. SiblingsApart'
    <2> SUFFICES ASSUME OnlyChildren, NEW m \in DOMAIN graph \ {root}, NEW n \in DOMAIN graph \ {root},
                        graph'[m].parent = graph'[n].parent, graph'[m].id = graph'[n].id
                 PROVE  m = n
      BY <1>10 DEF SiblingsApart
    <2>1. \A k \in DOMAIN graph : graph'[k].parent = graph[k].parent /\
                                 (k # g => graph'[k].id = graph[k].id)
      BY <1>4, <1>9, <1>11, <1>12
    <2>2. CASE g = root
      BY <2>1, <2>2 DEF IndInv, SiblingsApart
    <2>3. CASE g # root
      <3>1. Cardinality(Children(par)) = 1 /\ g \in Children(par) /\ IsFiniteSet(Children(par))
        BY <1>1, <1>2, <2>3, FS_Subset DEF Children
      <3>2. PICK c : Children(par) = {c}
        BY <3>1, FS_Singleton
      <3>3. \A k \in DOMAIN graph \ {root} : graph[k].parent = par => k = g
        BY <3>1, <3>2 DEF Children
      <3> QED
        BY <2>1, <3>3 DEF IndInv, SiblingsApart
    <2> QED
      BY <2>2, <2>3
  <1>20. {leaked', forgot'} \subseteq BOOLEAN
    BY <1>1 DEF IndInv
  <1> QED
    BY <1>1, <1>6, <1>7, <1>10, <1>17, <1>18, <1>19, <1>20 DEF IndInv, NodesApart

LEMMA agrenameStep ==
    ASSUME IndInv, NEW g \in DOMAIN graph, NEW l \in Argument, l # NULL, agrename(g, l)
    PROVE  IndInv'
  <1>1. l \in Label /\ Renames(g, l) /\ (KeepName(g, l) \/ ChangeName(g, l))
    BY DEF Argument, agrename
  <1> QED
    BY <1>1, KeepNameStep, ChangeNameStep

\* The objects whose ID is a string's address are those of its label, if it is
\* not local, and none if it is.
LEMMA IdIsAddress ==
    ASSUME NEW u, WorldOK(u), NEW f, NEW ty, NEW lost, ObjectsOK(f, ty, u, lost),
           NEW F \in SUBSET DOMAIN f, NEW k \in DOMAIN u.dict
    PROVE  {m \in F : f[m].id = u.dict[k].addr} =
           IF IsLocal(k) THEN {} ELSE {m \in F : f[m].label = k}
  <1>1. /\ DictOK(u.dict) /\ u.counter \in Nat /\ k \in Label
        /\ \A m \in F : ObjectOK(f[m], ty, u, lost)
    BY DEF WorldOK, DictOK, ObjectsOK
  <1>2. u.dict[k].addr \notin OddBelow(u.counter)
    BY <1>1, Parity DEF DictOK
  <1>3. ASSUME NEW m \in F, f[m].id = u.dict[k].addr
        PROVE  f[m].label = k /\ ~IsLocal(k)
    <2>1. IsPlain(f[m].label)
      BY <1>1, <1>2, <1>3 DEF ObjectOK, IsPlain
    <2>2. f[m].label \in DOMAIN u.dict /\ f[m].id = u.dict[f[m].label].addr
      BY <1>1, <2>1 DEF ObjectOK
    <2>3. f[m].label = k
      BY <1>1, <1>3, <2>2 DEF DictOK
    <2> QED
      BY <2>1, <2>3 DEF IsPlain
  <1>4. ASSUME NEW m \in F, f[m].label = k, ~IsLocal(k)
        PROVE  f[m].id = u.dict[k].addr
    BY <1>1, <1>4 DEF ObjectOK, IsPlain
  <1> QED
    BY <1>3, <1>4

LEMMA agcloseStep ==
    ASSUME IndInv, NEW g \in DOMAIN graph, agclose(g)
    PROVE  IndInv'
  <1>0. PICK F : F = Family(g)
    OBVIOUS
  <1> DEFINE closed(k) == Cardinality({m \in F : graph[m].label = k})
             given(k) == IF k.html THEN 0
                         ELSE Cardinality({m \in F : graph[m].id = w.dict[k].addr})
             stays == {k \in DOMAIN w.dict : given(k) = 0 \/ w.dict[k].refcnt > given(k)}
             d == [k \in stays |-> [addr |-> w.dict[k].addr,
                                    refcnt |-> w.dict[k].refcnt - given(k)]]
  <1>1. /\ graph' = Without(graph, F)
        /\ leaked' = (leaked \/ Remembers \/ \E m \in F : Leaves(graph[m].label))
        /\ forgot' = (forgot \/ Remembers)
        /\ node' = node /\ held' = held
    BY <1>0 DEF agclose, Closed
  <1>2. w' = [w EXCEPT !.map = EmptyMap, !.dict = d]
    BY <1>0 DEF agclose
  <1>3. /\ WorldOK(w) /\ "node" \in Type /\ "graph" \in Type
        /\ ObjectsOK(node, "node", w, forgot) /\ ObjectsOK(graph, "graph", w, forgot)
        /\ IsFiniteSet(DOMAIN node) /\ IsFiniteSet(DOMAIN graph)
    BY DEF IndInv, Type, ObjectsOK
  <1>4. F \in SUBSET DOMAIN graph /\ IsFiniteSet(F)
    <2>1. F \in SUBSET DOMAIN graph
      BY <1>0 DEF Family, Down
    <2> QED
      BY <1>3, <2>1, FS_Subset
  <1>5. ASSUME NEW k
        PROVE  closed(k) \in Nat /\ Named(graph', k) = Named(graph, k) - closed(k)
    BY <1>1, <1>3, <1>4, FS_Subset, FS_CardinalityType, NamedWithout
  <1>6. ASSUME NEW k \in DOMAIN w.dict
        PROVE  given(k) = IF k.html \/ IsLocal(k) THEN 0 ELSE closed(k)
    <2>1. {m \in F : graph[m].id = w.dict[k].addr} =
          IF IsLocal(k) THEN {} ELSE {m \in F : graph[m].label = k}
      BY <1>3, <1>4, IdIsAddress
    <2>2. Cardinality({m \in F : graph[m].id = w.dict[k].addr}) =
          IF IsLocal(k) THEN 0 ELSE closed(k)
      BY <2>1, FS_EmptySet
    <2> QED
      BY <2>2
  <1>7. ASSUME NEW k, closed(k) # 0, k # NULL, k.html
        PROVE  leaked'
    <2>1. {m \in F : graph[m].label = k} # {}
      BY <1>7, FS_EmptySet
    <2> QED
      BY <1>1, <1>7, <2>1 DEF Leaves
  <1> HIDE DEF closed, given
  <1>8. w' = [dict |-> d, counter |-> w.counter, map |-> EmptyMap]
    BY <1>2, <1>3 DEF WorldOK
  <1>9. \A k \in DOMAIN w.dict : given(k) \in Nat /\ w.dict[k].refcnt \in Nat \ {0}
    BY <1>3, <1>5, <1>6 DEF WorldOK, DictOK
  <1>10. /\ DOMAIN d = stays
         /\ \A k \in stays : d[k].addr = w.dict[k].addr
         /\ \A k \in stays : d[k].refcnt = w.dict[k].refcnt - given(k)
    OBVIOUS
  <1>11. stays \subseteq DOMAIN w.dict
    OBVIOUS
  <1>12. \A k \in DOMAIN w.dict : k \in stays <=> given(k) = 0 \/ w.dict[k].refcnt > given(k)
    OBVIOUS
  <1> HIDE DEF stays, d
  <1>13. DictOK(d)
    <2>1. DOMAIN d \subseteq Label /\ IsFiniteSet(DOMAIN d)
      BY <1>3, <1>10, <1>11, FS_Subset DEF WorldOK, DictOK
    <2>2. \A k \in DOMAIN d : d[k].addr \in Addresses
      BY <1>3, <1>10, <1>11 DEF WorldOK, DictOK
    <2>3. \A k \in DOMAIN d : d[k].refcnt \in Nat \ {0}
      BY <1>9, <1>10, <1>11, <1>12
    <2>4. \A j, k \in DOMAIN d : d[j].addr = d[k].addr => j = k
      BY <1>3, <1>10, <1>11 DEF WorldOK, DictOK
    <2> QED
      BY <2>1, <2>2, <2>3, <2>4 DEF DictOK
  <1>14. MapOK(EmptyMap, w.counter)
    BY DEF MapOK, EmptyMap
  <1>15. w'.dict = d /\ w'.counter = w.counter /\ w'.map = EmptyMap
    BY <1>8
  <1>16. WorldOK(w')
    BY <1>3, <1>8, <1>13, <1>14, <1>15 DEF WorldOK
  <1>17. SameAddresses(w, w') /\ w.counter <= w'.counter
    BY <1>3, <1>10, <1>15 DEF SameAddresses, WorldOK
  <1>18. ASSUME NEW k \in Label
         PROVE  Refs(w', k) = Refs(w, k) - (IF k.html \/ IsLocal(k) THEN 0 ELSE closed(k))
    <2>1. Refs(w, k) >= Owners(k)
      BY DEF IndInv, CountsOK
    <2>2. ~IsLocal(k) => Refs(w, k) >= Named(graph, k) /\ Named(graph, k) >= closed(k)
      <3>1. ~IsLocal(k) => Refs(w, k) >= Named(graph, k)
        BY <2>1, CountTypes DEF Owners, One
      <3>2. IsFiniteSet(DOMAIN graph')
        BY <1>1, <1>3, ObjectsWithout DEF ObjectsOK
      <3>3. Named(graph', k) \in Nat /\ Named(graph, k) \in Nat
        BY <1>3, <3>2, NamedFinite
      <3>4. Named(graph', k) = Named(graph, k) - closed(k) /\ closed(k) \in Nat
        BY <1>5
      <3> QED
        BY <3>1, <3>3, <3>4
    <2>3. closed(k) \in Nat /\ Named(graph, k) \in Nat /\ Refs(w, k) \in Nat
      BY <1>5, CountTypes
    <2>4. CASE k \in DOMAIN w.dict
      <3>1. Refs(w, k) = w.dict[k].refcnt
        BY <2>4 DEF Refs
      <3>2. given(k) = IF k.html \/ IsLocal(k) THEN 0 ELSE closed(k)
        BY <1>6, <2>4
      <3>3. given(k) <= Refs(w, k)
        BY <2>2, <2>3, <3>2
      <3>4. Refs(w', k) = IF k \in stays THEN Refs(w, k) - given(k) ELSE 0
        BY <1>10, <1>15, <3>1 DEF Refs
      <3> QED
        BY <1>9, <1>12, <2>4, <3>1, <3>2, <3>3, <3>4
    <2>5. CASE k \notin DOMAIN w.dict
      <3>1. Refs(w, k) = 0
        BY <2>5 DEF Refs
      <3>2. Refs(w', k) = 0
        BY <1>10, <1>11, <1>15, <2>5 DEF Refs
      <3> QED
        BY <2>2, <2>3, <3>1, <3>2
    <2> QED
      BY <2>4, <2>5
  <1>19. CountsOK'
    <2> SUFFICES ASSUME NEW k \in Label
                 PROVE  /\ Refs(w', k) >= Owners(k)'
                        /\ ~leaked' => Refs(w', k) = Owners(k)'
      BY DEF CountsOK
    <2>1. Refs(w, k) >= Owners(k) /\ (~leaked => Refs(w, k) = Owners(k))
      BY DEF IndInv, CountsOK
    <2>2. ~leaked' => ~leaked /\ ~Remembers
      BY <1>1
    <2>3. CASE IsLocal(k)
      <3>1. Owners(k)' = 0
        BY <1>15, <2>3 DEF Owners, Entries, EmptyMap, One, Type
      <3>2. Refs(w', k) = Refs(w, k) /\ Refs(w, k) \in Nat
        BY <1>18, <2>3, CountTypes
      <3>3. ~leaked' => Owners(k) = 0
        BY <2>2, <2>3 DEF Owners, Entries, Remembers, One, Type
      <3> QED
        BY <2>1, <2>2, <3>1, <3>2, <3>3
    <2>4. CASE ~IsLocal(k)
      <3>1. Owners(k)' = Named(node', k) + Named(graph', k) + One(k \in held')
        BY <2>4 DEF Owners
      <3>2. Owners(k) = Named(node, k) + Named(graph, k) + One(k \in held)
        BY <2>4 DEF Owners
      <3>3. Owners(k)' = Owners(k) - closed(k) /\ Owners(k) \in Nat /\ closed(k) \in Nat
        BY <1>1, <1>5, <3>1, <3>2, CountTypes DEF One
      <3>4. Refs(w', k) = Refs(w, k) - (IF k.html THEN 0 ELSE closed(k))
        BY <1>18, <2>4
      <3>5. ~leaked' /\ k.html => closed(k) = 0
        BY <1>7, Labels
      <3> QED
        BY <2>1, <2>2, <3>3, <3>4, <3>5, CountTypes
    <2> QED
      BY <2>3, <2>4
  <1>20. ~forgot' => ~forgot /\ \A t \in Type : DOMAIN w.map[t] = {}
    BY <1>1 DEF Remembers
  <1>21. ObjectsOK(graph', "graph", w, forgot) /\ IsFiniteSet(DOMAIN graph')
    BY <1>1, <1>3, ObjectsWithout DEF ObjectsOK
  <1>22. \A k \in Label : ~IsLocal(k) =>
            Refs(w', k) >= Named(node', k) /\ Refs(w', k) >= Named(graph', k)
    BY <1>1, <1>3, <1>16, <1>19, <1>21, CountsSuffice
  <1>23. ObjectsOK(graph', "graph", w', forgot')
    BY <1>3, <1>16, <1>17, <1>20, <1>21, <1>22, ObjectsRemain
  <1>24. ObjectsOK(node', "node", w', forgot')
    BY <1>1, <1>3, <1>16, <1>17, <1>20, <1>22, ObjectsRemain
  <1>25. DOMAIN graph' \subseteq DOMAIN graph /\ \A m \in DOMAIN graph' : graph'[m] = graph[m]
    <2>1. DOMAIN graph' = DOMAIN graph \ F
      BY <1>1, WithoutFacts
    <2> QED
      BY <1>1, <2>1, WithoutFacts
  <1>26. DOMAIN graph' \subseteq Graph /\ SiblingsApart'
    BY <1>25 DEF IndInv, SiblingsApart
  <1>27. {leaked', forgot'} \subseteq BOOLEAN
    BY <1>1 DEF IndInv, Remembers
  <1> QED
    BY <1>1, <1>16, <1>19, <1>23, <1>24, <1>26, <1>27 DEF IndInv, NodesApart

\* agopen makes it true.
LEMMA Opened ==
    ASSUME Init
    PROVE  IndInv
  <1>0. PICK o \in Openings : w = o.w /\ graph = o.graph
    BY DEF Init
  <1> DEFINE u == [dict |-> <<>>, counter |-> 0, map |-> EmptyMap]
  <1>1. PICK l \in [text : Text, html : {FALSE}] \cup {NULL} : o = agopen(l)
    BY DEF Openings
  <1>2. l \in Label \cup {NULL}
    BY <1>1 DEF Label
  <1>3. PICK r : r = Reserve(u, "graph", l)
    OBVIOUS
  <1>4. w = r.w /\ graph = [g \in {root} |-> [id |-> r.id, label |-> l, parent |-> NULL]]
    BY <1>0, <1>1, <1>3 DEF agopen
  <1>5. DOMAIN <<>> = {} /\ node = <<>> /\ held = {} /\ leaked = FALSE /\ forgot = FALSE
    BY DEF Init
  <1>6. WorldOK(u)
    <2>1. DictOK(u.dict)
      BY <1>5, FS_EmptySet DEF DictOK
    <2>2. MapOK(u.map, u.counter)
      BY <1>5 DEF MapOK, EmptyMap
    <2> QED
      BY <2>1, <2>2 DEF WorldOK
  <1>7. \A k \in Label : Refs(u, k) = 0 /\ Entries(u, k) = 0
    BY <1>5 DEF Refs, Entries, EmptyMap, One, Type
  <1> HIDE DEF u
  <1>8. "graph" \in Type
    BY DEF Type
  <1>9. /\ WorldOK(w) /\ SameStrings(u, w)
        /\ \A k \in Label : ~IsLocal(k) => Refs(w, k) = Refs(u, k) + One(k = l)
    BY <1>2, <1>3, <1>4, <1>6, <1>8, ReserveId
  <1>10. ASSUME NEW y, NEW lost, y.id = r.id, y.label = l
         PROVE  ObjectOK(y, "graph", w, lost)
    <2>1. PICK ty : ty = "graph" /\ ty \in Type
      BY <1>8
    <2>2. r = Reserve(u, ty, l)
      BY <1>3, <2>1
    <2>3. ObjectOK(y, ty, r.w, lost)
      BY <1>2, <1>6, <1>10, <2>1, <2>2, ReserveId
    <2> QED
      BY <1>4, <2>1, <2>3
  <1>11. /\ DOMAIN graph = {root} /\ graph[root].id = r.id /\ graph[root].label = l
         /\ IsFiniteSet({root})
    <2>1. IsFiniteSet({root})
      BY FS_Singleton
    <2>2. DOMAIN graph = {root} /\ graph[root] = [id |-> r.id, label |-> l, parent |-> NULL]
      BY <1>4
    <2>3. graph[root].id = r.id
      BY <2>2
    <2>4. graph[root].label = l
      BY <2>2
    <2> QED
      BY <2>1, <2>2, <2>3, <2>4
  <1>12. ObjectsOK(graph, "graph", w, forgot)
    BY <1>10, <1>11 DEF ObjectsOK
  <1>13. ObjectsOK(node, "node", w, forgot) /\ NodesApart
    BY <1>5, FS_EmptySet DEF ObjectsOK, NodesApart
  <1>14. SiblingsApart /\ DOMAIN graph \subseteq Graph
    BY <1>11, NamesConstants DEF SiblingsApart
  <1>15. CountsOK
    <2> SUFFICES ASSUME NEW k \in Label
                 PROVE  Refs(w, k) = Owners(k) /\ Owners(k) \in Nat
      BY DEF CountsOK
    <2>1. Refs(w, k) \in Nat /\ Entries(w, k) \in Nat
      BY <1>9, RefsType
    <2>2. CASE IsLocal(k)
      <3>1. Refs(w, k) - Entries(w, k) = Refs(u, k) - Entries(u, k)
        BY <1>9, <2>2 DEF SameStrings
      <3>2. Owners(k) = Entries(w, k)
        BY <2>2 DEF Owners
      <3> QED
        BY <1>7, <2>1, <3>1, <3>2
    <2>3. CASE ~IsLocal(k)
      <3>1. Named(node, k) = 0
        BY <1>5, FS_EmptySet DEF Named
      <3>2. Named(graph, k) = One(k = l)
        <4>1. {x \in DOMAIN graph : graph[x].label = k} = IF k = l THEN {root} ELSE {}
          BY <1>11
        <4> QED
          BY <4>1, FS_EmptySet, FS_Singleton DEF Named, One
      <3>3. Owners(k) = Named(node, k) + Named(graph, k) + One(k \in held)
        BY <2>3 DEF Owners
      <3>4. Owners(k) = One(k = l) /\ Owners(k) \in Nat
        BY <1>5, <3>1, <3>2, <3>3 DEF One
      <3> QED
        BY <1>7, <1>9, <2>1, <2>3, <3>4 DEF One
    <2> QED
      BY <2>2, <2>3
  <1> QED
    BY <1>5, <1>9, <1>12, <1>13, <1>14, <1>15 DEF IndInv

----------------------------------------------------------------------------
(* Theorems                                                                *)

\* Every operation of Names keeps the inductive invariant, and agopen makes it
\* true.
THEOREM Inductive == Spec => []IndInv
  <1>1. Init => IndInv
    BY Opened
  <1>2. Init' => IndInv'
    BY <1>1, PTL
  <1>3. IndInv /\ [Next]_vars => IndInv'
    <2> SUFFICES ASSUME IndInv, [Next]_vars
                 PROVE  IndInv'
      OBVIOUS
    <2>1. ASSUME NEW l \in Label, CallerDup(l)
          PROVE  IndInv'
      BY <2>1, CallerDupStep
    <2>2. ASSUME NEW l \in Label, CallerFree(l)
          PROVE  IndInv'
      BY <2>2, CallerFreeStep
    <2>3. ASSUME NEW l \in Argument, agnode(l)
          PROVE  IndInv'
      BY <2>3, agnodeStep
    <2>4. ASSUME NEW l \in Argument, NEW n \in DOMAIN node, agrelabel_node(n, l)
          PROVE  IndInv'
      BY <2>4, agrelabelStep
    <2>5. ASSUME NEW l \in Argument, NEW g \in DOMAIN graph, agsubg(g, l)
          PROVE  IndInv'
      BY <2>5, agsubgStep
    <2>6. ASSUME NEW l \in Argument, NEW g \in DOMAIN graph, l # NULL, agrename(g, l)
          PROVE  IndInv'
      BY <2>6, agrenameStep
    <2>7. ASSUME NEW n \in DOMAIN node, agdelnode(n)
          PROVE  IndInv'
      BY <2>7, agdelnodeStep
    <2>8. ASSUME NEW g \in DOMAIN graph, agclose(g)
          PROVE  IndInv'
      BY <2>8, agcloseStep
    <2>9. CASE Reopen
      BY <1>2, <2>9 DEF Reopen, Init
    <2>10. CASE UNCHANGED vars
      BY <2>10 DEF vars, IndInv, CountsOK, Owners, NodesApart, SiblingsApart
    <2> QED
      BY <2>1, <2>2, <2>3, <2>4, <2>5, <2>6, <2>7, <2>8, <2>9, <2>10 DEF Next
  <1> QED
    BY <1>1, <1>3, PTL DEF Spec

\* The users of a string that the properties count by its address are its
\* owners by label.
LEMMA UsersAreOwners ==
    ASSUME IndInv, NEW l \in DOMAIN w.dict
    PROVE  Users(l) = Owners(l)
  <1> DEFINE a == w.dict[l].addr
             N == Cardinality({n \in DOMAIN node : node[n].id = a})
             G == Cardinality({g \in DOMAIN graph : graph[g].id = a})
             E == Cardinality({ty \in Type : l \in DOMAIN w.map[ty]})
             H == Cardinality(held \cap {l})
  <1>1. /\ WorldOK(w) /\ l \in Label
        /\ ObjectsOK(node, "node", w, forgot) /\ ObjectsOK(graph, "graph", w, forgot)
    BY DEF IndInv, WorldOK, DictOK
  <1>2. N = (IF IsLocal(l) THEN 0 ELSE Named(node, l))
    <2>1. {m \in DOMAIN node : node[m].id = a} =
          IF IsLocal(l) THEN {} ELSE {m \in DOMAIN node : node[m].label = l}
      BY <1>1, IdIsAddress
    <2> QED
      BY <2>1, FS_EmptySet DEF Named
  <1>3. G = (IF IsLocal(l) THEN 0 ELSE Named(graph, l))
    <2>1. {m \in DOMAIN graph : graph[m].id = a} =
          IF IsLocal(l) THEN {} ELSE {m \in DOMAIN graph : graph[m].label = l}
      BY <1>1, IdIsAddress
    <2> QED
      BY <2>1, FS_EmptySet DEF Named
  <1>4. E = Entries(w, l)
    <2>1. Cardinality({"node"}) = 1 /\ Cardinality({"graph"}) = 1 /\ IsFiniteSet({"node"})
      BY FS_Singleton
    <2>2. Cardinality({"node", "graph"}) = 2
      <3>1. {"node", "graph"} = {"node"} \cup {"graph"} /\ "graph" \notin {"node"}
        OBVIOUS
      <3>2. \A S, x : IsFiniteSet(S) /\ x \notin S => Cardinality(S \cup {x}) = Cardinality(S) + 1
        BY FS_AddElement
      <3>3. Cardinality({"node"} \cup {"graph"}) = Cardinality({"node"}) + 1
        BY <2>1, <3>1, <3>2
      <3> QED
        BY <2>1, <3>1, <3>3
    <2>3. {ty \in Type : l \in DOMAIN w.map[ty]} =
             (IF l \in DOMAIN w.map["node"] THEN {"node"} ELSE {}) \cup
             (IF l \in DOMAIN w.map["graph"] THEN {"graph"} ELSE {})
      BY DEF Type
    <2>4. CASE l \in DOMAIN w.map["node"] /\ l \in DOMAIN w.map["graph"]
      <3>1. {ty \in Type : l \in DOMAIN w.map[ty]} = {"node", "graph"}
        BY <2>3, <2>4
      <3>2. E = 2
        BY <3>1, <2>2
      <3>3. Entries(w, l) = 2
        BY <2>4 DEF Entries, One
      <3> QED
        BY <3>2, <3>3
    <2>5. CASE l \in DOMAIN w.map["node"] /\ l \notin DOMAIN w.map["graph"]
      <3>1. {ty \in Type : l \in DOMAIN w.map[ty]} = {"node"}
        BY <2>3, <2>5
      <3> QED
        BY <2>1, <2>5, <3>1 DEF Entries, One
    <2>6. CASE l \notin DOMAIN w.map["node"] /\ l \in DOMAIN w.map["graph"]
      <3>1. {ty \in Type : l \in DOMAIN w.map[ty]} = {"graph"}
        BY <2>3, <2>6
      <3> QED
        BY <2>1, <2>6, <3>1 DEF Entries, One
    <2>7. CASE l \notin DOMAIN w.map["node"] /\ l \notin DOMAIN w.map["graph"]
      <3>1. {ty \in Type : l \in DOMAIN w.map[ty]} = {}
        BY <2>3, <2>7
      <3>2. E = 0
        BY <3>1, FS_EmptySet
      <3>3. Entries(w, l) = 0
        BY <2>7 DEF Entries, One
      <3> QED
        BY <3>2, <3>3
    <2> QED
      BY <2>4, <2>5, <2>6, <2>7
  <1>5. H = One(l \in held)
    <2>1. CASE l \in held
      <3>1. held \cap {l} = {l}
        BY <2>1
      <3> QED
        BY <2>1, <3>1, FS_Singleton DEF One
    <2>2. CASE l \notin held
      <3>1. held \cap {l} = {}
        BY <2>2
      <3> QED
        BY <2>2, <3>1, FS_EmptySet DEF One
    <2> QED
      BY <2>1, <2>2
  <1>6. Users(l) = N + G + E + H
    BY DEF Users
  <1> HIDE DEF N, G, E, H
  <1>7. CASE IsLocal(l)
    <2>1. l \notin held
      BY <1>7 DEF IndInv, IsPlain
    <2>2. Owners(l) = Entries(w, l) /\ Entries(w, l) \in Nat
      BY <1>1, <1>7, CountTypes DEF Owners
    <2> QED
      BY <1>2, <1>3, <1>4, <1>5, <1>6, <1>7, <2>1, <2>2 DEF One
  <1>8. CASE ~IsLocal(l)
    <2>1. E = 0
      BY <1>1, <1>4, <1>8 DEF WorldOK, MapOK, Entries, One, Type
    <2>2. Owners(l) = Named(node, l) + Named(graph, l) + One(l \in held)
      BY <1>8 DEF Owners
    <2>3. Named(node, l) \in Nat /\ Named(graph, l) \in Nat /\ One(l \in held) \in Nat
      BY <1>1, CountTypes DEF One
    <2> QED
      BY <1>2, <1>3, <1>5, <1>6, <1>8, <2>1, <2>2, <2>3
  <1> QED
    BY <1>7, <1>8

\* A label that an object has leads to its ID, unless it is local and forgotten.
LEMMA ProbeFinds ==
    ASSUME NEW u, NEW ty, NEW x, NEW lost, ObjectOK(x, ty, u, lost),
           x.label # NULL, IsLocal(x.label) => ~lost
    PROVE  Probe(u, ty, x.label).id = x.id
  <1>1. CASE IsLocal(x.label)
    <2>1. x.label \in DOMAIN u.map[ty] /\ u.map[ty][x.label] = x.id
      BY <1>1 DEF ObjectOK
    <2>2. Probe(u, ty, x.label) = [w |-> u, id |-> u.map[ty][x.label], ok |-> TRUE]
      BY <1>1, <2>1 DEF Probe, agmapnametoid
    <2> QED
      BY <2>1, <2>2
  <1>2. CASE ~IsLocal(x.label)
    <2>1. x.label \in DOMAIN u.dict /\ u.dict[x.label].addr = x.id
      BY <1>2 DEF ObjectOK, IsPlain
    <2>2. Probe(u, ty, x.label) = [w |-> u, id |-> agstrbind(u, x.label), ok |-> TRUE]
      BY <1>2 DEF Probe, agmapnametoid
    <2> QED
      BY <2>1, <2>2 DEF agstrbind
  <1> QED
    BY <1>1, <1>2

\* agstrdup and agstrfree are called so that no string goes while an object, an
\* entry of the internal map or a caller uses it: its ID never becomes that of
\* another name.
THEOREM NoStringGoesEarly == Spec => []StringsOutliveUsers
  <1>1. IndInv => StringsOutliveUsers
    <2> SUFFICES ASSUME IndInv
                 PROVE  StringsOutliveUsers
      OBVIOUS
    <2>1. ASSUME NEW l \in DOMAIN w.dict
          PROVE  w.dict[l].refcnt >= Users(l)
      <3>1. l \in Label
        BY DEF IndInv, WorldOK, DictOK
      <3>2. Refs(w, l) >= Owners(l) /\ Refs(w, l) = w.dict[l].refcnt
        BY <3>1 DEF IndInv, CountsOK, Refs
      <3> QED
        BY <3>2, UsersAreOwners
    <2>2. ASSUME NEW x \in {node[n] : n \in DOMAIN node} \cup {graph[g] : g \in DOMAIN graph},
                 x.label # NULL, ~IsLocal(x.label)
          PROVE  x.label \in DOMAIN w.dict /\ w.dict[x.label].addr = x.id
      BY <2>2 DEF IndInv, ObjectsOK, ObjectOK, IsPlain
    <2>3. ASSUME NEW ty \in Type, NEW l \in DOMAIN w.map[ty]
          PROVE  l \in DOMAIN w.dict
      <3>1. l \in Label /\ IsLocal(l)
        BY DEF IndInv, WorldOK, MapOK
      <3>2. Entries(w, l) > 0
        BY DEF Entries, One, Type
      <3> QED
        BY <3>1, <3>2, CountTypes, RefsType DEF IndInv
    <2>4. ASSUME NEW l \in held
          PROVE  l \in DOMAIN w.dict
      <3>1. l \in Label /\ ~IsLocal(l)
        BY DEF IndInv, IsPlain
      <3>2. Refs(w, l) >= Owners(l)
        BY <3>1 DEF IndInv, CountsOK
      <3>3. Owners(l) = Named(node, l) + Named(graph, l) + One(l \in held) /\ One(l \in held) = 1
        BY <3>1 DEF Owners, One
      <3>4. Refs(w, l) > 0
        BY <3>1, <3>2, <3>3, CountTypes
      <3> QED
        BY <3>1, <3>4, RefsType DEF IndInv
    <2> QED
      BY <2>1, <2>2, <2>3, <2>4 DEF StringsOutliveUsers
  <1> QED
    BY <1>1, Inductive, PTL

\* And a string goes with its last user, unless one of the calls that leave a
\* reference behind was made: agdelete and agclose of HTML-like names, agclose
\* of a subgraph while the internal map has entries, and an agrename that fails.
THEOREM NoStringStays == Spec => []StringsGoWithUsers
  <1>1. IndInv => StringsGoWithUsers
    <2> SUFFICES ASSUME IndInv, ~leaked, NEW l \in DOMAIN w.dict
                 PROVE  w.dict[l].refcnt = Users(l)
      BY DEF StringsGoWithUsers
    <2>1. l \in Label
      BY DEF IndInv, WorldOK, DictOK
    <2>2. Refs(w, l) = Owners(l) /\ Refs(w, l) = w.dict[l].refcnt
      BY <2>1 DEF IndInv, CountsOK, Refs
    <2> QED
      BY <2>2, UsersAreOwners
  <1> QED
    BY <1>1, Inductive, PTL

\* agnode and agsubg never give two nodes, or two children of a graph, one ID,
\* and a search by the name given last finds the object itself, if callers
\* rename no subgraph that has siblings.
THEOREM NamesFind ==
    ASSUME OnlyChildren
    PROVE  Spec => []FoundByName
  <1>1. IndInv => FoundByName
    <2> SUFFICES ASSUME IndInv
                 PROVE  FoundByName
      OBVIOUS
    <2>1. NodesApart /\ SiblingsApart
      BY DEF IndInv
    <2>2. ASSUME NEW n \in DOMAIN node, node[n].label # NULL, IsLocal(node[n].label) => ~forgot
          PROVE  NodeOf(Probe(w, "node", node[n].label).id) = {n}
      <3>1. Probe(w, "node", node[n].label).id = node[n].id
        BY <2>2, ProbeFinds DEF IndInv, ObjectsOK
      <3> QED
        BY <2>1, <3>1 DEF NodeOf, NodesApart
    <2>3. ASSUME NEW g \in DOMAIN graph \ {root},
                 NEW id, id = IF graph[g].label = NULL \/ (IsLocal(graph[g].label) /\ forgot)
                              THEN graph[g].id ELSE Probe(w, "graph", graph[g].label).id
          PROVE  {h \in Children(graph[g].parent) : graph[h].id = id} = {g}
      <3>1. id = graph[g].id
        BY <2>3, ProbeFinds DEF IndInv, ObjectsOK
      <3> QED
        BY <2>1, <3>1 DEF Children, SiblingsApart
    <2> QED
      BY <2>1, <2>2, <2>3 DEF FoundByName, NodesApart
  <1> QED
    BY <1>1, Inductive, PTL
=============================================================================
