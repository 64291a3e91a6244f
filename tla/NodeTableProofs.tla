-------------------------- MODULE NodeTableProofs ---------------------------
(***************************************************************************)
(* Lemmas about the hash table of NodeTable, for every capacity: what one  *)
(* probe loop finds, and that filling the slot it found and marking the    *)
(* slot of a removed item keep TableOK.  First the facts about natural     *)
(* numbers they rest on: the least number of a set, induction over a set   *)
(* of numbers, and remainders, for indices that wrap around.               *)
(***************************************************************************)
EXTENDS NodeTable, Integers, FiniteSetTheorems, TLAPS

----------------------------------------------------------------------------
(* Least numbers and induction                                             *)

\* A set of naturals that is not empty has a least member: its initial segments
\* are finite sets, which inclusion orders without infinite descent.
LEMMA LeastNat ==
    ASSUME NEW T, T \subseteq Nat, T # {}
    PROVE  \E n \in T : \A m \in T : n <= m
  <1> DEFINE U == {0..n : n \in T}
  <1>1. U \subseteq FiniteSubsetsOf(Nat) /\ U # {}
    <2>1. ASSUME NEW n \in T
          PROVE  0..n \in FiniteSubsetsOf(Nat)
      <3>1. n \in Nat /\ 0..n \in SUBSET Nat
        OBVIOUS
      <3>2. IsFiniteSet(0..n)
        BY <3>1, FS_Interval
      <3> QED
        BY <3>1, <3>2 DEF FiniteSubsetsOf
    <2> QED
      BY <2>1
  <1>2. PICK I \in U : \A J \in U : <<J, I>> \notin StrictSubsetOrdering(Nat)
    <2> HIDE DEF U
    <2> QED
      BY <1>1, WFMin, FS_StrictSubsetOrderingWellFounded
  <1>3. PICK n \in T : I = 0..n
    BY <1>2
  <1>4. ASSUME NEW m \in T, ~(n <= m)
        PROVE  FALSE
    <2>1. m \in Nat /\ n \in Nat /\ m < n /\ n \in 0..n /\ n \notin 0..m
      BY <1>4
    <2>2. 0..m \subseteq 0..n /\ 0..m # 0..n
      BY <2>1
    <2>3. <<0..m, I>> \in StrictSubsetOrdering(Nat)
      BY <1>3, <2>1, <2>2 DEF StrictSubsetOrdering
    <2> QED
      BY <1>2, <2>3
  <1> QED
    BY <1>4

\* Induction, for what a set of numbers can say.
LEMMA Induction ==
    ASSUME NEW T, 0 \in T, \A n \in Nat \cap T : n + 1 \in T
    PROVE  Nat \subseteq T
  <1> SUFFICES ASSUME Nat \ T # {}
               PROVE  FALSE
    OBVIOUS
  <1>1. PICK n \in Nat \ T : \A m \in Nat \ T : n <= m
    BY LeastNat
  <1>2. n - 1 \in Nat /\ n - 1 \in T
    BY <1>1
  <1> QED
    BY <1>1, <1>2

----------------------------------------------------------------------------
(* Remainders                                                              *)

LEMMA Division ==
    ASSUME NEW c \in Nat \ {0}, NEW a \in Nat
    PROVE  /\ \E q \in Nat : a = (q * c) + (a % c)
           /\ a % c \in 0..(c - 1)
  <1>1. a = ((a \div c) * c) + (a % c)
    OBVIOUS
  <1>2. a \div c \in Nat /\ a % c \in 0..(c - 1)
    OBVIOUS
  <1>3. \E q \in Nat : a = (q * c) + (a % c)
    BY <1>1, <1>2
  <1> QED
    BY <1>2, <1>3

LEMMA SameRemainder ==
    ASSUME NEW c \in Nat \ {0}, NEW p \in Nat, NEW q \in Nat,
           NEW r \in 0..(c - 1), NEW s \in 0..(c - 1), (p * c) + r = (q * c) + s
    PROVE  r = s
  <1>1. ASSUME NEW x \in Nat, NEW y \in Nat, x < y
        PROVE  (x * c) + c <= y * c
    <2>1. PICK d \in Nat : y = x + 1 + d
      <3>1. y - x - 1 \in Nat
        BY <1>1
      <3> QED
        BY <3>1
    <2>2. y * c = (x * c) + c + (d * c)
      BY <2>1
    <2>3. d * c \in Nat /\ x * c \in Nat
      OBVIOUS
    <2> QED
      BY <2>2, <2>3
  <1>2. p * c \in Nat /\ q * c \in Nat
    OBVIOUS
  <1>3. ~(p < q) /\ ~(q < p)
    BY <1>1, <1>2
  <1> QED
    BY <1>3

\* A step of less than c slots wraps at most once.
LEMMA RemainderOfSum ==
    ASSUME NEW c \in Nat \ {0}, NEW a \in Nat, NEW i \in 0..(c - 1)
    PROVE  (a + i) % c = IF (a % c) + i < c THEN (a % c) + i ELSE (a % c) + i - c
  <1> DEFINE r == a % c
             s == (a + i) % c
  <1>1. PICK q \in Nat : a = (q * c) + r
    BY Division
  <1>2. PICK p \in Nat : a + i = (p * c) + s
    <2>1. a + i \in Nat
      OBVIOUS
    <2> QED
      BY <2>1, Division
  <1>3. r \in 0..(c - 1) /\ s \in 0..(c - 1)
    OBVIOUS
  <1>4. q * c \in Nat /\ p * c \in Nat /\ (q + 1) * c = (q * c) + c
    OBVIOUS
  <1> HIDE DEF r, s
  <1>5. CASE r + i < c
    <2>1. r + i \in 0..(c - 1) /\ (p * c) + s = (q * c) + (r + i)
      BY <1>1, <1>2, <1>3, <1>4, <1>5
    <2>2. s = r + i
      BY <1>3, <2>1, SameRemainder
    <2> QED
      BY <1>5, <2>2 DEF r, s
  <1>6. CASE ~(r + i < c)
    <2>1. r + i - c \in 0..(c - 1) /\ (p * c) + s = ((q + 1) * c) + (r + i - c)
      BY <1>1, <1>2, <1>3, <1>4, <1>6
    <2>2. s = r + i - c
      <3>1. q + 1 \in Nat
        OBVIOUS
      <3> QED
        BY <1>3, <2>1, <3>1, SameRemainder
    <2> QED
      BY <1>6, <2>2 DEF r, s
  <1> QED
    BY <1>5, <1>6

----------------------------------------------------------------------------
(* The probe sequence                                                      *)

LEMMA ProbeIn ==
    ASSUME NEW t, t.cap \in Nat \ {0}, NEW id \in Nat, NEW i \in Nat
    PROVE  Probe(t, id, i) \in 0..(t.cap - 1)
  <1>1. id + i \in Nat
    OBVIOUS
  <1> QED
    BY <1>1, Division DEF Probe

\* The loop looks at every slot.
LEMMA ProbeOnto ==
    ASSUME NEW t, t.cap \in Nat \ {0}, NEW id \in Nat, NEW c \in 0..(t.cap - 1)
    PROVE  \E i \in 0..(t.cap - 1) : Probe(t, id, i) = c
  <1> DEFINE r == id % t.cap
             i == IF r <= c THEN c - r ELSE c + t.cap - r
  <1>1. r \in 0..(t.cap - 1)
    BY Division
  <1>2. i \in 0..(t.cap - 1) /\ c = (IF r + i < t.cap THEN r + i ELSE r + i - t.cap)
    <2> HIDE DEF r
    <2> QED
      BY <1>1
  <1>3. Probe(t, id, i) = c
    <2> HIDE DEF i
    <2> QED
      BY <1>2, RemainderOfSum DEF Probe
  <1> QED
    BY <1>2, <1>3

\* And at none twice.
LEMMA ProbeOnce ==
    ASSUME NEW t, t.cap \in Nat \ {0}, NEW id \in Nat,
           NEW i \in 0..(t.cap - 1), NEW j \in 0..(t.cap - 1),
           Probe(t, id, i) = Probe(t, id, j)
    PROVE  i = j
  <1> DEFINE r == id % t.cap
  <1>1. r \in 0..(t.cap - 1)
    BY Division
  <1>2. (IF r + i < t.cap THEN r + i ELSE r + i - t.cap)
        = (IF r + j < t.cap THEN r + j ELSE r + j - t.cap)
    BY RemainderOfSum DEF Probe
  <1> HIDE DEF r
  <1> QED
    BY <1>1, <1>2
----------------------------------------------------------------------------
(* The insertion loop                                                      *)

\* It finds a slot when some slot has no item.
LEMMA FirstFree ==
    ASSUME NEW t, IsTable(t), NEW id \in Nat,
           NEW c \in 0..(t.cap - 1), t.slots[c] \notin Item
    PROVE  \E i \in 0..(t.cap - 1) : IsFirstFree(t, id, i)
  <1> DEFINE T == {i \in 0..(t.cap - 1) : t.slots[Probe(t, id, i)] \in {NULL, TOMBSTONE}}
  <1>1. t.cap \in Nat \ {0} /\ t.slots[c] \in {NULL, TOMBSTONE}
    BY DEF IsTable, Slot
  <1>2. PICK k \in 0..(t.cap - 1) : Probe(t, id, k) = c
    BY <1>1, ProbeOnto
  <1>3. PICK i \in T : \A j \in T : i <= j
    <2>1. k \in T /\ T \subseteq Nat
      BY <1>1, <1>2
    <2> HIDE DEF T
    <2> QED
      BY <2>1, LeastNat
  <1>4. \A j \in 0..(i - 1) : j \notin T /\ j \in 0..(t.cap - 1)
    BY <1>1, <1>3
  <1>5. IsFirstFree(t, id, i)
    BY <1>4 DEF IsFirstFree
  <1> QED
    BY <1>5

LEMMA FirstFreeOnce ==
    ASSUME NEW t, NEW id, NEW i, NEW j, t.cap \in Nat,
           IsFirstFree(t, id, i), IsFirstFree(t, id, j)
    PROVE  i = j
  <1>1. ~(i < j) /\ ~(j < i) /\ i \in Nat /\ j \in Nat
    BY DEF IsFirstFree
  <1> QED
    BY <1>1

\* assert(capacity > self->size) is enough for there to be one.
LEMMA RoomLeft ==
    ASSUME NEW t, IsTable(t), Sized(t), t.size < t.cap
    PROVE  \E c \in 0..(t.cap - 1) : t.slots[c] \notin Item
  <1> SUFFICES ASSUME \A c \in 0..(t.cap - 1) : t.slots[c] \in Item
               PROVE  FALSE
    OBVIOUS
  <1> DEFINE S == 0..(t.cap - 1)
  <1>1. t.cap \in Nat /\ DOMAIN t.slots = S /\ t.slots \in [S -> Slot]
    BY DEF IsTable
  <1>2. t.slots \in Bijection(S, Stored(t))
    <2>1. t.slots \in [S -> Stored(t)]
      BY <1>1 DEF Stored
    <2>2. \A c, d \in S : t.slots[c] = t.slots[d] => c = d
      BY <1>1 DEF Sized
    <2>3. \A x \in Stored(t) : \E c \in S : t.slots[c] = x
      BY <1>1 DEF Stored
    <2> QED
      BY <2>1, <2>2, <2>3 DEF Bijection, Injection, Surjection, IsInjective
  <1>3. IsFiniteSet(S) /\ Cardinality(S) = t.cap
    <2>1. 0 \in Int /\ t.cap - 1 \in Int
      BY <1>1
    <2>2. IsFiniteSet(S) /\ Cardinality(S) = IF 0 > t.cap - 1 THEN 0 ELSE t.cap - 1 - 0 + 1
      BY <2>1, FS_Interval
    <2> QED
      BY <1>1, <2>2
  <1>4. Cardinality(Stored(t)) = t.cap
    BY <1>2, <1>3, FS_Bijection DEF ExistsBijection
  <1> QED
    BY <1>1, <1>4 DEF Sized, IsTable

\* The fields after Put.
LEMMA PutFields ==
    ASSUME NEW t, IsTable(t), NEW c \in 0..(t.cap - 1), NEW x \in Item, NEW id \in Nat
    PROVE  LET u == Put(t, c, x, id)
           IN  /\ IsTable(u)
               /\ u.cap = t.cap
               /\ u.slots = [t.slots EXCEPT ![c] = x]
               /\ u.size = t.size + 1
               /\ u.seen
               /\ u.min <= id /\ id <= u.max
               /\ t.seen => u.min <= t.min
               /\ t.max <= u.max
  <1> DEFINE u == Put(t, c, x, id)
             Typ == [cap : {t.cap}, slots : [0..(t.cap - 1) -> Slot], size : Nat,
                     seen : BOOLEAN, min : Nat, max : Nat]
  <1>1. /\ t \in Typ
        /\ t.cap \in Nat /\ t.slots \in [0..(t.cap - 1) -> Slot] /\ t.size \in Nat
        /\ t.min \in Nat /\ t.max \in Nat /\ t.seen \in BOOLEAN
    BY DEF IsTable
  <1>2. /\ u.cap = t.cap
        /\ u.slots = [t.slots EXCEPT ![c] = x]
        /\ u.size = t.size + 1
        /\ u.seen = TRUE
        /\ u.min = IF ~t.seen \/ id < t.min THEN id ELSE t.min
        /\ u.max = IF id > t.max THEN id ELSE t.max
    BY Zenon DEF IsTable, Put
  <1>3. u \in Typ
    <2> DEFINE t1 == [t EXCEPT !.slots[c] = x]
               t2 == [t1 EXCEPT !.size = @ + 1]
               t3 == [t2 EXCEPT !.seen = TRUE]
               t4 == [t3 EXCEPT !.min = u.min]
    <2>1. t1 \in Typ /\ t1.size = t.size
      BY <1>1 DEF Slot
    <2>2. t2 \in Typ
      <3> HIDE DEF t1
      <3>1. t1.size + 1 \in Nat
        BY <1>1, <2>1
      <3> DEFINE n == t1.size + 1
      <3> HIDE DEF n
      <3>2. [t1 EXCEPT !.size = n] \in Typ
        BY <2>1, <3>1 DEF n
      <3> QED
        BY <3>2 DEF n
    <2>3. t3 \in Typ
      <3> HIDE DEF t2
      <3> QED
        BY <2>2
    <2>4. u.min \in Nat /\ u.max \in Nat
      <3> HIDE DEF u
      <3> QED
        BY <1>1, <1>2
    <2>5. t4 \in Typ
      <3> HIDE DEF t3, u
      <3> QED
        BY <2>3, <2>4
    <2>6. [t4 EXCEPT !.max = u.max] \in Typ
      <3> HIDE DEF t4, u
      <3> QED
        BY <2>4, <2>5
    <2>7. u = [t4 EXCEPT !.max = u.max]
      BY <1>2, Zenon DEF Put
    <2> QED
      BY <2>6, <2>7, Zenon
  <1> HIDE DEF u
  <1>4. IsTable(u)
    BY <1>1, <1>2, <1>3 DEF IsTable
  <1>5. /\ u.min <= id /\ id <= u.max
        /\ t.seen => u.min <= t.min
        /\ t.max <= u.max
    BY <1>1, <1>2
  <1>6. u.seen
    BY <1>2
  <1> QED
    BY <1>2, <1>4, <1>5, <1>6, Zenon DEF u

LEMMA PutStored ==
    ASSUME NEW t, IsTable(t), NEW c \in 0..(t.cap - 1), t.slots[c] \notin Item,
           NEW x \in Item, NEW id \in Nat
    PROVE  Stored(Put(t, c, x, id)) = Stored(t) \cup {x}
  <1> DEFINE u == Put(t, c, x, id)
  <1>1. u.slots = [t.slots EXCEPT ![c] = x] /\ DOMAIN t.slots = 0..(t.cap - 1)
    BY PutFields DEF IsTable
  <1> HIDE DEF u
  <1>2. Stored(u) = Stored(t) \cup {x}
    BY <1>1 DEF Stored
  <1> QED
    BY <1>2 DEF u

\* Filling the slot that the loop found for an item whose ID is new.
LEMMA PutOK ==
    ASSUME NEW t, NEW idOf, TableOK(t, idOf),
           NEW x \in Item, idOf[x] \in Nat, Lacks(t, idOf, idOf[x]),
           NEW u, Inserts(t, u, x, idOf[x])
    PROVE  /\ TableOK(u, idOf)
           /\ Stored(u) = Stored(t) \cup {x}
           /\ u.cap = t.cap
           /\ u.size = t.size + 1
  <1> PICK i \in 0..(t.cap - 1) :
         IsFirstFree(t, idOf[x], i) /\ u = Put(t, Probe(t, idOf[x], i), x, idOf[x])
    BY DEF Inserts
  <1> DEFINE c == Probe(t, idOf[x], i)
  <1>1. /\ IsTable(t) /\ t.cap \in Nat \ {0} /\ i \in 0..(t.cap - 1)
        /\ DOMAIN t.slots = 0..(t.cap - 1)
        /\ u = Put(t, c, x, idOf[x])
    BY DEF TableOK, IsTable, IsFirstFree
  <1>2. c \in 0..(t.cap - 1) /\ t.slots[c] \notin Item
    <2>1. i \in Nat
      BY <1>1
    <2>2. c \in 0..(t.cap - 1)
      BY <1>1, <2>1, ProbeIn
    <2> QED
      BY <2>2, TableConstants DEF IsFirstFree
  <1>3. /\ IsTable(u) /\ u.cap = t.cap /\ u.slots = [t.slots EXCEPT ![c] = x]
        /\ u.size = t.size + 1 /\ u.seen /\ u.min <= idOf[x] /\ idOf[x] <= u.max
        /\ t.seen => u.min <= t.min
        /\ t.max <= u.max
    <2> HIDE DEF c
    <2> QED
      BY <1>1, <1>2, PutFields
  <1>4. Stored(u) = Stored(t) \cup {x}
    <2> HIDE DEF c
    <2> QED
      BY <1>1, <1>2, PutStored
  <1>5. x \notin Stored(t)
    BY DEF Lacks
  <1>6. Sized(u)
    <2>1. Sized(t)
      BY DEF TableOK
    <2>2. IsFiniteSet(Stored(u)) /\ u.size = Cardinality(Stored(u))
      BY <1>3, <1>4, <1>5, <2>1, FS_AddElement DEF Sized
    <2>3. ASSUME NEW d \in DOMAIN u.slots, NEW e \in DOMAIN u.slots,
                 u.slots[d] \in Item, u.slots[d] = u.slots[e]
          PROVE  d = e
      <3> HIDE DEF c
      <3>1. d \in DOMAIN t.slots /\ e \in DOMAIN t.slots
        BY <1>3
      <3>2. \A k \in DOMAIN t.slots : t.slots[k] # x
        BY <1>5 DEF Stored
      <3> QED
        BY <1>1, <1>2, <1>3, <2>1, <2>3, <3>1, <3>2 DEF Sized
    <2> QED
      BY <2>2, <2>3 DEF Sized
  <1>7. Distinct(u, idOf)
    BY <1>4 DEF TableOK, Distinct, Lacks
  <1>8. Reachable(u, idOf)
    <2> SUFFICES ASSUME NEW d \in DOMAIN u.slots, u.slots[d] \in Item
                 PROVE  \E k \in 0..(u.cap - 1) :
                            /\ d = Probe(u, idOf[u.slots[d]], k)
                            /\ \A j \in 0..(k - 1) : u.slots[Probe(u, idOf[u.slots[d]], j)] # NULL
      BY DEF Reachable
    <2>1. \A id, j : Probe(u, id, j) = Probe(t, id, j)
      BY <1>3 DEF Probe
    <2>2. ASSUME NEW k \in DOMAIN t.slots, t.slots[k] # NULL
          PROVE  u.slots[k] # NULL
      <3> HIDE DEF c
      <3> QED
        BY <1>1, <1>2, <1>3, <2>2, TableConstants
    <2>3. CASE d = c
      <3>1. u.slots[d] = x
        BY <1>1, <1>2, <1>3, <2>3
      <3>2. ASSUME NEW j \in 0..(i - 1)
            PROVE  u.slots[Probe(t, idOf[x], j)] # NULL
        <4>1. j \in Nat
          OBVIOUS
        <4>2. Probe(t, idOf[x], j) \in DOMAIN t.slots
          BY <1>1, <4>1, ProbeIn
        <4>3. t.slots[Probe(t, idOf[x], j)] # NULL
          BY <3>2 DEF IsFirstFree
        <4> QED
          BY <2>2, <4>2, <4>3
      <3> QED
        BY <1>1, <1>3, <2>1, <2>3, <3>1, <3>2
    <2>4. CASE d # c
      <3>1. d \in DOMAIN t.slots /\ u.slots[d] = t.slots[d]
        <4> HIDE DEF c
        <4> QED
          BY <1>1, <1>2, <1>3, <2>4
      <3>2. PICK k \in 0..(t.cap - 1) :
               /\ d = Probe(t, idOf[t.slots[d]], k)
               /\ \A j \in 0..(k - 1) : t.slots[Probe(t, idOf[t.slots[d]], j)] # NULL
        BY <3>1 DEF TableOK, Reachable
      <3>3. idOf[t.slots[d]] \in Nat
        BY <3>1 DEF TableOK, Distinct, Stored
      <3>4. ASSUME NEW j \in 0..(k - 1)
            PROVE  u.slots[Probe(t, idOf[t.slots[d]], j)] # NULL
        <4>1. j \in Nat
          OBVIOUS
        <4>2. Probe(t, idOf[t.slots[d]], j) \in DOMAIN t.slots
          BY <1>1, <3>3, <4>1, ProbeIn
        <4> QED
          BY <2>2, <3>2, <4>2
      <3> QED
        BY <1>3, <2>1, <3>1, <3>2, <3>4
    <2> QED
      BY <2>3, <2>4
  <1>9. Covers(u, idOf)
    <2>1. \A y \in Stored(t) : idOf[y] \in Nat /\ t.seen /\ t.min <= idOf[y] /\ idOf[y] <= t.max
      BY DEF TableOK, Covers, Distinct
    <2>2. {t.min, t.max, u.min, u.max} \subseteq Nat
      BY <1>1, <1>3 DEF IsTable
    <2> QED
      BY <1>3, <1>4, <2>1, <2>2 DEF Covers
  <1> QED
    BY <1>3, <1>4, <1>6, <1>7, <1>8, <1>9 DEF TableOK

----------------------------------------------------------------------------
(* The search loop                                                         *)

\* It stops at a stored item of that ID.
LEMMA HitStored ==
    ASSUME NEW t, NEW idOf, TableOK(t, idOf), NEW key \in Nat, NEW i, IsHit(t, idOf, key, i)
    PROVE  /\ t.cap \in Nat \ {0}
           /\ Probe(t, key, i) \in 0..(t.cap - 1)
           /\ t.slots[Probe(t, key, i)] \in Stored(t)
           /\ idOf[t.slots[Probe(t, key, i)]] = key
  <1>1. /\ t.cap \in Nat \ {0} /\ i \in Nat
        /\ DOMAIN t.slots = 0..(t.cap - 1)
    BY DEF TableOK, IsTable, IsHit
  <1>2. Probe(t, key, i) \in 0..(t.cap - 1)
    BY <1>1, ProbeIn
  <1> QED
    BY <1>1, <1>2 DEF IsHit, Stored

\* And it does stop when there is one.
LEMMA StoredHit ==
    ASSUME NEW t, NEW idOf, TableOK(t, idOf), NEW x \in Stored(t)
    PROVE  \E i \in 0..(t.cap - 1) : IsHit(t, idOf, idOf[x], i)
  <1>1. /\ t.cap \in Nat /\ DOMAIN t.slots = 0..(t.cap - 1) /\ t.slots \in [0..(t.cap - 1) -> Slot]
        /\ idOf[x] \in Nat /\ x \in Item
    BY DEF TableOK, IsTable, Distinct, Stored
  <1>2. PICK c \in 0..(t.cap - 1) : t.slots[c] = x
    BY <1>1 DEF Stored
  <1>3. PICK i \in 0..(t.cap - 1) :
           /\ c = Probe(t, idOf[x], i)
           /\ \A j \in 0..(i - 1) : t.slots[Probe(t, idOf[x], j)] # NULL
    BY <1>1, <1>2 DEF TableOK, Reachable
  <1>4. ASSUME NEW j \in 0..(i - 1), t.slots[Probe(t, idOf[x], j)] \in Item
        PROVE  idOf[t.slots[Probe(t, idOf[x], j)]] # idOf[x]
    <2>1. j \in 0..(t.cap - 1) /\ j # i /\ j \in Nat /\ t.cap \in Nat \ {0}
      BY <1>1, <1>3
    <2>2. Probe(t, idOf[x], j) \in 0..(t.cap - 1)
      BY <1>1, <2>1, ProbeIn
    <2>3. Probe(t, idOf[x], j) # c
      BY <1>1, <1>3, <2>1, ProbeOnce
    <2>4. t.slots[Probe(t, idOf[x], j)] # x
      BY <1>1, <1>2, <2>2, <2>3 DEF TableOK, Sized
    <2>5. t.slots[Probe(t, idOf[x], j)] \in Stored(t)
      BY <1>1, <1>4, <2>2 DEF Stored
    <2> QED
      BY <2>4, <2>5 DEF TableOK, Distinct
  <1>5. IsHit(t, idOf, idOf[x], i)
    BY <1>1, <1>2, <1>3, <1>4 DEF IsHit
  <1> QED
    BY <1>5

\* node_set_find returns the item of that ID, or NULL if there is none.
LEMMA FindOK ==
    ASSUME NEW t, NEW idOf, TableOK(t, idOf), NEW key \in Nat
    PROVE  /\ \A x \in Stored(t) : idOf[x] = key => Find(t, idOf, key) = x
           /\ (\A x \in Stored(t) : idOf[x] # key) => Find(t, idOf, key) = NULL
  <1>1. ASSUME NEW x \in Stored(t), idOf[x] = key
        PROVE  Find(t, idOf, key) = x
    <2> DEFINE i == CHOOSE i \in 0..(t.cap - 1) : IsHit(t, idOf, key, i)
    <2>1. ~OutOfBounds(t, key)
      <3>1. t.seen /\ t.min <= key /\ key <= t.max /\ t.min \in Nat /\ t.max \in Nat
        BY <1>1 DEF TableOK, Covers, IsTable
      <3> QED
        BY <3>1 DEF OutOfBounds
    <2>2. \E j \in 0..(t.cap - 1) : IsHit(t, idOf, key, j)
      BY <1>1, StoredHit
    <2>3. IsHit(t, idOf, key, i)
      BY <2>2
    <2>4. t.slots[Probe(t, key, i)] \in Stored(t) /\ idOf[t.slots[Probe(t, key, i)]] = key
      <3> HIDE DEF i
      <3> QED
        BY <2>3, HitStored
    <2>5. t.slots[Probe(t, key, i)] = x
      <3> HIDE DEF i
      <3> QED
        BY <1>1, <2>4 DEF TableOK, Distinct
    <2> QED
      BY <2>1, <2>2, <2>5 DEF Find
  <1>2. ASSUME \A x \in Stored(t) : idOf[x] # key
        PROVE  Find(t, idOf, key) = NULL
    <2>1. \A i \in 0..(t.cap - 1) : ~IsHit(t, idOf, key, i)
      BY <1>2, HitStored
    <2> QED
      BY <2>1 DEF Find
  <1> QED
    BY <1>1, <1>2

----------------------------------------------------------------------------
(* Removal                                                                 *)

LEMMA EraseFields ==
    ASSUME NEW t, IsTable(t), NEW c \in 0..(t.cap - 1), t.size \in Nat \ {0}
    PROVE  LET u == Erase(t, c)
           IN  /\ IsTable(u)
               /\ u.cap = t.cap
               /\ u.slots = [t.slots EXCEPT ![c] = TOMBSTONE]
               /\ u.size = t.size - 1
               /\ u.seen = t.seen /\ u.min = t.min /\ u.max = t.max
  <1> DEFINE u == Erase(t, c)
             Typ == [cap : {t.cap}, slots : [0..(t.cap - 1) -> Slot], size : Nat,
                     seen : BOOLEAN, min : Nat, max : Nat]
  <1>1. t \in Typ /\ t.cap \in Nat
    BY DEF IsTable
  <1>2. /\ u.cap = t.cap
        /\ u.slots = [t.slots EXCEPT ![c] = TOMBSTONE]
        /\ u.size = t.size - 1
        /\ u.seen = t.seen /\ u.min = t.min /\ u.max = t.max
    BY Zenon DEF IsTable, Erase
  <1>3. u \in Typ
    <2> DEFINE t1 == [t EXCEPT !.slots[c] = TOMBSTONE]
               n == t1.size - 1
    <2>1. t1 \in Typ /\ t1.size = t.size
      BY <1>1 DEF Slot
    <2>2. n \in Nat
      BY <2>1
    <2>3. [t1 EXCEPT !.size = n] \in Typ
      <3> HIDE DEF t1, n
      <3> QED
        BY <2>1, <2>2
    <2> QED
      BY <2>3, Zenon DEF Erase
  <1> HIDE DEF u
  <1>4. IsTable(u)
    BY <1>1, <1>2, <1>3 DEF IsTable
  <1> QED
    BY <1>2, <1>4, Zenon DEF u

\* Marking the slot of an item removes that item, and breaks no chain.
LEMMA EraseOK ==
    ASSUME NEW t, NEW idOf, TableOK(t, idOf), NEW c \in 0..(t.cap - 1), t.slots[c] \in Item
    PROVE  LET u == Erase(t, c)
           IN  /\ TableOK(u, idOf)
               /\ Stored(u) = Stored(t) \ {t.slots[c]}
               /\ u.cap = t.cap
               /\ u.size = t.size - 1
  <1> DEFINE u == Erase(t, c)
             x == t.slots[c]
  <1>1. /\ IsTable(t) /\ Sized(t) /\ t.cap \in Nat \ {0}
        /\ DOMAIN t.slots = 0..(t.cap - 1) /\ t.slots \in [0..(t.cap - 1) -> Slot]
    BY DEF TableOK, IsTable
  <1>2. x \in Stored(t)
    BY <1>1 DEF Stored
  <1>3. /\ IsFiniteSet(Stored(t) \ {x})
        /\ Cardinality(Stored(t) \ {x}) = t.size - 1
        /\ t.size \in Nat \ {0}
    <2> HIDE DEF x
    <2>1. IsFiniteSet(Stored(t)) /\ t.size = Cardinality(Stored(t))
      BY <1>1 DEF Sized
    <2>2. t.size \in Nat \ {0}
      BY <1>2, <2>1, FS_EmptySet, FS_CardinalityType
    <2> QED
      BY <1>2, <2>1, <2>2, FS_RemoveElement
  <1>4. /\ IsTable(u) /\ u.cap = t.cap /\ u.slots = [t.slots EXCEPT ![c] = TOMBSTONE]
        /\ u.size = t.size - 1 /\ u.seen = t.seen /\ u.min = t.min /\ u.max = t.max
    <2> HIDE DEF x
    <2> QED
      BY <1>1, <1>3, EraseFields
  <1> HIDE DEF u
  <1>5. /\ DOMAIN u.slots = DOMAIN t.slots
        /\ u.slots[c] = TOMBSTONE
        /\ \A d \in DOMAIN t.slots : d # c => u.slots[d] = t.slots[d]
    BY <1>1, <1>4
  <1>6. \A d \in DOMAIN t.slots : u.slots[d] \in Item => d # c /\ u.slots[d] = t.slots[d]
    BY <1>5, TableConstants
  <1>7. Stored(u) = Stored(t) \ {x}
    <2>1. \A d \in DOMAIN t.slots : t.slots[d] = x => d = c
      BY <1>1 DEF Sized
    <2>2. ASSUME NEW y \in Stored(u)
          PROVE  y \in Stored(t) /\ y # x
      <3>1. PICK d \in DOMAIN u.slots : u.slots[d] = y /\ y \in Item
        BY DEF Stored
      <3> QED
        BY <1>5, <1>6, <2>1, <3>1 DEF Stored
    <2>3. ASSUME NEW y \in Stored(t), y # x
          PROVE  y \in Stored(u)
      <3>1. PICK d \in DOMAIN t.slots : t.slots[d] = y /\ y \in Item
        BY DEF Stored
      <3> QED
        BY <1>5, <2>3, <3>1 DEF Stored
    <2> QED
      BY <2>2, <2>3
  <1> HIDE DEF x
  <1>8. Sized(u)
    BY <1>1, <1>3, <1>4, <1>5, <1>6, <1>7 DEF Sized
  <1>9. Distinct(u, idOf)
    BY <1>7 DEF TableOK, Distinct
  <1>10. Reachable(u, idOf)
    <2> SUFFICES ASSUME NEW d \in DOMAIN u.slots, u.slots[d] \in Item
                 PROVE  \E k \in 0..(u.cap - 1) :
                            /\ d = Probe(u, idOf[u.slots[d]], k)
                            /\ \A j \in 0..(k - 1) : u.slots[Probe(u, idOf[u.slots[d]], j)] # NULL
      BY DEF Reachable
    <2>1. \A id, j : Probe(u, id, j) = Probe(t, id, j)
      BY <1>4 DEF Probe
    <2>2. d \in DOMAIN t.slots /\ u.slots[d] = t.slots[d]
      BY <1>5, <1>6
    <2>3. PICK k \in 0..(t.cap - 1) :
             /\ d = Probe(t, idOf[t.slots[d]], k)
             /\ \A j \in 0..(k - 1) : t.slots[Probe(t, idOf[t.slots[d]], j)] # NULL
      BY <2>2 DEF TableOK, Reachable
    <2>4. idOf[t.slots[d]] \in Nat
      BY <2>2 DEF TableOK, Distinct, Stored
    <2>5. ASSUME NEW j \in 0..(k - 1)
          PROVE  u.slots[Probe(t, idOf[t.slots[d]], j)] # NULL
      <3>1. j \in Nat
        OBVIOUS
      <3>2. Probe(t, idOf[t.slots[d]], j) \in DOMAIN t.slots
        BY <1>1, <2>4, <3>1, ProbeIn
      <3> QED
        BY <1>5, <2>3, <3>2, TableConstants
    <2> QED
      BY <1>4, <2>1, <2>2, <2>3, <2>5
  <1>11. Covers(u, idOf)
    BY <1>4, <1>7 DEF TableOK, Covers
  <1> QED
    BY <1>4, <1>7, <1>8, <1>9, <1>10, <1>11 DEF TableOK, u, x

\* node_set_remove takes out the item of that ID, if there is one.
LEMMA RemovedOK ==
    ASSUME NEW t, NEW idOf, TableOK(t, idOf), NEW key \in Nat
    PROVE  LET u == Removed(t, idOf, key)
           IN  /\ TableOK(u, idOf)
               /\ Stored(u) = {x \in Stored(t) : idOf[x] # key}
               /\ u.cap = t.cap
               /\ u.size <= t.size
  <1> DEFINE i == CHOOSE i \in 0..(t.cap - 1) : IsHit(t, idOf, key, i)
             c == Probe(t, key, i)
  <1>1. t.size \in Nat
    BY DEF TableOK, IsTable
  <1>2. CASE \E j \in 0..(t.cap - 1) : IsHit(t, idOf, key, j)
    <2>1. IsHit(t, idOf, key, i)
      BY <1>2
    <2>2. c \in 0..(t.cap - 1) /\ t.slots[c] \in Stored(t) /\ idOf[t.slots[c]] = key
      <3> HIDE DEF i
      <3> QED
        BY <2>1, HitStored
    <2>3. t.slots[c] \in Item
      <3> HIDE DEF c
      <3> QED
        BY <2>2 DEF Stored
    <2>4. Removed(t, idOf, key) = Erase(t, c)
      BY <1>2 DEF Removed
    <2> HIDE DEF c
    <2>5. /\ TableOK(Erase(t, c), idOf) /\ Stored(Erase(t, c)) = Stored(t) \ {t.slots[c]}
          /\ Erase(t, c).cap = t.cap /\ Erase(t, c).size = t.size - 1
      BY <2>2, <2>3, EraseOK
    <2>6. Stored(t) \ {t.slots[c]} = {x \in Stored(t) : idOf[x] # key}
      BY <2>2 DEF TableOK, Distinct
    <2> QED
      BY <1>1, <2>4, <2>5, <2>6
  <1>3. CASE \A j \in 0..(t.cap - 1) : ~IsHit(t, idOf, key, j)
    <2>1. \A x \in Stored(t) : idOf[x] # key
      BY <1>3, StoredHit
    <2>2. Removed(t, idOf, key) = t
      BY <1>3 DEF Removed
    <2> QED
      BY <1>1, <2>1, <2>2
  <1> QED
    BY <1>2, <1>3

----------------------------------------------------------------------------
(* New tables                                                              *)

LEMMA BlankOK ==
    ASSUME NEW capacity \in Nat, NEW idOf
    PROVE  LET u == BlankTable(capacity)
           IN  /\ TableOK(u, idOf)
               /\ Stored(u) = {}
               /\ u.cap = capacity
               /\ u.size = 0
  <1> DEFINE u == BlankTable(capacity)
  <1>1. IsTable(u) /\ u.cap = capacity /\ u.size = 0 /\ u.slots = [c \in 0..(capacity - 1) |-> NULL]
    BY DEF IsTable, BlankTable, Slot
  <1> HIDE DEF u
  <1>2. \A c \in DOMAIN u.slots : u.slots[c] \notin Item
    BY <1>1, TableConstants
  <1>3. Stored(u) = {}
    BY <1>2 DEF Stored
  <1>4. Sized(u)
    BY <1>1, <1>2, <1>3, FS_EmptySet DEF Sized
  <1>5. Distinct(u, idOf) /\ Reachable(u, idOf) /\ Covers(u, idOf)
    BY <1>2, <1>3 DEF Distinct, Reachable, Covers
  <1> QED
    BY <1>1, <1>3, <1>4, <1>5 DEF TableOK, u
=============================================================================
