----------------------------- MODULE ListProofs ------------------------------
(***************************************************************************)
(* Proofs that the circular buffer of List keeps its shape, its items      *)
(* reachable and its ownership, and that to its users it is the sequence   *)
(* of ListSpec, for every set of items and every capacity.                 *)
(***************************************************************************)
EXTENDS List, FiniteSetTheorems, SequenceTheorems, TLAPS

----------------------------------------------------------------------------
(* The slots of a list                                                     *)

\* The fields of a list.
LEMMA Fields ==
    ASSUME NEW l, IsList(l)
    PROVE  /\ l.capacity \in Nat
           /\ l.base \in [0..(l.capacity - 1) -> Item \cup {ZERO}]
           /\ l.head \in Nat /\ (l.capacity > 0 => l.head < l.capacity)
           /\ l.capacity = 0 => l.head = 0
           /\ l.size \in Nat /\ l.size <= l.capacity
           /\ l.open \subseteq 0..(l.capacity - 1)
           /\ l = [base |-> l.base, head |-> l.head, size |-> l.size,
                   capacity |-> l.capacity, open |-> l.open]
  <1>1. l.capacity \in Nat
    BY DEF IsList
  <1>2. /\ l.base \in [0..(l.capacity - 1) -> Item \cup {ZERO}]
        /\ l.head \in 0..l.capacity /\ l.size \in 0..l.capacity
        /\ l.open \subseteq 0..(l.capacity - 1)
        /\ l = [base |-> l.base, head |-> l.head, size |-> l.size,
                   capacity |-> l.capacity, open |-> l.open]
    BY DEF IsList, Slots
  <1>3. l.capacity > 0 => l.head < l.capacity
    BY DEF IsList
  <1> QED
    BY <1>1, <1>2, <1>3

\* The record of a list.
Buffer(b, h, n, c, o) == [base |-> b, head |-> h, size |-> n, capacity |-> c, open |-> o]

\* When such a record is a list.
LEMMA Built ==
    ASSUME NEW c \in Nat, NEW b \in [0..(c - 1) -> Item \cup {ZERO}],
           NEW h \in Nat, c > 0 => h < c, c = 0 => h = 0,
           NEW n \in Nat, n <= c, NEW o \in SUBSET (0..(c - 1))
    PROVE  IsList(Buffer(b, h, n, c, o))
  <1> DEFINE l == Buffer(b, h, n, c, o)
  <1>1. l.capacity = c /\ l.head = h /\ h \in 0..c /\ n \in 0..c
    BY DEF Buffer
  <1>2. l \in [ base : [0..(c - 1) -> Item \cup {ZERO}], head : 0..c, size : 0..c,
               capacity : {c}, open : SUBSET (0..(c - 1)) ]
    BY <1>1 DEF Buffer
  <1> QED
    BY <1>1, <1>2 DEF IsList, Slots, Buffer

LEMMA AppendedFields ==
    ASSUME NEW l, IsList(l), NEW x
    PROVE  Appended(l, x) =
              Buffer([l.base EXCEPT ![At(l, l.size)] = x], l.head, l.size + 1, l.capacity,
                     l.open \cup {At(l, l.size)})
  <1>1. PICK b, h, n, c, o : /\ b = l.base /\ h = l.head /\ n = l.size /\ c = l.capacity /\ o = l.open
    OBVIOUS
  <1>2. l = Buffer(b, h, n, c, o)
    BY <1>1, Fields DEF Buffer
  <1>3. PICK b1 : b1 = [l.base EXCEPT ![At(l, l.size)] = x]
    OBVIOUS
  <1>4. PICK o1 : o1 = l.open \cup {At(l, l.size)}
    OBVIOUS
  <1>5. PICK n1 : n1 = l.size + 1
    OBVIOUS
  <1>6. [Buffer(b, h, n, c, o) EXCEPT !.base = b1] = Buffer(b1, h, n, c, o)
    BY SMT DEF Buffer
  <1>7. [Buffer(b1, h, n, c, o) EXCEPT !.open = o1] = Buffer(b1, h, n, c, o1)
    BY SMT DEF Buffer
  <1>8. [Buffer(b1, h, n, c, o1) EXCEPT !.size = n1] = Buffer(b1, h, n1, c, o1)
    BY SMT DEF Buffer
  <1>9. [l EXCEPT !.base = b1, !.open = o1, !.size = n1] = Buffer(b1, h, n1, c, o1)
    BY Zenon, <1>2, <1>6, <1>7, <1>8
  <1>10. Appended(l, x) = [l EXCEPT !.base = b1, !.open = o1, !.size = n1]
    BY Zenon, <1>3, <1>4, <1>5 DEF Appended
  <1>11. Appended(l, x) = Buffer(b1, h, n1, c, o1)
    BY Zenon, <1>9, <1>10
  <1> QED
    BY Zenon, <1>1, <1>3, <1>4, <1>5, <1>11

LEMMA PrependedFields ==
    ASSUME NEW l, IsList(l), NEW x, NEW slot, slot = (l.head + (l.capacity - 1)) % l.capacity
    PROVE  Prepended(l, x) =
              Buffer([l.base EXCEPT ![slot] = x], slot, l.size + 1, l.capacity, l.open \cup {slot})
  <1>1. PICK b, h, n, c, o : /\ b = l.base /\ h = l.head /\ n = l.size /\ c = l.capacity /\ o = l.open
    OBVIOUS
  <1>2. l = Buffer(b, h, n, c, o)
    BY <1>1, Fields DEF Buffer
  <1>3. PICK b1 : b1 = [l.base EXCEPT ![slot] = x]
    OBVIOUS
  <1>4. PICK o1 : o1 = l.open \cup {slot}
    OBVIOUS
  <1>5. PICK n1 : n1 = l.size + 1
    OBVIOUS
  <1>6. PICK h1 : h1 = slot
    OBVIOUS
  <1>7. [Buffer(b, h, n, c, o) EXCEPT !.base = b1] = Buffer(b1, h, n, c, o)
    BY SMT DEF Buffer
  <1>8. [Buffer(b1, h, n, c, o) EXCEPT !.open = o1] = Buffer(b1, h, n, c, o1)
    BY SMT DEF Buffer
  <1>9. [Buffer(b1, h, n, c, o1) EXCEPT !.size = n1] = Buffer(b1, h, n1, c, o1)
    BY SMT DEF Buffer
  <1>10. [Buffer(b1, h, n1, c, o1) EXCEPT !.head = h1] = Buffer(b1, h1, n1, c, o1)
    BY SMT DEF Buffer
  <1>11. [l EXCEPT !.base = b1, !.open = o1, !.size = n1, !.head = h1] = Buffer(b1, h1, n1, c, o1)
    BY Zenon, <1>2, <1>7, <1>8, <1>9, <1>10
  <1>12. Prepended(l, x) = [l EXCEPT !.base = b1, !.open = o1, !.size = n1, !.head = h1]
    BY Zenon, <1>3, <1>4, <1>5, <1>6 DEF Prepended
  <1>13. Prepended(l, x) = Buffer(b1, h1, n1, c, o1)
    BY Zenon, <1>11, <1>12
  <1> QED
    BY Zenon, <1>1, <1>3, <1>4, <1>5, <1>6, <1>13

LEMMA RemovedFields ==
    ASSUME NEW l, IsList(l), NEW index
    PROVE  Removed(l, index) =
              Buffer([s \in Slots(l) |-> IF s \in {At(l, i) : i \in index..(l.size - 2)}
                                       THEN l.base[(s + 1) % l.capacity] ELSE l.base[s]],
                     l.head, l.size - 1, l.capacity, l.open \ {At(l, l.size - 1)})
  <1>1. PICK b, h, n, c, o : /\ b = l.base /\ h = l.head /\ n = l.size /\ c = l.capacity /\ o = l.open
    OBVIOUS
  <1>2. l = Buffer(b, h, n, c, o)
    BY <1>1, Fields DEF Buffer
  <1>3. PICK b1 : b1 = [s \in Slots(l) |-> IF s \in {At(l, i) : i \in index..(l.size - 2)}
                                       THEN l.base[(s + 1) % l.capacity] ELSE l.base[s]]
    OBVIOUS
  <1>4. PICK o1 : o1 = l.open \ {At(l, l.size - 1)}
    OBVIOUS
  <1>5. PICK n1 : n1 = l.size - 1
    OBVIOUS
  <1>6. [Buffer(b, h, n, c, o) EXCEPT !.base = b1] = Buffer(b1, h, n, c, o)
    BY SMT DEF Buffer
  <1>7. [Buffer(b1, h, n, c, o) EXCEPT !.open = o1] = Buffer(b1, h, n, c, o1)
    BY SMT DEF Buffer
  <1>8. [Buffer(b1, h, n, c, o1) EXCEPT !.size = n1] = Buffer(b1, h, n1, c, o1)
    BY SMT DEF Buffer
  <1>9. [l EXCEPT !.base = b1, !.open = o1, !.size = n1] = Buffer(b1, h, n1, c, o1)
    BY Zenon, <1>2, <1>6, <1>7, <1>8
  <1>10. Removed(l, index) = [l EXCEPT !.base = b1, !.open = o1, !.size = n1]
    BY Zenon, <1>3, <1>4, <1>5 DEF Removed
  <1>11. Removed(l, index) = Buffer(b1, h, n1, c, o1)
    BY Zenon, <1>9, <1>10
  <1> QED
    BY Zenon, <1>1, <1>3, <1>4, <1>5, <1>11

LEMMA ClearedFields ==
    ASSUME NEW l, IsList(l)
    PROVE  Cleared(l) =
              Buffer(l.base, 0, 0, l.capacity, l.open \ Live(l))
  <1>1. PICK b, h, n, c, o : /\ b = l.base /\ h = l.head /\ n = l.size /\ c = l.capacity /\ o = l.open
    OBVIOUS
  <1>2. l = Buffer(b, h, n, c, o)
    BY <1>1, Fields DEF Buffer
  <1>3. PICK o1 : o1 = l.open \ Live(l)
    OBVIOUS
  <1>4. PICK n1 : n1 = 0
    OBVIOUS
  <1>5. PICK h1 : h1 = 0
    OBVIOUS
  <1>6. [Buffer(b, h, n, c, o) EXCEPT !.open = o1] = Buffer(b, h, n, c, o1)
    BY SMT DEF Buffer
  <1>7. [Buffer(b, h, n, c, o1) EXCEPT !.size = n1] = Buffer(b, h, n1, c, o1)
    BY SMT DEF Buffer
  <1>8. [Buffer(b, h, n1, c, o1) EXCEPT !.head = h1] = Buffer(b, h1, n1, c, o1)
    BY SMT DEF Buffer
  <1>9. [l EXCEPT !.open = o1, !.size = n1, !.head = h1] = Buffer(b, h1, n1, c, o1)
    BY Zenon, <1>2, <1>6, <1>7, <1>8
  <1>10. Cleared(l) = [l EXCEPT !.open = o1, !.size = n1, !.head = h1]
    BY Zenon, <1>3, <1>4, <1>5 DEF Cleared
  <1>11. Cleared(l) = Buffer(b, h1, n1, c, o1)
    BY Zenon, <1>9, <1>10
  <1> QED
    BY Zenon, <1>1, <1>3, <1>4, <1>5, <1>11

LEMMA SyncedFields ==
    ASSUME NEW l, IsList(l)
    PROVE  Synced(l) =
              Buffer([s \in Slots(l) |-> l.base[(s + l.head) % l.capacity]], 0, l.size, l.capacity,
                     0..(l.size - 1))
  <1>1. PICK b, h, n, c, o : /\ b = l.base /\ h = l.head /\ n = l.size /\ c = l.capacity /\ o = l.open
    OBVIOUS
  <1>2. l = Buffer(b, h, n, c, o)
    BY <1>1, Fields DEF Buffer
  <1>3. PICK b1 : b1 = [s \in Slots(l) |-> l.base[(s + l.head) % l.capacity]]
    OBVIOUS
  <1>4. PICK o1 : o1 = 0..(l.size - 1)
    OBVIOUS
  <1>5. PICK h1 : h1 = 0
    OBVIOUS
  <1>6. [Buffer(b, h, n, c, o) EXCEPT !.base = b1] = Buffer(b1, h, n, c, o)
    BY SMT DEF Buffer
  <1>7. [Buffer(b1, h, n, c, o) EXCEPT !.open = o1] = Buffer(b1, h, n, c, o1)
    BY SMT DEF Buffer
  <1>8. [Buffer(b1, h, n, c, o1) EXCEPT !.head = h1] = Buffer(b1, h1, n, c, o1)
    BY SMT DEF Buffer
  <1>9. [l EXCEPT !.base = b1, !.open = o1, !.head = h1] = Buffer(b1, h1, n, c, o1)
    BY Zenon, <1>2, <1>6, <1>7, <1>8
  <1>10. Synced(l) = [l EXCEPT !.base = b1, !.open = o1, !.head = h1]
    BY Zenon, <1>3, <1>4, <1>5 DEF Synced
  <1>11. Synced(l) = Buffer(b1, h1, n, c, o1)
    BY Zenon, <1>9, <1>10
  <1> QED
    BY Zenon, <1>1, <1>3, <1>4, <1>5, <1>11

LEMMA CopiedFields ==
    ASSUME NEW l, IsList(l)
    PROVE  Copied(l) =
              Buffer([s \in Slots(l) |-> IF s < l.size THEN Content(l)[s + 1] ELSE ZERO], 0, l.size,
                     l.capacity, 0..(l.size - 1))
  <1>1. PICK b, h, n, c, o : /\ b = l.base /\ h = l.head /\ n = l.size /\ c = l.capacity /\ o = l.open
    OBVIOUS
  <1>2. l = Buffer(b, h, n, c, o)
    BY <1>1, Fields DEF Buffer
  <1>3. PICK b1 : b1 = [s \in Slots(l) |-> IF s < l.size THEN Content(l)[s + 1] ELSE ZERO]
    OBVIOUS
  <1>4. PICK o1 : o1 = 0..(l.size - 1)
    OBVIOUS
  <1>5. PICK h1 : h1 = 0
    OBVIOUS
  <1>6. [Buffer(b, h, n, c, o) EXCEPT !.base = b1] = Buffer(b1, h, n, c, o)
    BY SMT DEF Buffer
  <1>7. [Buffer(b1, h, n, c, o) EXCEPT !.open = o1] = Buffer(b1, h, n, c, o1)
    BY SMT DEF Buffer
  <1>8. [Buffer(b1, h, n, c, o1) EXCEPT !.head = h1] = Buffer(b1, h1, n, c, o1)
    BY SMT DEF Buffer
  <1>9. [l EXCEPT !.base = b1, !.open = o1, !.head = h1] = Buffer(b1, h1, n, c, o1)
    BY Zenon, <1>2, <1>6, <1>7, <1>8
  <1>10. Copied(l) = [l EXCEPT !.base = b1, !.open = o1, !.head = h1]
    BY Zenon, <1>3, <1>4, <1>5 DEF Copied
  <1>11. Copied(l) = Buffer(b1, h1, n, c, o1)
    BY Zenon, <1>9, <1>10
  <1> QED
    BY Zenon, <1>1, <1>3, <1>4, <1>5, <1>11

LEMMA ReversedFields ==
    ASSUME NEW l, IsList(l), NEW b1, b1 = [s \in Slots(l) |->
                      LET i == (s + l.capacity - l.head) % l.capacity
                      IN  IF i < l.size THEN l.base[At(l, l.size - 1 - i)] ELSE l.base[s]]
    PROVE  Reversed(l) =
              Buffer(b1, l.head, l.size, l.capacity, l.open)
  <1>1. PICK b, h, n, c, o : /\ b = l.base /\ h = l.head /\ n = l.size /\ c = l.capacity /\ o = l.open
    OBVIOUS
  <1>2. l = Buffer(b, h, n, c, o)
    BY <1>1, Fields DEF Buffer
  <1>3. PICK b2 : b2 = b1
    OBVIOUS
  <1>4. [Buffer(b, h, n, c, o) EXCEPT !.base = b2] = Buffer(b2, h, n, c, o)
    BY SMT DEF Buffer
  <1>5. [l EXCEPT !.base = b2] = Buffer(b2, h, n, c, o)
    BY Zenon, <1>2, <1>4
  <1>6. Reversed(l) = [l EXCEPT !.base = b2]
    BY Zenon, <1>3 DEF Reversed
  <1>7. Reversed(l) = Buffer(b2, h, n, c, o)
    BY Zenon, <1>5, <1>6
  <1> QED
    BY Zenon, <1>1, <1>3, <1>7

LEMMA PoppedFrontFields ==
    ASSUME NEW l, IsList(l)
    PROVE  PoppedFront(l) =
              Buffer(l.base, (l.head + 1) % l.capacity, l.size - 1, l.capacity, l.open \ {l.head})
  <1>1. PICK b, h, n, c, o : /\ b = l.base /\ h = l.head /\ n = l.size /\ c = l.capacity /\ o = l.open
    OBVIOUS
  <1>2. l = Buffer(b, h, n, c, o)
    BY <1>1, Fields DEF Buffer
  <1>3. PICK o1 : o1 = l.open \ {l.head}
    OBVIOUS
  <1>4. PICK h1 : h1 = (l.head + 1) % l.capacity
    OBVIOUS
  <1>5. PICK n1 : n1 = l.size - 1
    OBVIOUS
  <1>6. [Buffer(b, h, n, c, o) EXCEPT !.open = o1] = Buffer(b, h, n, c, o1)
    BY SMT DEF Buffer
  <1>7. [Buffer(b, h, n, c, o1) EXCEPT !.head = h1] = Buffer(b, h1, n, c, o1)
    BY SMT DEF Buffer
  <1>8. [Buffer(b, h1, n, c, o1) EXCEPT !.size = n1] = Buffer(b, h1, n1, c, o1)
    BY SMT DEF Buffer
  <1>9. [l EXCEPT !.open = o1, !.head = h1, !.size = n1] = Buffer(b, h1, n1, c, o1)
    BY Zenon, <1>2, <1>6, <1>7, <1>8
  <1>10. PoppedFront(l) = [l EXCEPT !.open = o1, !.head = h1, !.size = n1]
    BY Zenon, <1>3, <1>4, <1>5 DEF PoppedFront
  <1>11. PoppedFront(l) = Buffer(b, h1, n1, c, o1)
    BY Zenon, <1>9, <1>10
  <1> QED
    BY Zenon, <1>1, <1>3, <1>4, <1>5, <1>11

LEMMA PoppedBackFields ==
    ASSUME NEW l, IsList(l)
    PROVE  PoppedBack(l) =
              Buffer(l.base, l.head, l.size - 1, l.capacity, l.open \ {At(l, l.size - 1)})
  <1>1. PICK b, h, n, c, o : /\ b = l.base /\ h = l.head /\ n = l.size /\ c = l.capacity /\ o = l.open
    OBVIOUS
  <1>2. l = Buffer(b, h, n, c, o)
    BY <1>1, Fields DEF Buffer
  <1>3. PICK o1 : o1 = l.open \ {At(l, l.size - 1)}
    OBVIOUS
  <1>4. PICK n1 : n1 = l.size - 1
    OBVIOUS
  <1>5. [Buffer(b, h, n, c, o) EXCEPT !.open = o1] = Buffer(b, h, n, c, o1)
    BY SMT DEF Buffer
  <1>6. [Buffer(b, h, n, c, o1) EXCEPT !.size = n1] = Buffer(b, h, n1, c, o1)
    BY SMT DEF Buffer
  <1>7. [l EXCEPT !.open = o1, !.size = n1] = Buffer(b, h, n1, c, o1)
    BY Zenon, <1>2, <1>5, <1>6
  <1>8. PoppedBack(l) = [l EXCEPT !.open = o1, !.size = n1]
    BY Zenon, <1>3, <1>4 DEF PoppedBack
  <1>9. PoppedBack(l) = Buffer(b, h, n1, c, o1)
    BY Zenon, <1>7, <1>8
  <1> QED
    BY Zenon, <1>1, <1>3, <1>4, <1>9

\* What try_reserve computes on its way.
Grew(l, k, wraps, newHead, b1, o1) ==
    /\ wraps = (l.head + l.size > l.capacity)
    /\ newHead = IF wraps THEN k - (l.capacity - l.head) ELSE l.head
    /\ b1 = [s \in 0..(k - 1) |-> IF wraps /\ s >= newHead THEN l.base[s - newHead + l.head]
                                  ELSE IF s < l.capacity THEN l.base[s] ELSE ZERO]
    /\ o1 = IF wraps THEN (l.open \cup newHead..(k - 1))
                            \ ((l.size - (l.capacity - l.head))..(l.head - 1))
                    ELSE l.open

LEMMA ReservedFields ==
    ASSUME NEW l, IsList(l), NEW k, ~ l.capacity >= k,
           NEW wraps, NEW newHead, NEW b1, NEW o1, Grew(l, k, wraps, newHead, b1, o1)
    PROVE  Reserved(l, k) =
              Buffer(b1, newHead, l.size, k, o1)
  <1>1. PICK b, h, n, c, o : /\ b = l.base /\ h = l.head /\ n = l.size /\ c = l.capacity /\ o = l.open
    OBVIOUS
  <1>2. l = Buffer(b, h, n, c, o)
    BY <1>1, Fields DEF Buffer
  <1>3. PICK b2 : b2 = b1
    OBVIOUS
  <1>4. PICK o2 : o2 = o1
    OBVIOUS
  <1>5. PICK h2 : h2 = newHead
    OBVIOUS
  <1>6. PICK c2 : c2 = k
    OBVIOUS
  <1>7. [Buffer(b, h, n, c, o) EXCEPT !.base = b2] = Buffer(b2, h, n, c, o)
    BY SMT DEF Buffer
  <1>8. [Buffer(b2, h, n, c, o) EXCEPT !.open = o2] = Buffer(b2, h, n, c, o2)
    BY SMT DEF Buffer
  <1>9. [Buffer(b2, h, n, c, o2) EXCEPT !.head = h2] = Buffer(b2, h2, n, c, o2)
    BY SMT DEF Buffer
  <1>10. [Buffer(b2, h2, n, c, o2) EXCEPT !.capacity = c2] = Buffer(b2, h2, n, c2, o2)
    BY SMT DEF Buffer
  <1>11. [l EXCEPT !.base = b2, !.open = o2, !.head = h2, !.capacity = c2] = Buffer(b2, h2, n, c2, o2)
    BY Zenon, <1>2, <1>7, <1>8, <1>9, <1>10
  <1>12. Reserved(l, k) = [l EXCEPT !.base = b2, !.open = o2, !.head = h2, !.capacity = c2]
    BY Zenon, <1>3, <1>4, <1>5, <1>6 DEF Reserved, Grew
  <1>13. Reserved(l, k) = Buffer(b2, h2, n, c2, o2)
    BY Zenon, <1>11, <1>12
  <1> QED
    BY Zenon, <1>1, <1>3, <1>4, <1>5, <1>6, <1>13

----------------------------------------------------------------------------
(* Lists and the sequences they stand for                                  *)

\* Where the item of an index is: after the head, or wrapped.
LEMMA AtIs ==
    ASSUME NEW l, IsList(l), l.capacity > 0, NEW i \in Nat, i <= l.capacity
    PROVE  /\ At(l, i) = IF l.head + i < l.capacity THEN l.head + i ELSE l.head + i - l.capacity
           /\ At(l, i) \in 0..(l.capacity - 1)
  <1>1. PICK c, h : c = l.capacity /\ h = l.head
    OBVIOUS
  <1>2. c \in Nat /\ h \in Nat /\ h < c /\ c > 0
    BY <1>1, Fields
  <1>3. /\ (h + i) % c = IF h + i < c THEN h + i ELSE h + i - c
        /\ (h + i) % c \in 0..(c - 1)
    BY <1>1, <1>2
  <1> QED
    BY <1>1, <1>3 DEF At

\* A list whose slots hold the items of xs, in that order and open, is that sequence.
LEMMA Holds ==
    ASSUME NEW l, IsList(l), NEW xs \in Seq(Item), Len(xs) = l.size,
           \A i \in 0..(l.size - 1) : At(l, i) \in l.open /\ l.base[At(l, i)] = xs[i + 1]
    PROVE  ListOK(l) /\ Content(l) = xs
  <1>1. l.size \in Nat
    BY Fields
  <1>2. \A i \in 0..(l.size - 1) : xs[i + 1] \in Item
    BY <1>1
  <1>3. ListOK(l)
    BY <1>2 DEF ListOK, Live
  <1>4. \A i \in 1..l.size : l.base[At(l, i - 1)] = xs[i]
    <2> TAKE i \in 1..l.size
    <2>1. i - 1 \in 0..(l.size - 1) /\ (i - 1) + 1 = i
      BY <1>1
    <2> QED
      BY <2>1
  <1>5. Content(l) = [i \in 1..l.size |-> xs[i]]
    BY <1>4 DEF Content
  <1> QED
    BY <1>1, <1>3, <1>5

\* The sequence that a list stands for, slot by slot.
LEMMA Held ==
    ASSUME NEW l, ListOK(l)
    PROVE  /\ IsList(l)
           /\ Content(l) \in Seq(Item) /\ Len(Content(l)) = l.size
           /\ \A i \in 0..(l.size - 1) :
                 /\ At(l, i) \in l.open /\ At(l, i) \in 0..(l.capacity - 1)
                 /\ l.base[At(l, i)] = Content(l)[i + 1]
                 /\ l.base[At(l, i)] \in Item
           /\ {l.base[s] : s \in Live(l)} = {Content(l)[i] : i \in DOMAIN Content(l)}
  <1>1. IsList(l)
    BY DEF ListOK
  <1>2. l.size \in Nat /\ l.open \subseteq 0..(l.capacity - 1)
    BY <1>1, Fields
  <1>3. \A i \in 0..(l.size - 1) : At(l, i) \in l.open /\ l.base[At(l, i)] \in Item
    BY DEF ListOK, Live
  <1>4. \A i \in 1..l.size : l.base[At(l, i - 1)] \in Item
    <2> TAKE i \in 1..l.size
    <2>1. i - 1 \in 0..(l.size - 1)
      BY <1>2
    <2> QED
      BY <2>1, <1>3
  <1>5. Content(l) \in Seq(Item) /\ Len(Content(l)) = l.size /\ DOMAIN Content(l) = 1..l.size
    BY <1>2, <1>4 DEF Content
  <1>6. \A i \in 0..(l.size - 1) : l.base[At(l, i)] = Content(l)[i + 1]
    <2> TAKE i \in 0..(l.size - 1)
    <2>1. i + 1 \in 1..l.size /\ (i + 1) - 1 = i
      BY <1>2
    <2> QED
      BY <2>1 DEF Content
  <1>7. {l.base[s] : s \in Live(l)} = {Content(l)[i] : i \in DOMAIN Content(l)}
    <2>1. ASSUME NEW s \in Live(l) PROVE \E i \in 1..l.size : Content(l)[i] = l.base[s]
      <3>1. PICK i \in 0..(l.size - 1) : s = At(l, i)
        BY DEF Live
      <3>2. i + 1 \in 1..l.size
        BY <1>2
      <3> QED
        BY <3>1, <3>2, <1>6
    <2>2. ASSUME NEW i \in 1..l.size PROVE \E s \in Live(l) : Content(l)[i] = l.base[s]
      <3>1. i - 1 \in 0..(l.size - 1)
        BY <1>2
      <3> QED
        BY <3>1 DEF Live, Content
    <2> QED
      BY <2>1, <2>2, <1>5
  <1> QED
    BY <1>1, <1>2, <1>3, <1>5, <1>6, <1>7

----------------------------------------------------------------------------
(* What the operations do to the sequence                                  *)

LEMMA AppendHolds ==
    ASSUME NEW l, ListOK(l), l.size < l.capacity, NEW x \in Item
    PROVE  /\ ListOK(Appended(l, x))
           /\ Content(Appended(l, x)) = Append(Content(l), x)
           /\ Appended(l, x).capacity = l.capacity
  <1>1. PICK u, b, h, n, c, o, slot :
           /\ u = Appended(l, x) /\ b = l.base /\ h = l.head /\ n = l.size /\ c = l.capacity
           /\ o = l.open /\ slot = At(l, l.size)
    OBVIOUS
  <1>2. /\ IsList(l) /\ Content(l) \in Seq(Item) /\ Len(Content(l)) = n
        /\ b \in [0..(c - 1) -> Item \cup {ZERO}] /\ o \subseteq 0..(c - 1)
        /\ c \in Nat /\ h \in Nat /\ n \in Nat /\ n < c /\ h < c
    BY <1>1, Held, Fields
  <1>3. slot \in 0..(c - 1) /\ slot = IF h + n < c THEN h + n ELSE h + n - c
    BY <1>1, <1>2, AtIs
  <1>4. u = Buffer([b EXCEPT ![slot] = x], h, n + 1, c, o \cup {slot})
    BY <1>1, <1>2, AppendedFields
  <1>5. /\ u.base = [b EXCEPT ![slot] = x] /\ u.head = h /\ u.size = n + 1 /\ u.capacity = c
        /\ u.open = o \cup {slot}
    BY <1>4 DEF Buffer
  <1>6. IsList(u)
    <2>1. [b EXCEPT ![slot] = x] \in [0..(c - 1) -> Item \cup {ZERO}]
      BY <1>2, <1>3
    <2>2. n + 1 \in Nat /\ n + 1 <= c /\ o \cup {slot} \in SUBSET (0..(c - 1))
      BY <1>2, <1>3
    <2>3. (c > 0 => h < c) /\ (c = 0 => h = 0)
      BY <1>2
    <2> QED
      BY <1>2, <1>4, <2>1, <2>2, <2>3, Built
  <1>7. PICK xs : xs = Append(Content(l), x)
    OBVIOUS
  <1>8. xs \in Seq(Item) /\ Len(xs) = u.size
    BY <1>2, <1>5, <1>7
  <1>9. ASSUME NEW i \in 0..(u.size - 1)
        PROVE  At(u, i) \in u.open /\ u.base[At(u, i)] = xs[i + 1]
    <2>1. At(u, i) = At(l, i)
      BY <1>1, <1>5 DEF At
    <2>2. CASE i = n
      <3>1. At(u, i) = slot
        BY <1>1, <2>1, <2>2
      <3>2. u.base[slot] = x
        BY <1>2, <1>3, <1>5
      <3>3. xs[i + 1] = x
        BY <1>2, <1>7, <2>2
      <3> QED
        BY <1>5, <3>1, <3>2, <3>3
    <2>3. CASE i # n
      <3>1. i \in 0..(n - 1)
        BY <1>2, <1>5, <2>3
      <3>2. At(u, i) = At(l, i)
        BY <2>1
      <3>3. At(u, i) = IF h + i < c THEN h + i ELSE h + i - c
        BY <1>1, <1>2, <2>1, <3>1, AtIs
      <3>4. At(u, i) # slot
        BY <1>2, <1>3, <3>1, <3>3
      <3>5. At(l, i) \in o /\ At(l, i) \in 0..(c - 1) /\ b[At(l, i)] = Content(l)[i + 1]
        BY <1>1, <3>1, Held
      <3>6. u.base[At(u, i)] = b[At(l, i)]
        BY <1>2, <1>5, <3>2, <3>4, <3>5
      <3>7. xs[i + 1] = Content(l)[i + 1]
        BY <1>2, <1>7, <3>1
      <3> QED
        BY <1>5, <3>2, <3>5, <3>6, <3>7
    <2> QED
      BY <2>2, <2>3
  <1>10. ListOK(u) /\ Content(u) = xs
    BY <1>6, <1>8, <1>9, Holds
  <1> QED
    BY <1>1, <1>5, <1>7, <1>10

LEMMA PrependHolds ==
    ASSUME NEW l, ListOK(l), l.size < l.capacity, NEW x \in Item
    PROVE  /\ ListOK(Prepended(l, x))
           /\ Content(Prepended(l, x)) = <<x>> \o Content(l)
           /\ Prepended(l, x).capacity = l.capacity
  <1>1. PICK u, b, h, n, c, o, slot :
           /\ u = Prepended(l, x) /\ b = l.base /\ h = l.head /\ n = l.size /\ c = l.capacity
           /\ o = l.open /\ slot = (l.head + (l.capacity - 1)) % l.capacity
    OBVIOUS
  <1>2. /\ IsList(l) /\ Content(l) \in Seq(Item) /\ Len(Content(l)) = n
        /\ b \in [0..(c - 1) -> Item \cup {ZERO}] /\ o \subseteq 0..(c - 1)
        /\ c \in Nat /\ h \in Nat /\ n \in Nat /\ n < c /\ h < c
    BY <1>1, Held, Fields
  <1>3. slot \in 0..(c - 1) /\ slot = IF h = 0 THEN c - 1 ELSE h - 1
    <2>1. PICK k : k = l.capacity - 1
      OBVIOUS
    <2>2. slot = At(l, k) /\ k \in Nat /\ k <= l.capacity /\ l.capacity > 0
      BY <1>1, <1>2, <2>1 DEF At
    <2>3. /\ At(l, k) = IF l.head + k < l.capacity THEN l.head + k ELSE l.head + k - l.capacity
          /\ At(l, k) \in 0..(l.capacity - 1)
      BY <1>2, <2>2, AtIs
    <2>4. slot \in 0..(c - 1) /\ slot = IF h + k < c THEN h + k ELSE h + k - c
      BY <1>1, <2>2, <2>3
    <2>5. k = c - 1 /\ c \in Nat /\ h \in Nat /\ h < c
      BY <1>1, <1>2, <2>1
    <2> QED
      BY <2>4, <2>5
  <1>4. u = Buffer([b EXCEPT ![slot] = x], slot, n + 1, c, o \cup {slot})
    BY <1>1, <1>2, PrependedFields
  <1>5. /\ u.base = [b EXCEPT ![slot] = x] /\ u.head = slot /\ u.size = n + 1 /\ u.capacity = c
        /\ u.open = o \cup {slot}
    BY <1>4 DEF Buffer
  <1>6. IsList(u)
    <2>1. [b EXCEPT ![slot] = x] \in [0..(c - 1) -> Item \cup {ZERO}]
      BY <1>2, <1>3
    <2>2. n + 1 \in Nat /\ n + 1 <= c /\ o \cup {slot} \in SUBSET (0..(c - 1)) /\ slot \in Nat
      BY <1>2, <1>3
    <2>3. (c > 0 => slot < c) /\ (c = 0 => slot = 0)
      BY <1>2, <1>3
    <2> QED
      BY <1>2, <1>4, <2>1, <2>2, <2>3, Built
  <1>7. PICK xs : xs = <<x>> \o Content(l)
    OBVIOUS
  <1>8. xs \in Seq(Item) /\ Len(xs) = u.size
    BY <1>2, <1>5, <1>7
  <1>9. ASSUME NEW i \in 0..(u.size - 1)
        PROVE  At(u, i) \in u.open /\ u.base[At(u, i)] = xs[i + 1]
    <2>1. At(u, i) = IF slot + i < c THEN slot + i ELSE slot + i - c
      <3>1. i \in Nat /\ i <= c /\ u.capacity > 0
        BY <1>2, <1>5
      <3> QED
        BY <1>5, <1>6, <3>1, AtIs
    <2>2. CASE i = 0
      <3>1. At(u, i) = slot
        BY <1>2, <1>3, <2>1, <2>2
      <3>2. u.base[slot] = x
        BY <1>2, <1>3, <1>5
      <3>3. xs[i + 1] = x
        BY <1>2, <1>7, <2>2
      <3> QED
        BY <1>5, <3>1, <3>2, <3>3
    <2>3. CASE i # 0
      <3>1. i - 1 \in 0..(n - 1) /\ i - 1 \in Nat /\ i - 1 <= c
        BY <1>2, <1>5, <2>3
      <3>2. At(l, i - 1) = IF h + (i - 1) < c THEN h + (i - 1) ELSE h + (i - 1) - c
        BY <1>1, <1>2, <3>1, AtIs
      <3>3. At(u, i) = At(l, i - 1) /\ At(u, i) # slot
        BY <1>2, <1>3, <2>1, <3>1, <3>2
      <3>4. /\ At(l, i - 1) \in o /\ At(l, i - 1) \in 0..(c - 1)
            /\ b[At(l, i - 1)] = Content(l)[i]
        BY <1>1, <3>1, Held
      <3>5. u.base[At(u, i)] = b[At(l, i - 1)]
        BY <1>2, <1>5, <3>3, <3>4
      <3>6. xs[i + 1] = Content(l)[i]
        BY <1>2, <1>7, <3>1
      <3> QED
        BY <1>5, <3>3, <3>4, <3>5, <3>6
    <2> QED
      BY <2>2, <2>3
  <1>10. ListOK(u) /\ Content(u) = xs
    BY <1>6, <1>8, <1>9, Holds
  <1> QED
    BY <1>1, <1>5, <1>7, <1>10

LEMMA PopFrontHolds ==
    ASSUME NEW l, ListOK(l), l.size > 0
    PROVE  /\ ListOK(PoppedFront(l))
           /\ Content(PoppedFront(l)) = Tail(Content(l))
           /\ PoppedFront(l).capacity = l.capacity
  <1>1. PICK u, b, h, n, c, o, g :
           /\ u = PoppedFront(l) /\ b = l.base /\ h = l.head /\ n = l.size /\ c = l.capacity
           /\ o = l.open /\ g = (l.head + 1) % l.capacity
    OBVIOUS
  <1>2. /\ IsList(l) /\ Content(l) \in Seq(Item) /\ Len(Content(l)) = n
        /\ b \in [0..(c - 1) -> Item \cup {ZERO}] /\ o \subseteq 0..(c - 1)
        /\ c \in Nat /\ h \in Nat /\ n \in Nat /\ n <= c /\ n > 0 /\ c > 0 /\ h < c
    BY <1>1, Held, Fields
  <1>3. g \in 0..(c - 1) /\ g = IF h + 1 < c THEN h + 1 ELSE h + 1 - c
    <2>1. PICK k : k = 1
      OBVIOUS
    <2>2. g = At(l, k) /\ k \in Nat /\ k <= l.capacity /\ l.capacity > 0
      BY <1>1, <1>2, <2>1 DEF At
    <2>3. /\ At(l, k) = IF l.head + k < l.capacity THEN l.head + k ELSE l.head + k - l.capacity
          /\ At(l, k) \in 0..(l.capacity - 1)
      BY <1>2, <2>2, AtIs
    <2> QED
      BY <1>1, <2>1, <2>2, <2>3
  <1>4. u = Buffer(b, g, n - 1, c, o \ {h})
    BY <1>1, <1>2, PoppedFrontFields
  <1>5. u.base = b /\ u.head = g /\ u.size = n - 1 /\ u.capacity = c /\ u.open = o \ {h}
    BY <1>4 DEF Buffer
  <1>6. IsList(u)
    <2>1. n - 1 \in Nat /\ n - 1 <= c /\ o \ {h} \in SUBSET (0..(c - 1)) /\ g \in Nat
      BY <1>2, <1>3
    <2>2. (c > 0 => g < c) /\ (c = 0 => g = 0)
      BY <1>2, <1>3
    <2> QED
      BY <1>2, <1>4, <2>1, <2>2, Built
  <1>7. PICK xs : xs = Tail(Content(l))
    OBVIOUS
  <1>8. xs \in Seq(Item) /\ Len(xs) = u.size
    BY <1>2, <1>5, <1>7
  <1>9. ASSUME NEW i \in 0..(u.size - 1)
        PROVE  At(u, i) \in u.open /\ u.base[At(u, i)] = xs[i + 1]
    <2>1. PICK j : j = i + 1
      OBVIOUS
    <2>2. /\ i \in Nat /\ i <= c /\ i < n - 1
          /\ j \in 0..(n - 1) /\ j \in Nat /\ j <= c
      BY <1>2, <1>5, <2>1
    <2>3. At(u, i) = IF g + i < c THEN g + i ELSE g + i - c
      BY <1>2, <1>5, <1>6, <2>2, AtIs
    <2>4. At(l, j) = IF h + j < c THEN h + j ELSE h + j - c
      BY <1>1, <1>2, <2>2, AtIs
    <2>5. At(u, i) = At(l, j) /\ At(u, i) # h
      BY <1>2, <1>3, <2>1, <2>2, <2>3, <2>4
    <2>6. At(l, j) \in o /\ b[At(l, j)] = Content(l)[j + 1]
      BY <1>1, <2>2, Held
    <2>7. xs[i + 1] = Content(l)[j + 1]
      BY <1>2, <1>7, <2>1, <2>2
    <2> QED
      BY <1>5, <2>5, <2>6, <2>7
  <1>10. ListOK(u) /\ Content(u) = xs
    BY <1>6, <1>8, <1>9, Holds
  <1> QED
    BY <1>1, <1>5, <1>7, <1>10

LEMMA PopBackHolds ==
    ASSUME NEW l, ListOK(l), l.size > 0
    PROVE  /\ ListOK(PoppedBack(l))
           /\ Content(PoppedBack(l)) = SubSeq(Content(l), 1, Len(Content(l)) - 1)
           /\ PoppedBack(l).capacity = l.capacity
  <1>1. PICK u, b, h, n, c, o, last, k :
           /\ u = PoppedBack(l) /\ b = l.base /\ h = l.head /\ n = l.size /\ c = l.capacity
           /\ o = l.open /\ k = l.size - 1 /\ last = At(l, l.size - 1)
    OBVIOUS
  <1>2. /\ IsList(l) /\ Content(l) \in Seq(Item) /\ Len(Content(l)) = n
        /\ b \in [0..(c - 1) -> Item \cup {ZERO}] /\ o \subseteq 0..(c - 1)
        /\ c \in Nat /\ h \in Nat /\ n \in Nat /\ n <= c /\ n > 0 /\ c > 0 /\ h < c
        /\ k \in Nat /\ k = n - 1 /\ k <= c
    BY <1>1, Held, Fields
  <1>3. last = IF h + k < c THEN h + k ELSE h + k - c
    BY <1>1, <1>2, AtIs
  <1>4. u = Buffer(b, h, k, c, o \ {last})
    BY <1>1, <1>2, PoppedBackFields
  <1>5. u.base = b /\ u.head = h /\ u.size = k /\ u.capacity = c /\ u.open = o \ {last}
    BY <1>4 DEF Buffer
  <1>6. IsList(u)
    <2>1. o \ {last} \in SUBSET (0..(c - 1))
      BY <1>2
    <2>2. (c > 0 => h < c) /\ (c = 0 => h = 0)
      BY <1>2
    <2> QED
      BY <1>2, <1>4, <2>1, <2>2, Built
  <1>7. PICK xs : xs = SubSeq(Content(l), 1, Len(Content(l)) - 1)
    OBVIOUS
  <1>8. xs \in Seq(Item) /\ Len(xs) = u.size
    BY <1>2, <1>5, <1>7
  <1>9. ASSUME NEW i \in 0..(u.size - 1)
        PROVE  At(u, i) \in u.open /\ u.base[At(u, i)] = xs[i + 1]
    <2>1. i \in Nat /\ i <= c /\ i < k /\ i \in 0..(n - 1)
      BY <1>2, <1>5
    <2>2. At(u, i) = At(l, i)
      BY <1>1, <1>5 DEF At
    <2>3. At(l, i) = IF h + i < c THEN h + i ELSE h + i - c
      BY <1>1, <1>2, <2>1, AtIs
    <2>4. At(l, i) # last
      BY <1>2, <1>3, <2>1, <2>3
    <2>5. At(l, i) \in o /\ b[At(l, i)] = Content(l)[i + 1]
      BY <1>1, <2>1, Held
    <2>6. xs[i + 1] = Content(l)[i + 1]
      BY <1>2, <1>7, <2>1
    <2> QED
      BY <1>5, <2>2, <2>4, <2>5, <2>6
  <1>10. ListOK(u) /\ Content(u) = xs
    BY <1>6, <1>8, <1>9, Holds
  <1> QED
    BY <1>1, <1>5, <1>7, <1>10

LEMMA ClearHolds ==
    ASSUME NEW l, ListOK(l)
    PROVE  /\ ListOK(Cleared(l)) /\ Content(Cleared(l)) = <<>>
           /\ Cleared(l).capacity = l.capacity
  <1>1. PICK u, b, c, o :
           u = Cleared(l) /\ b = l.base /\ c = l.capacity /\ o = l.open \ Live(l)
    OBVIOUS
  <1>2. /\ IsList(l) /\ c \in Nat /\ o \in SUBSET (0..(c - 1))
        /\ b \in [0..(c - 1) -> Item \cup {ZERO}]
    BY <1>1, Held, Fields
  <1>3. u = Buffer(b, 0, 0, c, o)
    BY <1>1, <1>2, ClearedFields
  <1>4. u.size = 0 /\ u.capacity = c
    BY <1>3 DEF Buffer
  <1>5. IsList(u)
    BY <1>2, <1>3, Built
  <1>6. PICK xs : xs = <<>>
    OBVIOUS
  <1>7. xs \in Seq(Item) /\ Len(xs) = u.size
    BY <1>4, <1>6
  <1>8. \A i \in 0..(u.size - 1) : At(u, i) \in u.open /\ u.base[At(u, i)] = xs[i + 1]
    BY <1>4
  <1>9. ListOK(u) /\ Content(u) = xs
    BY <1>5, <1>7, <1>8, Holds
  <1> QED
    BY <1>1, <1>4, <1>6, <1>9

LEMMA ZeroHolds ==
    ListOK(ZeroList) /\ Content(ZeroList) = <<>> /\ ZeroList.capacity = 0
  <1>1. PICK b : b = [s \in 0..(-1) |-> ZERO]
    OBVIOUS
  <1>2. ZeroList = Buffer(b, 0, 0, 0, {})
    BY <1>1, Zenon DEF ZeroList, Buffer
  <1>3. PICK u : u = ZeroList
    OBVIOUS
  <1>4. u.size = 0 /\ u.capacity = 0
    BY <1>2, <1>3 DEF Buffer
  <1>5. b \in [0..(0 - 1) -> Item \cup {ZERO}]
    BY <1>1
  <1>6. IsList(u)
    <2>1. PICK z : z = 0
      OBVIOUS
    <2>2. /\ u = Buffer(b, z, z, z, {}) /\ b \in [0..(z - 1) -> Item \cup {ZERO}]
          /\ z \in Nat /\ (z > 0 => z < z) /\ (z = 0 => z = 0) /\ z <= z
          /\ {} \in SUBSET (0..(z - 1))
      BY <1>2, <1>3, <1>5, <2>1
    <2> QED
      BY <2>2, Built
  <1>7. PICK xs : xs = <<>>
    OBVIOUS
  <1>8. xs \in Seq(Item) /\ Len(xs) = u.size
    BY <1>4, <1>7
  <1>9. \A i \in 0..(u.size - 1) : At(u, i) \in u.open /\ u.base[At(u, i)] = xs[i + 1]
    BY <1>4
  <1>10. ListOK(u) /\ Content(u) = xs
    BY <1>6, <1>8, <1>9, Holds
  <1> QED
    BY <1>3, <1>4, <1>7, <1>10

LEMMA SetFields ==
    ASSUME NEW l, IsList(l), NEW b1
    PROVE  [l EXCEPT !.base = b1] = Buffer(b1, l.head, l.size, l.capacity, l.open)
  <1>1. PICK b, h, n, c, o : /\ b = l.base /\ h = l.head /\ n = l.size /\ c = l.capacity /\ o = l.open
    OBVIOUS
  <1>2. l = Buffer(b, h, n, c, o)
    BY <1>1, Fields DEF Buffer
  <1>3. [Buffer(b, h, n, c, o) EXCEPT !.base = b1] = Buffer(b1, h, n, c, o)
    BY SMT DEF Buffer
  <1>4. [l EXCEPT !.base = b1] = Buffer(b1, h, n, c, o)
    BY Zenon, <1>2, <1>3
  <1> QED
    BY Zenon, <1>1, <1>4

LEMMA SetHolds ==
    ASSUME NEW l, ListOK(l), NEW index \in 0..(l.size - 1), NEW x \in Item,
           NEW slot, slot = At(l, index), NEW u, u = [l EXCEPT !.base[slot] = x]
    PROVE  /\ ListOK(u) /\ Content(u) = [Content(l) EXCEPT ![index + 1] = x]
           /\ u.capacity = l.capacity
  <1>1. PICK b, h, n, c, o, b1 :
           /\ b = l.base /\ h = l.head /\ n = l.size
           /\ c = l.capacity /\ o = l.open /\ b1 = [l.base EXCEPT ![slot] = x]
    OBVIOUS
  <1>2. /\ IsList(l) /\ Content(l) \in Seq(Item) /\ Len(Content(l)) = n
        /\ b \in [0..(c - 1) -> Item \cup {ZERO}] /\ o \subseteq 0..(c - 1)
        /\ c \in Nat /\ h \in Nat /\ n \in Nat /\ n <= c /\ (c > 0 => h < c) /\ (c = 0 => h = 0)
        /\ index \in 0..(n - 1) /\ c > 0 /\ index \in Nat /\ index <= c
    BY <1>1, Held, Fields
  <1>3. slot \in 0..(c - 1) /\ slot = IF h + index < c THEN h + index ELSE h + index - c
    BY <1>1, <1>2, AtIs
  <1>4. u = Buffer(b1, h, n, c, o)
    <2>1. u = [l EXCEPT !.base = b1]
      BY Zenon, <1>1
    <2>2. [l EXCEPT !.base = b1] = Buffer(b1, l.head, l.size, l.capacity, l.open)
      BY Zenon, <1>2, SetFields
    <2> QED
      BY Zenon, <1>1, <2>1, <2>2
  <1>5. u.base = b1 /\ u.head = h /\ u.size = n /\ u.capacity = c /\ u.open = o
    BY <1>4 DEF Buffer
  <1>6. IsList(u)
    <2>1. b1 \in [0..(c - 1) -> Item \cup {ZERO}]
      BY <1>1, <1>2, <1>3
    <2>2. o \in SUBSET (0..(c - 1)) /\ b1 \in [0..(c - 1) -> Item \cup {ZERO}]
      BY <1>2, <2>1
    <2>3. IsList(Buffer(b1, h, n, c, o))
      BY <1>2, <2>2, Built
    <2> QED
      BY Zenon, <1>4, <2>3
  <1>7. PICK xs : xs = [Content(l) EXCEPT ![index + 1] = x]
    OBVIOUS
  <1>8. xs \in Seq(Item) /\ Len(xs) = u.size
    BY <1>2, <1>5, <1>7
  <1>9. ASSUME NEW i \in 0..(u.size - 1)
        PROVE  At(u, i) \in u.open /\ u.base[At(u, i)] = xs[i + 1]
    <2>1. i \in Nat /\ i <= c /\ i \in 0..(n - 1)
      BY <1>2, <1>5
    <2>2. At(u, i) = At(l, i)
      BY <1>1, <1>5 DEF At
    <2>3. At(l, i) = IF h + i < c THEN h + i ELSE h + i - c
      BY <1>1, <1>2, <2>1, AtIs
    <2>4. At(l, i) \in o /\ At(l, i) \in 0..(c - 1) /\ b[At(l, i)] = Content(l)[i + 1]
      BY <1>1, <2>1, Held
    <2>5. CASE i = index
      <3>1. b1[slot] = x
        BY <1>1, <1>2, <1>3
      <3>2. xs[i + 1] = x
        BY <1>2, <1>7, <2>5
      <3> QED
        BY <1>5, <2>2, <2>4, <2>5, <3>1, <3>2
    <2>6. CASE i # index
      <3>1. At(l, i) # slot
        BY <1>2, <1>3, <2>1, <2>3, <2>6
      <3>2. b1[At(l, i)] = b[At(l, i)]
        BY <1>1, <1>2, <2>4, <3>1
      <3>3. xs[i + 1] = Content(l)[i + 1]
        BY <1>2, <1>7, <2>1, <2>6
      <3> QED
        BY <1>5, <2>2, <2>4, <3>2, <3>3
    <2> QED
      BY <2>5, <2>6
  <1>10. ListOK(u) /\ Content(u) = xs
    BY <1>6, <1>8, <1>9, Holds
  <1> QED
    BY <1>1, <1>5, <1>7, <1>10

\* The first slots hold xs.
Starts(b, n, xs) == \A i \in 0..(n - 1) : b[i] = xs[i + 1]

\* A list whose head is 0 and whose first slots are open and hold xs.
LEMMA Flat ==
    ASSUME NEW c \in Nat, NEW n \in Nat, n <= c, NEW b \in [0..(c - 1) -> Item \cup {ZERO}],
           NEW xs \in Seq(Item), Len(xs) = n, Starts(b, n, xs),
           NEW u, u = Buffer(b, 0, n, c, 0..(n - 1))
    PROVE  ListOK(u) /\ Content(u) = xs
  <1>1. u.base = b /\ u.head = 0 /\ u.size = n /\ u.capacity = c /\ u.open = 0..(n - 1)
    BY DEF Buffer
  <1>2. IsList(u)
    <2>1. PICK h : h = 0
      OBVIOUS
    <2>2. /\ h \in Nat /\ (c > 0 => h < c) /\ (c = 0 => h = 0)
          /\ 0..(n - 1) \in SUBSET (0..(c - 1)) /\ u = Buffer(b, h, n, c, 0..(n - 1))
      BY <2>1
    <2> QED
      BY <2>2, Built
  <1>3. ASSUME NEW i \in 0..(u.size - 1)
        PROVE  At(u, i) \in u.open /\ u.base[At(u, i)] = xs[i + 1]
    <2>1. i \in Nat /\ i <= u.capacity /\ u.capacity > 0 /\ i < c /\ i \in 0..(n - 1)
      BY <1>1
    <2>2. At(u, i) = IF u.head + i < u.capacity THEN u.head + i ELSE u.head + i - u.capacity
      BY <1>2, <2>1, AtIs
    <2>3. At(u, i) = i
      BY <1>1, <2>1, <2>2
    <2> QED
      BY <1>1, <2>1, <2>3 DEF Starts
  <1> QED
    BY <1>1, <1>2, <1>3, Holds


LEMMA SyncHolds ==
    ASSUME NEW l, ListOK(l)
    PROVE  /\ ListOK(Synced(l)) /\ Content(Synced(l)) = Content(l)
           /\ Synced(l).capacity = l.capacity /\ Synced(l).size = l.size /\ Synced(l).head = 0
           /\ Synced(l).open = 0..(l.size - 1)
           /\ Starts(Synced(l).base, l.size, Content(l))
  <1>1. PICK u, b, h, n, c, b1 :
           /\ u = Synced(l) /\ b = l.base /\ h = l.head /\ n = l.size /\ c = l.capacity
           /\ b1 = [s \in Slots(l) |-> l.base[(s + l.head) % l.capacity]]
    OBVIOUS
  <1>2. /\ IsList(l) /\ Content(l) \in Seq(Item) /\ Len(Content(l)) = n
        /\ b \in [0..(c - 1) -> Item \cup {ZERO}]
        /\ c \in Nat /\ h \in Nat /\ n \in Nat /\ n <= c
    BY <1>1, Held, Fields
  <1>3. u = Buffer(b1, 0, n, c, 0..(n - 1))
    BY Zenon, <1>1, <1>2, SyncedFields
  <1>4. \A s \in 0..(c - 1) : (s + h) % c = At(l, s) /\ At(l, s) \in 0..(c - 1)
    <2> TAKE s \in 0..(c - 1)
    <2>1. s \in Nat /\ s <= l.capacity /\ l.capacity > 0 /\ s + h = h + s
      BY <1>1, <1>2
    <2>2. At(l, s) \in 0..(l.capacity - 1)
      BY <1>2, <2>1, AtIs
    <2> QED
      BY <1>1, <2>1, <2>2 DEF At
  <1>5. b1 = [s \in 0..(c - 1) |-> b[At(l, s)]]
    BY <1>1, <1>4 DEF Slots
  <1>6. b1 \in [0..(c - 1) -> Item \cup {ZERO}]
    BY <1>2, <1>4, <1>5
  <1>7. Starts(b1, n, Content(l))
    <2> SUFFICES ASSUME NEW i \in 0..(n - 1)
                 PROVE  b1[i] = Content(l)[i + 1]
      BY DEF Starts
    <2>1. b[At(l, i)] = Content(l)[i + 1]
      BY <1>1, Held
    <2>2. i \in 0..(c - 1)
      BY <1>2
    <2> QED
      BY <1>5, <2>1, <2>2
  <1>8. ListOK(u) /\ Content(u) = Content(l)
    <2>1. /\ c \in Nat /\ n \in Nat /\ n <= c
          /\ Content(l) \in Seq(Item) /\ Len(Content(l)) = n
      BY <1>2
    <2> QED
      BY <1>3, <1>6, <1>7, <2>1, Flat
  <1>9. u.base = b1 /\ u.size = n /\ u.capacity = c /\ u.head = 0 /\ u.open = 0..(n - 1)
    BY <1>3 DEF Buffer
  <1> QED
    BY <1>1, <1>7, <1>8, <1>9

LEMMA CopyHolds ==
    ASSUME NEW l, ListOK(l)
    PROVE  /\ ListOK(Copied(l)) /\ Content(Copied(l)) = Content(l)
           /\ Copied(l).capacity = l.capacity
  <1>1. PICK u, n, c, b1 :
           /\ u = Copied(l) /\ n = l.size /\ c = l.capacity
           /\ b1 = [s \in Slots(l) |-> IF s < l.size THEN Content(l)[s + 1] ELSE ZERO]
    OBVIOUS
  <1>2. /\ IsList(l) /\ Content(l) \in Seq(Item) /\ Len(Content(l)) = n
        /\ c \in Nat /\ n \in Nat /\ n <= c
    BY <1>1, Held, Fields
  <1>3. u = Buffer(b1, 0, n, c, 0..(n - 1))
    BY Zenon, <1>1, <1>2, CopiedFields
  <1>4. b1 = [s \in 0..(c - 1) |-> IF s < n THEN Content(l)[s + 1] ELSE ZERO]
    BY <1>1 DEF Slots
  <1>5. b1 \in [0..(c - 1) -> Item \cup {ZERO}]
    <2>1. \A s \in 0..(c - 1) : s < n => Content(l)[s + 1] \in Item
      BY <1>2
    <2> QED
      BY <1>4, <2>1
  <1>6. Starts(b1, n, Content(l))
    BY <1>2, <1>4 DEF Starts
  <1>7. ListOK(u) /\ Content(u) = Content(l)
    BY <1>2, <1>3, <1>5, <1>6, Flat
  <1>8. u.capacity = c
    BY <1>3 DEF Buffer
  <1> QED
    BY <1>1, <1>7, <1>8

LEMMA ShrinkHolds ==
    ASSUME NEW l, ListOK(l)
    PROVE  /\ ListOK(Shrunk(l)) /\ Content(Shrunk(l)) = Content(l)
           /\ Shrunk(l).capacity = l.size
  <1>1. PICK u, m, n, b1 :
           /\ u = Shrunk(l) /\ m = Synced(l) /\ n = l.size
           /\ b1 = [s \in 0..(l.size - 1) |-> Synced(l).base[s]]
    OBVIOUS
  <1>2. /\ IsList(l) /\ Content(l) \in Seq(Item) /\ Len(Content(l)) = n /\ n \in Nat
        /\ IsList(m) /\ m.head = 0 /\ m.size = n /\ m.open = 0..(n - 1)
        /\ Starts(m.base, n, Content(l))
    BY <1>1, Held, Fields, SyncHolds DEF ListOK
  <1>3. u = Buffer(b1, 0, n, n, 0..(n - 1))
    <2>1. PICK b, c, o : b = m.base /\ c = m.capacity /\ o = m.open
      OBVIOUS
    <2>2. m = Buffer(b, 0, n, c, o)
      BY <1>2, <2>1, Fields DEF Buffer
    <2>3. [Buffer(b, 0, n, c, o) EXCEPT !.base = b1] = Buffer(b1, 0, n, c, o)
      BY SMT DEF Buffer
    <2>4. [Buffer(b1, 0, n, c, o) EXCEPT !.capacity = n] = Buffer(b1, 0, n, n, o)
      BY SMT DEF Buffer
    <2>5. [m EXCEPT !.base = b1, !.capacity = n] = Buffer(b1, 0, n, n, o)
      BY Zenon, <2>2, <2>3, <2>4
    <2>6. u = [m EXCEPT !.base = b1, !.capacity = n]
      BY Zenon, <1>1 DEF Shrunk
    <2> QED
      BY Zenon, <1>2, <2>1, <2>5, <2>6
  <1>4. \A i \in 0..(n - 1) : b1[i] = Content(l)[i + 1] /\ Content(l)[i + 1] \in Item
    BY <1>1, <1>2 DEF Starts
  <1>5. b1 \in [0..(n - 1) -> Item \cup {ZERO}]
    BY <1>1, <1>4
  <1>6. ListOK(u) /\ Content(u) = Content(l)
    <2>1. /\ n \in Nat /\ n <= n
          /\ Content(l) \in Seq(Item) /\ Len(Content(l)) = n
          /\ Starts(b1, n, Content(l))
      BY <1>2, <1>4 DEF Starts
    <2> QED
      BY <1>3, <1>5, <2>1, Flat
  <1>7. u.capacity = n
    BY <1>3 DEF Buffer
  <1> QED
    BY <1>1, <1>6, <1>7

LEMMA SortHolds ==
    ASSUME NEW l, ListOK(l), NEW ys \in Seq(Item), Len(ys) = l.size
    PROVE  /\ ListOK(Sorted(l, ys)) /\ Content(Sorted(l, ys)) = ys
           /\ Sorted(l, ys).capacity = l.capacity
  <1>1. PICK u, m, n, c, b, b1 :
           /\ u = Sorted(l, ys) /\ m = Synced(l) /\ n = l.size /\ c = l.capacity
           /\ b = m.base
           /\ b1 = [s \in Slots(l) |-> IF s < l.size THEN ys[s + 1] ELSE Synced(l).base[s]]
    OBVIOUS
  <1>2. /\ IsList(l) /\ n \in Nat /\ c \in Nat /\ n <= c
        /\ IsList(m) /\ m.head = 0 /\ m.size = n /\ m.open = 0..(n - 1) /\ m.capacity = c
    BY <1>1, Held, Fields, SyncHolds DEF ListOK
  <1>3. b \in [0..(c - 1) -> Item \cup {ZERO}]
    BY <1>1, <1>2, Fields
  <1>4. u = Buffer(b1, 0, n, c, 0..(n - 1))
    <2>1. u = [m EXCEPT !.base = b1]
      BY Zenon, <1>1 DEF Sorted
    <2>2. [m EXCEPT !.base = b1] = Buffer(b1, m.head, m.size, m.capacity, m.open)
      BY Zenon, <1>2, SetFields
    <2> QED
      BY Zenon, <1>2, <2>1, <2>2
  <1>5. b1 = [s \in 0..(c - 1) |-> IF s < n THEN ys[s + 1] ELSE b[s]]
    BY <1>1 DEF Slots
  <1>6. b1 \in [0..(c - 1) -> Item \cup {ZERO}]
    <2>1. \A s \in 0..(c - 1) : s < n => ys[s + 1] \in Item
      BY <1>1, <1>2
    <2> QED
      BY <1>3, <1>5, <2>1
  <1>7. Starts(b1, n, ys)
    BY <1>2, <1>5 DEF Starts
  <1>8. ListOK(u) /\ Content(u) = ys
    <2>1. c \in Nat /\ n \in Nat /\ n <= c /\ Len(ys) = n
      BY <1>1, <1>2
    <2> QED
      BY <1>4, <1>6, <1>7, <2>1, Flat
  <1>9. u.capacity = c
    BY <1>4 DEF Buffer
  <1> QED
    BY <1>1, <1>8, <1>9

\* A remainder, when the dividend is below twice the divisor.
LEMMA ModIs ==
    ASSUME NEW c \in Nat, c > 0, NEW a \in Nat, a < c + c
    PROVE  a % c = IF a < c THEN a ELSE a - c
  OBVIOUS

LEMMA ReverseHolds ==
    ASSUME NEW l, ListOK(l), NEW xs,
           xs = [i \in 1..Len(Content(l)) |-> Content(l)[(Len(Content(l)) - i) + 1]]
    PROVE  /\ ListOK(Reversed(l)) /\ Content(Reversed(l)) = xs
           /\ Reversed(l).capacity = l.capacity
  <1>1. PICK u, b, h, n, c, o, b1 :
           /\ u = Reversed(l) /\ b = l.base /\ h = l.head /\ n = l.size /\ c = l.capacity
           /\ o = l.open
           /\ b1 = [s \in Slots(l) |->
                      LET i == (s + l.capacity - l.head) % l.capacity
                      IN  IF i < l.size THEN l.base[At(l, l.size - 1 - i)] ELSE l.base[s]]
    OBVIOUS
  <1>2. /\ IsList(l) /\ Content(l) \in Seq(Item) /\ Len(Content(l)) = n
        /\ b \in [0..(c - 1) -> Item \cup {ZERO}] /\ o \subseteq 0..(c - 1)
        /\ c \in Nat /\ h \in Nat /\ n \in Nat /\ n <= c /\ (c > 0 => h < c) /\ (c = 0 => h = 0)
    BY <1>1, Held, Fields
  <1>3. u = Buffer(b1, h, n, c, o)
    BY Zenon, <1>1, <1>2, ReversedFields
  <1>4. u.base = b1 /\ u.head = h /\ u.size = n /\ u.capacity = c /\ u.open = o
    BY <1>3 DEF Buffer
  <1>5. b1 = [s \in 0..(c - 1) |-> IF (s + c - h) % c < n
                                   THEN b[At(l, n - 1 - ((s + c - h) % c))] ELSE b[s]]
    BY <1>1 DEF Slots
  <1>6. b1 \in [0..(c - 1) -> Item \cup {ZERO}]
    <2>1. ASSUME NEW s \in 0..(c - 1), (s + c - h) % c < n
          PROVE  At(l, n - 1 - ((s + c - h) % c)) \in 0..(c - 1)
      <3>1. PICK i : i = (s + c - h) % c
        OBVIOUS
      <3>2. i \in 0..(c - 1) /\ i < n
        BY <1>2, <2>1, <3>1
      <3>3. PICK j : j = n - 1 - i
        OBVIOUS
      <3>4. j \in Nat /\ j <= l.capacity /\ l.capacity > 0
        BY <1>1, <1>2, <3>2, <3>3
      <3>5. At(l, j) \in 0..(l.capacity - 1)
        BY <1>2, <3>4, AtIs
      <3> QED
        BY <1>1, <3>1, <3>3, <3>5
    <2> QED
      BY <1>2, <1>5, <2>1
  <1>7. IsList(u)
    BY <1>2, <1>3, <1>6, Built
  <1>8. xs \in Seq(Item) /\ Len(xs) = n /\ \A i \in 1..n : xs[i] = Content(l)[(n - i) + 1]
    BY <1>2
  <1>9. ASSUME NEW i \in 0..(u.size - 1)
        PROVE  At(u, i) \in u.open /\ u.base[At(u, i)] = xs[i + 1]
    <2>1. PICK s, j : s = At(l, i) /\ j = n - 1 - i
      OBVIOUS
    <2>2. /\ i \in Nat /\ i <= c /\ i \in 0..(n - 1) /\ c > 0
          /\ j \in 0..(n - 1) /\ i + 1 \in 1..n /\ (n - (i + 1)) + 1 = j + 1
      BY <1>2, <1>4, <2>1
    <2>3. At(u, i) = s
      BY <1>1, <1>4, <2>1 DEF At
    <2>4. s = IF h + i < c THEN h + i ELSE h + i - c
      BY <1>1, <1>2, <2>1, <2>2, AtIs
    <2>5. s \in o /\ s \in 0..(c - 1)
      BY <1>1, <2>1, <2>2, Held
    <2>6. (s + c - h) % c = i
      <3>1. PICK a : a = s + c - h
        OBVIOUS
      <3>2. a \in Nat /\ a < c + c /\ (a = i \/ a = i + c) /\ i < c
        BY <1>2, <2>2, <2>4, <3>1
      <3>3. a % c = IF a < c THEN a ELSE a - c
        BY <1>2, <2>2, <3>2, ModIs
      <3>4. a % c = i
        BY <1>2, <2>2, <3>2, <3>3
      <3> QED
        BY <3>1, <3>4
    <2>7. b1[s] = b[At(l, j)]
      <3>1. b1[s] = IF (s + c - h) % c < n THEN b[At(l, n - 1 - ((s + c - h) % c))] ELSE b[s]
        BY <1>5, <2>5
      <3>2. b1[s] = IF i < n THEN b[At(l, n - 1 - i)] ELSE b[s]
        BY <2>6, <3>1
      <3>3. i < n /\ n - 1 - i = j
        BY <1>2, <2>1, <2>2
      <3> QED
        BY <3>2, <3>3
    <2>8. b[At(l, j)] = Content(l)[j + 1]
      BY <1>1, <2>2, Held
    <2>9. xs[i + 1] = Content(l)[j + 1]
      BY <1>8, <2>2
    <2> QED
      BY <1>4, <2>3, <2>5, <2>7, <2>8, <2>9
  <1>10. ListOK(u) /\ Content(u) = xs
    BY <1>4, <1>7, <1>8, <1>9, Holds
  <1> QED
    BY <1>1, <1>4, <1>10

LEMMA RemoveHolds ==
    ASSUME NEW l, ListOK(l), NEW index \in 0..(l.size - 1), NEW xs,
           xs = SubSeq(Content(l), 1, index) \o SubSeq(Content(l), index + 2, Len(Content(l)))
    PROVE  /\ ListOK(Removed(l, index)) /\ Content(Removed(l, index)) = xs
           /\ Removed(l, index).capacity = l.capacity
  <1>1. PICK u, b, h, n, c, o, b1, last, tail :
           /\ u = Removed(l, index) /\ b = l.base /\ h = l.head /\ n = l.size /\ c = l.capacity
           /\ o = l.open /\ last = At(l, l.size - 1)
           /\ tail = {At(l, i) : i \in index..(l.size - 2)}
           /\ b1 = [s \in Slots(l) |-> IF s \in {At(l, i) : i \in index..(l.size - 2)}
                                       THEN l.base[(s + 1) % l.capacity] ELSE l.base[s]]
    OBVIOUS
  <1>2. /\ IsList(l) /\ Content(l) \in Seq(Item) /\ Len(Content(l)) = n
        /\ b \in [0..(c - 1) -> Item \cup {ZERO}] /\ o \subseteq 0..(c - 1)
        /\ c \in Nat /\ h \in Nat /\ n \in Nat /\ n <= c /\ (c > 0 => h < c) /\ (c = 0 => h = 0)
        /\ n > 0 /\ c > 0 /\ index \in 0..(n - 1)
    BY <1>1, Held, Fields
  <1>3. u = Buffer(b1, h, n - 1, c, o \ {last})
    BY Zenon, <1>1, <1>2, RemovedFields
  <1>4. u.base = b1 /\ u.head = h /\ u.size = n - 1 /\ u.capacity = c /\ u.open = o \ {last}
    BY <1>3 DEF Buffer
  <1>5. b1 = [s \in 0..(c - 1) |-> IF s \in tail THEN b[(s + 1) % c] ELSE b[s]]
    BY <1>1 DEF Slots
  <1>6. b1 \in [0..(c - 1) -> Item \cup {ZERO}]
    <2>1. \A s \in 0..(c - 1) : (s + 1) % c \in 0..(c - 1)
      BY <1>2
    <2> QED
      BY <1>2, <1>5, <2>1
  <1>7. IsList(u)
    <2>1. PICK k : k = n - 1
      OBVIOUS
    <2>2. k \in Nat /\ k <= c
      BY <1>2, <2>1
    <2>3. u = Buffer(b1, h, k, c, o \ {last})
      BY <1>3, <2>1
    <2>4. o \ {last} \in SUBSET (0..(c - 1))
      BY <1>2
    <2> QED
      BY <1>2, <1>6, <2>2, <2>3, <2>4, Built
  <1>8. \A i \in 0..(n - 1) : /\ At(l, i) = IF h + i < c THEN h + i ELSE h + i - c
                              /\ At(l, i) \in o /\ At(l, i) \in 0..(c - 1)
                              /\ b[At(l, i)] = Content(l)[i + 1]
    <2> TAKE i \in 0..(n - 1)
    <2>1. i \in Nat /\ i <= c
      BY <1>2
    <2> QED
      BY <1>1, <1>2, <2>1, AtIs, Held
  <1>9. \A i, j \in 0..(n - 1) : At(l, i) = At(l, j) => i = j
    <2> TAKE i, j \in 0..(n - 1)
    <2>1. PICK s, t : s = At(l, i) /\ t = At(l, j)
      OBVIOUS
    <2>2. s = IF h + i < c THEN h + i ELSE h + i - c
      BY <1>8, <2>1
    <2>3. t = IF h + j < c THEN h + j ELSE h + j - c
      BY <1>8, <2>1
    <2>4. s = t => i = j
      BY <1>2, <2>2, <2>3
    <2> QED
      BY <2>1, <2>4
  <1>10. xs \in Seq(Item) /\ Len(xs) = n - 1
    BY <1>2
  <1>11. \A i \in 0..(n - 2) :
            xs[i + 1] = IF i < index THEN Content(l)[i + 1] ELSE Content(l)[i + 2]
    <2> TAKE i \in 0..(n - 2)
    <2>1. PICK cs, before, after :
             /\ cs = Content(l) /\ before = SubSeq(Content(l), 1, index)
             /\ after = SubSeq(Content(l), index + 2, Len(Content(l)))
      OBVIOUS
    <2>2. /\ before \in Seq(Item) /\ Len(before) = index
          /\ after \in Seq(Item) /\ Len(after) = n - 1 - index
      BY <1>2, <2>1
    <2>3. i < index => before[i + 1] = cs[i + 1]
      BY <1>2, <2>1
    <2>4. ~ i < index => after[i + 1 - index] = cs[i + 2]
      <3> SUFFICES ASSUME ~ i < index PROVE after[i + 1 - index] = cs[i + 2]
        OBVIOUS
      <3>1. PICK k : k = i + 1 - index
        OBVIOUS
      <3>2. k \in 1..(n - 1 - index) /\ index + 2 + k - 1 = i + 2
        BY <1>2, <3>1
      <3>3. after[k] = cs[index + 2 + k - 1]
        BY <1>2, <2>1, <2>2, <3>2
      <3> QED
        BY <3>1, <3>2, <3>3
    <2>5. xs[i + 1] = IF i < index THEN before[i + 1] ELSE after[i + 1 - index]
      <3>1. xs = before \o after
        BY <2>1
      <3>2. PICK k : k = i + 1
        OBVIOUS
      <3>3. k \in 1..(Len(before) + Len(after))
        BY <1>2, <2>2, <3>2
      <3>4. \A m \in 1..(Len(before) + Len(after)) :
               (before \o after)[m] = IF m <= Len(before) THEN before[m] ELSE after[m - Len(before)]
        BY Zenon, <2>2, ConcatProperties
      <3>5. (k <= Len(before) <=> i < index) /\ k - Len(before) = i + 1 - index
        BY <1>2, <2>2, <3>2
      <3> QED
        BY <2>2, <3>1, <3>2, <3>3, <3>4, <3>5
    <2> QED
      BY <2>1, <2>3, <2>4, <2>5
  <1>12. ASSUME NEW i \in 0..(u.size - 1)
         PROVE  At(u, i) \in u.open /\ u.base[At(u, i)] = xs[i + 1]
    <2>1. PICK j : j = i + 1
      OBVIOUS
    <2>2. i \in 0..(n - 2) /\ i \in 0..(n - 1) /\ j \in 0..(n - 1) /\ n - 1 \in 0..(n - 1) /\ i # n - 1
      BY <1>2, <1>4, <2>1
    <2>3. At(u, i) = At(l, i)
      BY <1>1, <1>4 DEF At
    <2>4. At(l, i) # last
      BY <1>1, <1>9, <2>2
    <2>5. CASE i < index
      <3>1. At(l, i) \notin tail
        <4>1. ASSUME NEW k \in index..(n - 2) PROVE At(l, i) # At(l, k)
          <5>1. k \in 0..(n - 1) /\ k # i
            BY <1>2, <2>5
          <5> QED
            BY <1>9, <2>2, <5>1
        <4> QED
          BY <1>1, <4>1
      <3>2. b1[At(l, i)] = b[At(l, i)]
        BY <1>5, <1>8, <2>2, <3>1
      <3> QED
        BY <1>4, <1>8, <1>11, <2>2, <2>3, <2>4, <2>5, <3>2
    <2>6. CASE ~ i < index
      <3>1. At(l, i) \in tail
        <4>1. i \in index..(n - 2)
          BY <1>2, <2>2, <2>6
        <4> QED
          BY <1>1, <4>1
      <3>2. (At(l, i) + 1) % c = At(l, j)
        <4>1. At(l, i) = IF h + i < c THEN h + i ELSE h + i - c
          BY <1>8, <2>2
        <4>2. At(l, j) = IF h + j < c THEN h + j ELSE h + j - c
          BY <1>8, <2>2
        <4>3. PICK s, t : s = At(l, i) /\ t = At(l, j)
          OBVIOUS
        <4>4. s = IF h + i < c THEN h + i ELSE h + i - c
          BY <4>1, <4>3
        <4>5. t = IF h + j < c THEN h + j ELSE h + j - c
          BY <4>2, <4>3
        <4>6. (s + 1) % c = t
          <5>1. PICK a : a = s + 1
            OBVIOUS
          <5>2. a \in Nat /\ a < c + c /\ t = IF a < c THEN a ELSE a - c
            BY <1>2, <2>1, <2>2, <4>4, <4>5, <5>1
          <5>3. a % c = IF a < c THEN a ELSE a - c
            BY <1>2, <5>2, ModIs
          <5> QED
            BY <5>1, <5>2, <5>3
        <4> QED
          BY <4>3, <4>6
      <3>3. b1[At(l, i)] = b[At(l, j)]
        <4>1. At(l, i) \in 0..(c - 1)
          BY <1>8, <2>2
        <4> QED
          BY <1>5, <3>1, <3>2, <4>1
      <3>4. xs[i + 1] = Content(l)[j + 1]
        <4>1. xs[i + 1] = Content(l)[i + 2]
          BY <1>11, <2>2, <2>6
        <4>2. i + 2 = j + 1
          BY <1>2, <2>1, <2>2
        <4> QED
          BY <4>1, <4>2
      <3>5. b[At(l, j)] = Content(l)[j + 1] /\ At(l, i) \in o
        BY <1>8, <2>2
      <3> QED
        BY <1>4, <2>3, <2>4, <3>3, <3>4, <3>5
    <2> QED
      BY <2>5, <2>6
  <1>13. ListOK(u) /\ Content(u) = xs
    BY <1>4, <1>7, <1>10, <1>12, Holds
  <1> QED
    BY <1>1, <1>4, <1>13

LEMMA ReserveHolds ==
    ASSUME NEW l, ListOK(l), NEW k \in Nat
    PROVE  /\ ListOK(Reserved(l, k)) /\ Content(Reserved(l, k)) = Content(l)
           /\ Reserved(l, k).capacity = IF l.capacity >= k THEN l.capacity ELSE k
           /\ Reserved(l, k).size = l.size
  <1>1. CASE l.capacity >= k
    BY <1>1 DEF Reserved
  <1>2. CASE ~ l.capacity >= k
    <2>1. PICK b, h, n, c, o, wraps :
             /\ b = l.base /\ h = l.head /\ n = l.size /\ c = l.capacity /\ o = l.open
             /\ wraps = (l.head + l.size > l.capacity)
      OBVIOUS
    <2>2. PICK g : g = IF wraps THEN k - (l.capacity - l.head) ELSE l.head
      OBVIOUS
    <2>3. PICK b1 : b1 = [s \in 0..(k - 1) |->
                            IF wraps /\ s >= g THEN l.base[s - g + l.head]
                            ELSE IF s < l.capacity THEN l.base[s] ELSE ZERO]
      OBVIOUS
    <2>4. PICK o1 : o1 = IF wraps THEN (l.open \cup g..(k - 1))
                                         \ ((l.size - (l.capacity - l.head))..(l.head - 1))
                                 ELSE l.open
      OBVIOUS
    <2>5. PICK u : u = Reserved(l, k)
      OBVIOUS
    <2>6. /\ IsList(l) /\ Content(l) \in Seq(Item) /\ Len(Content(l)) = n
          /\ b \in [0..(c - 1) -> Item \cup {ZERO}] /\ o \subseteq 0..(c - 1)
          /\ c \in Nat /\ h \in Nat /\ n \in Nat /\ n <= c /\ (c > 0 => h < c) /\ (c = 0 => h = 0)
          /\ c < k
      BY <1>2, <2>1, Held, Fields
    <2>7. u = Buffer(b1, g, n, k, o1)
      <3>1. IsList(l)
        BY <2>6
      <3>2. Grew(l, k, wraps, g, b1, o1)
        BY Zenon, <2>1, <2>2, <2>3, <2>4 DEF Grew
      <3>3. Reserved(l, k) = Buffer(b1, g, l.size, k, o1)
        BY <1>2, <3>1, <3>2, ReservedFields
      <3> QED
        BY <2>1, <2>5, <3>3
    <2>8. u.base = b1 /\ u.head = g /\ u.size = n /\ u.capacity = k /\ u.open = o1
      BY <2>7 DEF Buffer
    <2>9. /\ g = IF wraps THEN k - (c - h) ELSE h
          /\ b1 = [s \in 0..(k - 1) |-> IF wraps /\ s >= g THEN b[s - g + h]
                                        ELSE IF s < c THEN b[s] ELSE ZERO]
          /\ o1 = IF wraps THEN (o \cup g..(k - 1)) \ ((n - (c - h))..(h - 1)) ELSE o
          /\ wraps <=> h + n > c
      BY <2>1, <2>2, <2>3, <2>4
    <2>10. g \in Nat /\ g < k /\ h <= g
      BY <2>6, <2>9
    <2>11. b1 \in [0..(k - 1) -> Item \cup {ZERO}]
      <3>1. \A s \in 0..(k - 1) : wraps /\ s >= g => s - g + h \in 0..(c - 1)
        BY <2>6, <2>9
      <3>2. \A s \in 0..(k - 1) : s < c => s \in 0..(c - 1)
        BY <2>6
      <3> QED
        BY <2>6, <2>9, <3>1, <3>2
    <2>12. o1 \in SUBSET (0..(k - 1))
      BY <2>6, <2>9, <2>10
    <2>13. IsList(u)
      <3>1. n <= k /\ (k > 0 => g < k) /\ (k = 0 => g = 0)
        BY <2>6, <2>10
      <3> QED
        BY <2>6, <2>7, <2>10, <2>11, <2>12, <3>1, Built
    <2>14. ASSUME NEW i \in 0..(u.size - 1)
           PROVE  At(u, i) \in u.open /\ u.base[At(u, i)] = Content(l)[i + 1]
      <3>1. i \in 0..(n - 1) /\ i \in Nat /\ i <= c /\ i <= k /\ c > 0 /\ k > 0
        BY <2>6, <2>8
      <3>2. PICK s, t : s = At(l, i) /\ t = At(u, i)
        OBVIOUS
      <3>3. s = IF h + i < c THEN h + i ELSE h + i - c
        BY <2>1, <2>6, <3>1, <3>2, AtIs
      <3>4. t = IF g + i < k THEN g + i ELSE g + i - k
        BY <2>8, <2>13, <3>1, <3>2, AtIs
      <3>5. s \in o /\ s \in 0..(c - 1) /\ b[s] = Content(l)[i + 1]
        BY <2>1, <3>1, <3>2, Held
      <3>6. CASE wraps /\ h + i < c
        <4>1. t = g + i /\ t \in 0..(k - 1) /\ t >= g /\ t - g + h = s
          BY <2>6, <2>9, <2>10, <3>1, <3>3, <3>4, <3>6
        <4>2. b1[t] = b[s]
          BY <2>9, <3>6, <4>1
        <4>3. t \in g..(k - 1) /\ t \notin (n - (c - h))..(h - 1)
          BY <2>6, <2>10, <3>1, <4>1
        <4> QED
          BY <2>8, <2>9, <3>2, <3>5, <3>6, <4>2, <4>3
      <3>7. CASE wraps /\ ~ h + i < c
        <4>1. t = s /\ t \in 0..(k - 1) /\ ~ t >= g /\ t < c
          BY <2>6, <2>9, <2>10, <3>1, <3>3, <3>4, <3>7
        <4>2. b1[t] = b[s]
          BY <2>9, <3>7, <4>1
        <4>3. t \notin (n - (c - h))..(h - 1)
          BY <2>6, <3>1, <3>3, <3>7, <4>1
        <4> QED
          BY <2>8, <2>9, <3>2, <3>5, <3>7, <4>1, <4>2, <4>3
      <3>8. CASE ~ wraps
        <4>1. t = s /\ t \in 0..(k - 1) /\ t < c
          BY <2>6, <2>9, <2>10, <3>1, <3>3, <3>4, <3>8
        <4>2. b1[t] = b[s]
          BY <2>9, <3>8, <4>1
        <4> QED
          BY <2>8, <2>9, <3>2, <3>5, <3>8, <4>1, <4>2
      <3> QED
        BY <3>6, <3>7, <3>8
    <2>15. ListOK(u) /\ Content(u) = Content(l)
      BY <2>6, <2>8, <2>13, <2>14, Holds
    <2> QED
      BY <1>2, <2>1, <2>5, <2>8, <2>15
  <1> QED
    BY <1>1, <1>2

----------------------------------------------------------------------------
(* Ownership                                                               *)

\* Owned, item by item, of any statuses.
Owns(st, xs) ==
    /\ \A i \in 1..Len(xs) : st[xs[i]] = "listed"
    /\ \A x \in Item : st[x] = "listed" => \E i \in 1..Len(xs) : xs[i] = x
    /\ \A i, j \in 1..Len(xs) : xs[i] = xs[j] => i = j

LEMMA OwnedIs ==
    ASSUME NEW xs \in Seq(Item)
    PROVE  Owned(xs) <=> Owns(status, xs)
  <1>1. DOMAIN xs = 1..Len(xs) /\ \A i \in 1..Len(xs) : xs[i] \in Item
    OBVIOUS
  <1>2. ASSUME Owned(xs) PROVE Owns(status, xs)
    <2>1. ASSUME NEW i \in 1..Len(xs) PROVE status[xs[i]] = "listed"
      <3>1. xs[i] \in {xs[k] : k \in DOMAIN xs}
        BY <1>1
      <3> QED
        BY <1>2, <3>1 DEF Owned
    <2>2. ASSUME NEW x \in Item, status[x] = "listed" PROVE \E i \in 1..Len(xs) : xs[i] = x
      <3>1. x \in {y \in Item : status[y] = "listed"}
        BY <2>2
      <3> QED
        BY <1>1, <1>2, <3>1 DEF Owned
    <2>3. \A i, j \in 1..Len(xs) : xs[i] = xs[j] => i = j
      BY <1>1, <1>2 DEF Owned
    <2> QED
      BY <2>1, <2>2, <2>3 DEF Owns
  <1>3. ASSUME Owns(status, xs) PROVE Owned(xs)
    <2>1. {y \in Item : status[y] = "listed"} = {xs[k] : k \in DOMAIN xs}
      BY <1>1, <1>3 DEF Owns
    <2>2. \A i, j \in DOMAIN xs : xs[i] = xs[j] => i = j
      BY <1>1, <1>3 DEF Owns
    <2> QED
      BY <2>1, <2>2 DEF Owned
  <1> QED
    BY <1>2, <1>3

\* ys is xs without its item at position k.
Without(xs, k, ys) ==
    /\ k \in 1..Len(xs)
    /\ ys \in Seq(Item)
    /\ Len(ys) = Len(xs) - 1
    /\ \A i \in 1..Len(ys) : ys[i] = xs[IF i < k THEN i ELSE i + 1]

\* The statuses change from st to nt by that of x alone, to w.
Marked(st, nt, x, w) == \A y \in Item : nt[y] = IF y = x THEN w ELSE st[y]

\* A new item joins at position k: at the end or at the start.
LEMMA OwnJoin ==
    ASSUME NEW xs \in Seq(Item), NEW x \in Item, NEW st, NEW ys \in Seq(Item), NEW k,
           Owns(st, xs), st[x] # "listed", Without(ys, k, xs), ys[k] = x,
           NEW nt, Marked(st, nt, x, "listed")
    PROVE  Owns(nt, ys)
  <1>1. PICK n : /\ n \in Nat /\ n = Len(xs) /\ Len(ys) = n + 1 /\ k \in 1..(n + 1)
                 /\ \A i \in 1..n : xs[i] = ys[IF i < k THEN i ELSE i + 1]
                 /\ \A y \in Item : nt[y] = IF y = x THEN "listed" ELSE st[y]
    BY DEF Without, Marked
  <1>2. \A i \in 1..(n + 1) : i # k => \E j \in 1..n : ys[i] = xs[j] /\ i = IF j < k THEN j ELSE j + 1
    <2> TAKE i \in 1..(n + 1)
    <2>1. CASE i < k
      <3>1. i \in 1..n
        BY <1>1, <2>1
      <3> QED
        BY <1>1, <2>1, <3>1
    <2>2. CASE i > k
      <3>1. i - 1 \in 1..n /\ ~ i - 1 < k /\ i - 1 + 1 = i
        BY <1>1, <2>2
      <3> QED
        BY <1>1, <3>1
    <2> QED
      BY <1>1, <2>1, <2>2
  <1>3. \A j \in 1..n : xs[j] # x /\ xs[j] \in Item /\ st[xs[j]] = "listed"
    BY <1>1 DEF Owns
  <1>4. \A i \in 1..(n + 1) : nt[ys[i]] = "listed"
    BY <1>1, <1>2, <1>3
  <1>5. ASSUME NEW y \in Item, nt[y] = "listed" PROVE \E i \in 1..(n + 1) : ys[i] = y
    <2>1. CASE y = x
      BY <1>1, <2>1
    <2>2. CASE y # x
      <3>1. PICK j \in 1..n : xs[j] = y
        BY <1>1, <1>5, <2>2 DEF Owns
      <3>2. (IF j < k THEN j ELSE j + 1) \in 1..(n + 1)
        BY <1>1
      <3> QED
        BY <1>1, <3>1, <3>2
    <2> QED
      BY <2>1, <2>2
  <1>6. \A p, q \in 1..n : xs[p] = xs[q] => p = q
    BY <1>1 DEF Owns
  <1>7. ASSUME NEW i \in 1..(n + 1), NEW j \in 1..(n + 1), ys[i] = ys[j] PROVE i = j
    <2>1. CASE i = k
      BY <1>2, <1>3, <1>7, <2>1
    <2>2. CASE j = k
      BY <1>2, <1>3, <1>7, <2>2
    <2>3. CASE i # k /\ j # k
      <3>1. PICK p \in 1..n : ys[i] = xs[p] /\ i = IF p < k THEN p ELSE p + 1
        BY <1>2, <2>3
      <3>2. PICK q \in 1..n : ys[j] = xs[q] /\ j = IF q < k THEN q ELSE q + 1
        BY <1>2, <2>3
      <3>3. xs[p] = xs[q]
        BY <1>7, <3>1, <3>2
      <3>4. p = q
        BY <1>6, <3>3
      <3> QED
        BY <3>1, <3>2, <3>4
    <2> QED
      BY <2>1, <2>2, <2>3
  <1> QED
    BY <1>1, <1>4, <1>5, <1>7 DEF Owns

\* The item at position k leaves.
LEMMA OwnLeave ==
    ASSUME NEW xs \in Seq(Item), NEW st, NEW ys, NEW k, Owns(st, xs), Without(xs, k, ys),
           NEW nt, NEW w, w # "listed", Marked(st, nt, xs[k], w)
    PROVE  Owns(nt, ys)
  <1>1. PICK n : /\ n \in Nat /\ n = Len(xs) /\ Len(ys) = n - 1 /\ k \in 1..n
                 /\ \A i \in 1..(n - 1) : ys[i] = xs[IF i < k THEN i ELSE i + 1]
                 /\ \A y \in Item : nt[y] = IF y = xs[k] THEN w ELSE st[y]
    <2>1. PICK n : n = Len(xs)
      OBVIOUS
    <2>2. n \in Nat /\ Len(ys) = n - 1 /\ k \in 1..n
      BY <2>1 DEF Without
    <2>3. \A i \in 1..(n - 1) : ys[i] = xs[IF i < k THEN i ELSE i + 1]
      BY <2>2 DEF Without
    <2>4. \A y \in Item : nt[y] = IF y = xs[k] THEN w ELSE st[y]
      BY DEF Marked
    <2> QED
      BY <2>1, <2>2, <2>3, <2>4
  <1>2. \A i \in 1..(n - 1) : (IF i < k THEN i ELSE i + 1) \in 1..n /\ (IF i < k THEN i ELSE i + 1) # k
    BY <1>1
  <1>3. \A i \in 1..n : xs[i] \in Item /\ st[xs[i]] = "listed" /\ (i # k => xs[i] # xs[k])
    BY <1>1 DEF Owns
  <1>4. \A i \in 1..(n - 1) : nt[ys[i]] = "listed"
    <2> TAKE i \in 1..(n - 1)
    <2>1. PICK j : j = IF i < k THEN i ELSE i + 1
      OBVIOUS
    <2>2. j \in 1..n /\ j # k /\ ys[i] = xs[j]
      BY <1>1, <1>2, <2>1
    <2> QED
      BY <1>1, <1>3, <2>2
  <1>5. ASSUME NEW y \in Item, nt[y] = "listed" PROVE \E i \in 1..(n - 1) : ys[i] = y
    <2>1. y # xs[k] /\ st[y] = "listed"
      BY <1>1, <1>5
    <2>2. PICK j \in 1..n : xs[j] = y
      BY <1>1, <2>1 DEF Owns
    <2>3. j # k
      BY <2>1, <2>2
    <2>4. CASE j < k
      <3>1. j \in 1..(n - 1) /\ ys[j] = xs[j]
        BY <1>1, <2>4
      <3> QED
        BY <2>2, <3>1
    <2>5. CASE j > k
      <3>1. PICK i : i = j - 1
        OBVIOUS
      <3>2. i \in 1..(n - 1) /\ ~ i < k /\ i + 1 = j
        BY <1>1, <2>5, <3>1
      <3>3. ys[i] = xs[j]
        BY <1>1, <3>2
      <3> QED
        BY <2>2, <3>2, <3>3
    <2>6. j \in Nat /\ k \in Nat
      BY <1>1
    <2> QED
      BY <2>3, <2>4, <2>5, <2>6
  <1>6. \A p, q \in 1..n : xs[p] = xs[q] => p = q
    BY <1>1 DEF Owns
  <1>7. ASSUME NEW i \in 1..(n - 1), NEW j \in 1..(n - 1), ys[i] = ys[j] PROVE i = j
    <2>1. PICK p, q : p = (IF i < k THEN i ELSE i + 1) /\ q = (IF j < k THEN j ELSE j + 1)
      OBVIOUS
    <2>2. p \in 1..n /\ q \in 1..n /\ ys[i] = xs[p] /\ ys[j] = xs[q]
      BY <1>1, <1>2, <2>1
    <2>3. xs[p] = xs[q]
      BY <1>7, <2>2
    <2>4. p = q
      BY <1>6, <2>2, <2>3
    <2> QED
      BY <1>1, <2>1, <2>4
  <1> QED
    BY <1>1, <1>4, <1>5, <1>7 DEF Owns

\* One item takes the place of the one at position k.
LEMMA OwnSwap ==
    ASSUME NEW xs \in Seq(Item), NEW x \in Item, NEW st, NEW ys, NEW k \in 1..Len(xs),
           Owns(st, xs), st[x] # "listed", ys = [xs EXCEPT ![k] = x],
           NEW nt, \A y \in Item : nt[y] = IF y = x THEN "listed"
                                           ELSE IF y = xs[k] THEN "destroyed" ELSE st[y]
    PROVE  Owns(nt, ys)
  <1>1. PICK n : /\ n \in Nat /\ n = Len(xs) /\ Len(ys) = n /\ k \in 1..n /\ ys[k] = x
                 /\ \A i \in 1..n : i # k => ys[i] = xs[i]
    OBVIOUS
  <1>2. /\ \A p, q \in 1..n : xs[p] = xs[q] => p = q
        /\ \A i \in 1..n : xs[i] \in Item /\ xs[i] # x /\ st[xs[i]] = "listed"
    BY <1>1 DEF Owns
  <1>3. \A i \in 1..n : nt[ys[i]] = "listed"
    <2> TAKE i \in 1..n
    <2>1. i # k => xs[i] # xs[k]
      BY <1>1, <1>2
    <2> QED
      BY <1>1, <1>2, <2>1
  <1>4. ASSUME NEW y \in Item, nt[y] = "listed" PROVE \E i \in 1..n : ys[i] = y
    <2>1. CASE y = x
      BY <1>1, <2>1
    <2>2. CASE y # x
      <3>1. y # xs[k] /\ st[y] = "listed"
        BY <1>4, <2>2
      <3>2. PICK i \in 1..n : xs[i] = y
        BY <1>1, <3>1 DEF Owns
      <3> QED
        BY <1>1, <3>1, <3>2
    <2> QED
      BY <2>1, <2>2
  <1>5. \A p, q \in 1..n : ys[p] = ys[q] => p = q
    <2> TAKE p, q \in 1..n
    <2>1. p # k /\ q # k => (ys[p] = ys[q] => p = q)
      BY <1>1, <1>2
    <2>2. p = k /\ q # k => ys[p] # ys[q]
      BY <1>1, <1>2
    <2>3. p # k /\ q = k => ys[p] # ys[q]
      BY <1>1, <1>2
    <2> QED
      BY <2>1, <2>2, <2>3
  <1> QED
    BY <1>1, <1>3, <1>4, <1>5 DEF Owns

\* Every item leaves.
LEMMA OwnNone ==
    ASSUME NEW xs \in Seq(Item), NEW st, Owns(st, xs),
           NEW nt, \A y \in Item : IF \E i \in 1..Len(xs) : xs[i] = y
                                   THEN nt[y] # "listed" ELSE nt[y] = st[y]
    PROVE  Owns(nt, <<>>)
  <1>1. \A y \in Item : nt[y] # "listed"
    BY DEF Owns
  <1>2. PICK e : e = <<>>
    OBVIOUS
  <1>3. Len(e) = 0
    BY <1>2
  <1>4. Owns(nt, e)
    BY <1>1, <1>3 DEF Owns
  <1> QED
    BY <1>2, <1>4

LEMMA OwnReversed ==
    ASSUME NEW xs \in Seq(Item), NEW st, Owns(st, xs), NEW ys,
           ys = [i \in 1..Len(xs) |-> xs[(Len(xs) - i) + 1]]
    PROVE  Owns(st, ys)
  <1>1. PICK n : /\ n \in Nat /\ n = Len(xs) /\ Len(ys) = n
                 /\ \A i \in 1..n : ys[i] = xs[(n - i) + 1] /\ (n - i) + 1 \in 1..n
    OBVIOUS
  <1>2. \A p, q \in 1..n : xs[p] = xs[q] => p = q
    BY <1>1 DEF Owns
  <1>3. \A i \in 1..n : st[ys[i]] = "listed"
    BY <1>1 DEF Owns
  <1>4. ASSUME NEW y \in Item, st[y] = "listed" PROVE \E i \in 1..n : ys[i] = y
    <2>1. PICK i \in 1..n : xs[i] = y
      BY <1>1, <1>4 DEF Owns
    <2>2. PICK j : j = (n - i) + 1
      OBVIOUS
    <2>3. j \in 1..n /\ (n - j) + 1 = i
      BY <1>1, <2>2
    <2>4. ys[j] = xs[i]
      BY <1>1, <2>3
    <2> QED
      BY <2>1, <2>3, <2>4
  <1>5. ASSUME NEW p \in 1..n, NEW q \in 1..n, ys[p] = ys[q] PROVE p = q
    <2>1. (n - p) + 1 = (n - q) + 1
      BY <1>1, <1>2, <1>5
    <2> QED
      BY <1>1, <2>1
  <1> QED
    BY <1>1, <1>3, <1>4, <1>5 DEF Owns

\* Sorting keeps which items there are and how often.
LEMMA OwnSorted ==
    ASSUME NEW xs \in Seq(Item), NEW st, Owns(st, xs), NEW ys \in Arrangements(xs)
    PROVE  Owns(st, ys)
  <1>1. PICK n : n \in Nat /\ n = Len(xs) /\ DOMAIN xs = 1..n
    OBVIOUS
  <1>2. /\ ys \in [1..n -> Item] /\ DOMAIN ys = 1..n /\ Len(ys) = n
        /\ \A i \in 1..n : ys[i] \in {xs[j] : j \in 1..n}
        /\ \A x \in Item : Occurrences(ys, x) = Occurrences(xs, x)
    <2>1. ys \in [1..n -> {xs[j] : j \in 1..n}]
      BY <1>1 DEF Arrangements
    <2>2. {xs[j] : j \in 1..n} \subseteq Item
      BY <1>1
    <2>3. \A x \in Item : Occurrences(ys, x) = Occurrences(xs, x)
      BY DEF Arrangements
    <2> QED
      BY <1>1, <2>1, <2>2, <2>3
  <1>3. \A p, q \in 1..n : xs[p] = xs[q] => p = q
    BY <1>1 DEF Owns
  <1>4. ASSUME NEW y \in Item
        PROVE  Cardinality({i \in 1..n : ys[i] = y}) = Cardinality({i \in 1..n : xs[i] = y})
    BY <1>1, <1>2 DEF Occurrences
  <1>5. ASSUME NEW f, NEW y PROVE IsFiniteSet({i \in 1..n : f[i] = y})
    <2>1. IsFiniteSet(1..n) /\ {i \in 1..n : f[i] = y} \subseteq 1..n
      BY <1>1, FS_Interval
    <2> QED
      BY <2>1, FS_Subset
  <1>6. ASSUME NEW j \in 1..n PROVE \E p \in 1..n : {i \in 1..n : ys[i] = xs[j]} = {p}
    <2>1. {i \in 1..n : xs[i] = xs[j]} = {j}
      BY <1>3
    <2>2. Cardinality({j}) = 1
      BY FS_Singleton
    <2>3. PICK S : S = {i \in 1..n : ys[i] = xs[j]}
      OBVIOUS
    <2>4. xs[j] \in Item
      BY <1>1
    <2>5. Cardinality(S) = 1 /\ IsFiniteSet(S) /\ S \subseteq 1..n
      BY <1>4, <1>5, <2>1, <2>2, <2>3, <2>4
    <2>6. PICK p : S = {p}
      BY <2>5, FS_Singleton
    <2> QED
      BY <2>3, <2>5, <2>6
  <1>7. \A i \in 1..n : st[ys[i]] = "listed"
    BY <1>1, <1>2 DEF Owns
  <1>8. ASSUME NEW y \in Item, st[y] = "listed" PROVE \E i \in 1..n : ys[i] = y
    <2>1. PICK j \in 1..n : xs[j] = y
      BY <1>1, <1>8 DEF Owns
    <2>2. PICK p \in 1..n : {i \in 1..n : ys[i] = xs[j]} = {p}
      BY <1>6
    <2> QED
      BY <2>1, <2>2
  <1>9. ASSUME NEW p \in 1..n, NEW q \in 1..n, ys[p] = ys[q] PROVE p = q
    <2>1. PICK j \in 1..n : ys[p] = xs[j]
      BY <1>2
    <2>2. PICK r \in 1..n : {i \in 1..n : ys[i] = xs[j]} = {r}
      BY <1>6
    <2>3. p \in {i \in 1..n : ys[i] = xs[j]} /\ q \in {i \in 1..n : ys[i] = xs[j]}
      BY <1>9, <2>1
    <2> QED
      BY <2>2, <2>3
  <1> QED
    BY <1>1, <1>2, <1>7, <1>8, <1>9 DEF Owns

----------------------------------------------------------------------------
(* The actions                                                             *)

Status == {"caller", "listed", "destroyed"}

\* What every action leaves.
Kept ==
    /\ ListOK(list')
    /\ list'.capacity <= MaxCapacity
    /\ dtor' = dtor
    /\ status' \in [Item -> Status]
    /\ dtor /\ ~RotatedRemove => Owns(status', Content(list'))

LEMMA Now ==
    ASSUME IndInv
    PROVE  /\ ListOK(list) /\ IsList(list) /\ list.capacity <= MaxCapacity
           /\ dtor \in BOOLEAN /\ status \in [Item -> Status]
           /\ Content(list) \in Seq(Item) /\ Len(Content(list)) = list.size
           /\ list.size \in Nat /\ list.capacity \in Nat /\ list.size <= list.capacity
           /\ dtor /\ ~RotatedRemove => Owns(status, Content(list))
  <1>1. /\ ListOK(list) /\ IsList(list) /\ list.capacity <= MaxCapacity
        /\ dtor \in BOOLEAN /\ status \in [Item -> Status]
    BY DEF IndInv, TypeOK, Status
  <1>2. Content(list) \in Seq(Item) /\ Len(Content(list)) = list.size
    BY <1>1, Held
  <1>3. list.size \in Nat /\ list.capacity \in Nat /\ list.size <= list.capacity
    BY <1>1, Fields
  <1>4. dtor /\ ~RotatedRemove => Owns(status, Content(list))
    BY <1>2, OwnedIs DEF IndInv
  <1> QED
    BY <1>1, <1>2, <1>3, <1>4

\* What becomes of the statuses.
LEMMA MovedIs ==
    ASSUME status \in [Item -> Status], NEW xs, NEW where \in Status
    PROVE  /\ Moved(xs, where) \in [Item -> Status]
           /\ dtor => \A y \in Item : Moved(xs, where)[y] = IF y \in xs THEN where ELSE status[y]
           /\ ~ dtor => Moved(xs, where) = status
  <1>1. CASE dtor
    BY <1>1 DEF Moved
  <1>2. CASE ~ dtor
    BY <1>2 DEF Moved
  <1> QED
    BY <1>1, <1>2

\* An insertion finds or makes a free slot.
LEMMA Room ==
    ASSUME IndInv, NEW c, \/ c \in Expansions(list, {Doubled(list)})
                          \/ c \in Expansions(list, {Doubled(list), list.capacity + 1})
    PROVE  LET l == Reserved(list, c)
           IN  /\ ListOK(l) /\ Content(l) = Content(list)
               /\ l.size < l.capacity /\ l.capacity <= MaxCapacity
  <1>1. /\ ListOK(list) /\ list.capacity <= MaxCapacity
        /\ list.size \in Nat /\ list.capacity \in Nat /\ list.size <= list.capacity
    BY Now
  <1>2. MaxCapacity \in Nat
    BY ListConstants
  <1>3. c \in Nat /\ c <= MaxCapacity /\ c > list.size /\ c >= list.capacity
    <2>1. CASE list.size < list.capacity
      BY <1>1, <2>1 DEF Expansions
    <2>2. CASE ~ list.size < list.capacity
      <3>1. c \in {Doubled(list), list.capacity + 1} \cap 1..MaxCapacity
        BY <2>2 DEF Expansions
      <3>2. Doubled(list) > list.capacity
        BY <1>1 DEF Doubled
      <3> QED
        BY <1>1, <1>2, <3>1, <3>2
    <2> QED
      BY <2>1, <2>2
  <1>4. PICK l : l = Reserved(list, c)
    OBVIOUS
  <1>5. /\ ListOK(l) /\ Content(l) = Content(list) /\ l.size = list.size
        /\ l.capacity = IF list.capacity >= c THEN list.capacity ELSE c
    BY <1>1, <1>3, <1>4, ReserveHolds
  <1>6. l.size < l.capacity /\ l.capacity <= MaxCapacity
    BY <1>1, <1>3, <1>5
  <1> QED
    BY <1>4, <1>5, <1>6

LEMMA AppendStep ==
    ASSUME IndInv, NEW x \in Item, LIST_APPEND(x) \/ LIST_TRY_APPEND(x)
    PROVE  Kept /\ Content(list') = Append(Content(list), x)
  <1>1. /\ Offered(x) /\ status' = Moved({x}, "listed") /\ dtor' = dtor
        /\ \/ \E c \in Expansions(list, {Doubled(list)}) : list' = Appended(Reserved(list, c), x)
           \/ \E c \in Expansions(list, {Doubled(list), list.capacity + 1}) :
                 list' = Appended(Reserved(list, c), x)
    BY DEF LIST_APPEND, LIST_TRY_APPEND
  <1>2. PICK c : /\ \/ c \in Expansions(list, {Doubled(list)})
                    \/ c \in Expansions(list, {Doubled(list), list.capacity + 1})
                 /\ list' = Appended(Reserved(list, c), x)
    BY <1>1
  <1>3. PICK l : l = Reserved(list, c)
    OBVIOUS
  <1>4. ListOK(l) /\ Content(l) = Content(list) /\ l.size < l.capacity /\ l.capacity <= MaxCapacity
    BY <1>2, <1>3, Room
  <1>5. list' = Appended(l, x)
    BY <1>2, <1>3
  <1>6. /\ ListOK(list') /\ Content(list') = Append(Content(list), x)
        /\ list'.capacity <= MaxCapacity
    BY <1>4, <1>5, AppendHolds
  <1>7. status' \in [Item -> Status]
    BY <1>1, Now, MovedIs DEF Status
  <1>8. ASSUME dtor, ~RotatedRemove PROVE Owns(status', Content(list'))
    <2>1. PICK xs, ys, n : xs = Content(list) /\ ys = Append(Content(list), x) /\ n = Len(xs) + 1
      OBVIOUS
    <2>2. xs \in Seq(Item) /\ Owns(status, xs) /\ n \in Nat
      BY <1>8, <2>1, Now
    <2>3. ys \in Seq(Item) /\ ys[n] = x /\ Without(ys, n, xs)
      BY <2>1, <2>2 DEF Without
    <2>4. status[x] # "listed"
      BY <1>1, <1>8 DEF Offered
    <2>5. Marked(status, status', x, "listed")
      BY <1>1, <1>8, Now, MovedIs DEF Status, Marked
    <2>6. Owns(status', ys)
      BY <2>2, <2>3, <2>4, <2>5, OwnJoin
    <2> QED
      BY <1>6, <2>1, <2>6
  <1> QED
    BY <1>1, <1>6, <1>7, <1>8 DEF Kept

LEMMA PrependStep ==
    ASSUME IndInv, NEW x \in Item, LIST_PREPEND(x)
    PROVE  Kept /\ Content(list') = <<x>> \o Content(list)
  <1>1. /\ Offered(x) /\ status' = Moved({x}, "listed") /\ dtor' = dtor
        /\ \E c \in Expansions(list, {Doubled(list)}) : list' = Prepended(Reserved(list, c), x)
    BY DEF LIST_PREPEND
  <1>2. PICK c \in Expansions(list, {Doubled(list)}) : list' = Prepended(Reserved(list, c), x)
    BY <1>1
  <1>3. PICK l : l = Reserved(list, c)
    OBVIOUS
  <1>4. ListOK(l) /\ Content(l) = Content(list) /\ l.size < l.capacity /\ l.capacity <= MaxCapacity
    BY <1>2, <1>3, Room
  <1>5. list' = Prepended(l, x)
    BY <1>2, <1>3
  <1>6. /\ ListOK(list') /\ Content(list') = <<x>> \o Content(list)
        /\ list'.capacity <= MaxCapacity
    BY <1>4, <1>5, PrependHolds
  <1>7. status' \in [Item -> Status]
    BY <1>1, Now, MovedIs DEF Status
  <1>8. ASSUME dtor, ~RotatedRemove PROVE Owns(status', Content(list'))
    <2>1. PICK xs, ys, k : xs = Content(list) /\ ys = <<x>> \o Content(list) /\ k = 1
      OBVIOUS
    <2>2. xs \in Seq(Item) /\ Owns(status, xs)
      BY <1>8, <2>1, Now
    <2>3. ys \in Seq(Item) /\ ys[k] = x /\ Without(ys, k, xs)
      BY <2>1, <2>2 DEF Without
    <2>4. status[x] # "listed"
      BY <1>1, <1>8 DEF Offered
    <2>5. Marked(status, status', x, "listed")
      BY <1>1, <1>8, Now, MovedIs DEF Status, Marked
    <2>6. Owns(status', ys)
      BY <2>2, <2>3, <2>4, <2>5, OwnJoin
    <2> QED
      BY <1>6, <2>1, <2>6
  <1> QED
    BY <1>1, <1>6, <1>7, <1>8 DEF Kept

LEMMA RemoveStep ==
    ASSUME IndInv, NEW x \in Item, LIST_REMOVE(x)
    PROVE  /\ Kept
           /\ \E i \in 1..Len(Content(list)) :
                 /\ Content(list)[i] = x
                 /\ \A j \in 1..(i - 1) : Content(list)[j] # x
                 /\ Content(list') = SubSeq(Content(list), 1, i - 1)
                                        \o SubSeq(Content(list), i + 1, Len(Content(list)))
  <1>1. PICK found \in 0..(list.size - 1) :
           /\ list.base[At(list, found)] = x
           /\ \A i \in 0..(found - 1) : list.base[At(list, i)] # x
           /\ status' = Destroyed({found})
           /\ list' = Removed(list, found)
    BY DEF LIST_REMOVE
  <1>2. dtor' = dtor /\ (dtor /\ list.head # 0 => RotatedRemove)
    BY DEF LIST_REMOVE
  <1>3. PICK xs, n : xs = Content(list) /\ n = list.size
    OBVIOUS
  <1>4. /\ xs \in Seq(Item) /\ Len(xs) = n /\ n \in Nat /\ ListOK(list) /\ IsList(list)
        /\ list.capacity \in Nat /\ n <= list.capacity /\ found \in 0..(n - 1)
    BY <1>1, <1>3, Now
  <1>5. \A i \in 0..(n - 1) : list.base[At(list, i)] = xs[i + 1]
    BY <1>3, <1>4, Held
  <1>6. PICK k : k = found + 1
    OBVIOUS
  <1>7. /\ k \in 1..n /\ k \in Nat /\ xs[k] = x
        /\ \A j \in 1..(k - 1) : xs[j] # x
    <2>1. k \in 1..n /\ k \in Nat /\ xs[k] = x
      BY <1>1, <1>4, <1>5, <1>6
    <2>2. ASSUME NEW j \in 1..(k - 1) PROVE xs[j] # x
      <3>1. PICK i : i = j - 1
        OBVIOUS
      <3>2. i \in 0..(found - 1) /\ i \in 0..(n - 1) /\ i + 1 = j
        BY <1>4, <1>6, <3>1
      <3> QED
        BY <1>1, <1>5, <3>2
    <2> QED
      BY <2>1, <2>2
  <1>8. PICK ys : ys = SubSeq(xs, 1, found) \o SubSeq(xs, found + 2, Len(xs))
    OBVIOUS
  <1>9. ListOK(list') /\ Content(list') = ys /\ list'.capacity = list.capacity
    BY <1>1, <1>3, <1>4, <1>8, RemoveHolds
  <1>10. found = k - 1 /\ found + 2 = k + 1
    BY <1>4, <1>6
  <1>11. status' \in [Item -> Status]
    BY <1>1, Now, MovedIs DEF Destroyed, Status
  <1>12. ASSUME dtor, ~RotatedRemove PROVE Owns(status', ys)
    <2>1. At(list, found) = found
      <3>1. list.head = 0 /\ found \in Nat /\ found <= list.capacity /\ list.capacity > 0
            /\ found < list.capacity
        BY <1>2, <1>4, <1>12
      <3>2. At(list, found) = IF list.head + found < list.capacity THEN list.head + found
                              ELSE list.head + found - list.capacity
        BY <1>4, <3>1, AtIs
      <3> QED
        BY <3>1, <3>2
    <2>2. {list.base[s] : s \in {found}} = {x}
      BY <1>1, <2>1
    <2>3. status' = Moved({x}, "destroyed")
      BY <1>1, <2>2 DEF Destroyed
    <2>4. Marked(status, status', xs[k], "destroyed")
      BY <1>7, <1>12, <2>3, Now, MovedIs DEF Status, Marked
    <2>5. Owns(status, xs)
      BY <1>3, <1>12, Now
    <2>6. Without(xs, k, ys)
      <3>1. PICK before, after : before = SubSeq(xs, 1, found) /\ after = SubSeq(xs, found + 2, Len(xs))
        OBVIOUS
      <3>2. /\ before \in Seq(Item) /\ Len(before) = found
            /\ after \in Seq(Item) /\ Len(after) = n - k
            /\ \A i \in 1..found : before[i] = xs[i]
        BY <1>4, <1>6, <3>1
      <3>3. \A i \in 1..(n - k) : after[i] = xs[found + 2 + i - 1]
        BY <1>4, <1>6, <3>1
      <3>4. /\ before \o after \in Seq(Item)
            /\ Len(before \o after) = Len(before) + Len(after)
            /\ \A m \in 1..(Len(before) + Len(after)) :
                  (before \o after)[m] = IF m <= Len(before) THEN before[m] ELSE after[m - Len(before)]
        BY Zenon, <3>2, ConcatProperties
      <3>5. ys = before \o after
        BY <1>8, <3>1
      <3>6. ys \in Seq(Item) /\ Len(ys) = n - 1
        BY <1>4, <1>6, <3>2, <3>4, <3>5
      <3>7. ASSUME NEW m \in 1..(n - 1) PROVE ys[m] = xs[IF m < k THEN m ELSE m + 1]
        <4>1. m \in 1..(Len(before) + Len(after))
          BY <1>4, <1>6, <3>2
        <4>2. ys[m] = IF m <= Len(before) THEN before[m] ELSE after[m - Len(before)]
          BY <3>4, <3>5, <4>1
        <4>3. CASE m < k
          <5>1. m <= Len(before) /\ m \in 1..found
            BY <1>4, <1>6, <3>2, <4>3
          <5> QED
            BY <3>2, <4>2, <4>3, <5>1
        <4>4. CASE ~ m < k
          <5>1. PICK q : q = m - Len(before)
            OBVIOUS
          <5>2. ~ m <= Len(before) /\ q \in 1..(n - k) /\ found + 2 + q - 1 = m + 1
            BY <1>4, <1>6, <3>2, <4>4, <5>1
          <5> QED
            BY <3>3, <4>2, <4>4, <5>1, <5>2
        <4> QED
          BY <4>3, <4>4
      <3> QED
        BY <1>4, <1>7, <3>6, <3>7 DEF Without
    <2> QED
      BY <1>4, <2>4, <2>5, <2>6, OwnLeave
  <1>13. Kept
    BY <1>2, <1>9, <1>11, <1>12, Now DEF Kept
  <1> QED
    BY <1>3, <1>4, <1>7, <1>8, <1>9, <1>10, <1>13

LEMMA SetStep ==
    ASSUME IndInv, NEW x \in Item, LIST_SET(x)
    PROVE  /\ Kept
           /\ \E i \in 1..Len(Content(list)) : Content(list') = [Content(list) EXCEPT ![i] = x]
  <1>1. PICK index \in 0..(list.size - 1) :
           /\ list' = [list EXCEPT !.base[At(list, index)] = x]
           /\ status' = IF dtor THEN [status EXCEPT ![list.base[At(list, index)]] = "destroyed",
                                                     ![x] = "listed"]
                                ELSE status
    BY DEF LIST_SET
  <1>2. dtor' = dtor /\ Offered(x)
    BY DEF LIST_SET
  <1>3. PICK xs, k, slot : xs = Content(list) /\ k = index + 1 /\ slot = At(list, index)
    OBVIOUS
  <1>4. /\ xs \in Seq(Item) /\ k \in 1..Len(xs) /\ ListOK(list)
        /\ list.base[slot] = xs[k] /\ xs[k] \in Item
    BY <1>3, Now, Held
  <1>5. /\ ListOK(list') /\ Content(list') = [xs EXCEPT ![k] = x]
        /\ list'.capacity = list.capacity
    <2>1. list' = [list EXCEPT !.base[slot] = x]
      BY Zenon, <1>1, <1>3
    <2>2. PICK u : u = [list EXCEPT !.base[slot] = x]
      OBVIOUS
    <2>3. /\ ListOK(u) /\ Content(u) = [Content(list) EXCEPT ![index + 1] = x]
          /\ u.capacity = list.capacity
      BY <1>1, <1>3, <1>4, <2>2, SetHolds
    <2> QED
      BY Zenon, <1>3, <2>1, <2>2, <2>3
  <1>6. status' = IF dtor THEN [status EXCEPT ![xs[k]] = "destroyed", ![x] = "listed"] ELSE status
    BY Zenon, <1>1, <1>3, <1>4
  <1>7. status' \in [Item -> Status]
    BY <1>4, <1>6, Now DEF Status
  <1>8. ASSUME dtor, ~RotatedRemove PROVE Owns(status', [xs EXCEPT ![k] = x])
    <2>1. Owns(status, xs) /\ status[x] # "listed"
      BY <1>2, <1>3, <1>8, Now DEF Offered
    <2>2. \A y \in Item : status'[y] = IF y = x THEN "listed"
                                       ELSE IF y = xs[k] THEN "destroyed" ELSE status[y]
      BY <1>4, <1>6, <1>8, Now
    <2> QED
      BY <1>4, <2>1, <2>2, OwnSwap
  <1>9. Kept
    BY <1>2, <1>5, <1>7, <1>8, Now DEF Kept
  <1> QED
    BY <1>3, <1>4, <1>5, <1>9

LEMMA ClearStep ==
    ASSUME IndInv, LIST_CLEAR \/ LIST_FREE \/ LIST_DETACH
    PROVE  Kept /\ Content(list') = <<>>
  <1>1. /\ list' = Cleared(list) \/ list' = ZeroList
        /\ dtor' = dtor
        /\ \/ status' = Moved({list.base[s] : s \in Live(list)}, "destroyed")
           \/ status' = Moved({list.base[s] : s \in Live(list)}, "caller")
    BY DEF LIST_CLEAR, LIST_FREE, LIST_DETACH, Destroyed
  <1>2. ListOK(list') /\ Content(list') = <<>> /\ list'.capacity <= MaxCapacity
    <2>1. CASE list' = Cleared(list)
      BY <2>1, Now, ClearHolds
    <2>2. CASE list' = ZeroList
      BY <2>2, ZeroHolds, ListConstants
    <2> QED
      BY <1>1, <2>1, <2>2
  <1>3. status' \in [Item -> Status]
    BY <1>1, Now, MovedIs DEF Status
  <1>4. ASSUME dtor, ~RotatedRemove PROVE Owns(status', <<>>)
    <2>1. PICK xs : xs = Content(list)
      OBVIOUS
    <2>2. xs \in Seq(Item) /\ Owns(status, xs) /\ DOMAIN xs = 1..Len(xs)
      BY <1>4, <2>1, Now
    <2>3. {list.base[s] : s \in Live(list)} = {xs[i] : i \in 1..Len(xs)}
      <3>1. {list.base[s] : s \in Live(list)} = {Content(list)[i] : i \in DOMAIN Content(list)}
        BY Now, Held
      <3> QED
        BY <2>1, <2>2, <3>1
    <2>4. ASSUME NEW y \in Item
          PROVE  IF \E i \in 1..Len(xs) : xs[i] = y
                 THEN status'[y] # "listed" ELSE status'[y] = status[y]
      <3>1. y \in {list.base[s] : s \in Live(list)} <=> \E i \in 1..Len(xs) : xs[i] = y
        BY <2>3
      <3>2. CASE status' = Moved({list.base[s] : s \in Live(list)}, "destroyed")
        BY <1>4, <3>1, <3>2, Now, MovedIs DEF Status
      <3>3. CASE status' = Moved({list.base[s] : s \in Live(list)}, "caller")
        BY <1>4, <3>1, <3>3, Now, MovedIs DEF Status
      <3> QED
        BY <1>1, <3>2, <3>3
    <2> QED
      BY <2>2, <2>4, OwnNone
  <1> QED
    BY <1>1, <1>2, <1>3, <1>4 DEF Kept

LEMMA PopFrontStep ==
    ASSUME IndInv, LIST_POP_FRONT
    PROVE  Kept /\ Content(list) # <<>> /\ Content(list') = Tail(Content(list))
  <1>1. /\ list.size > 0 /\ list' = PoppedFront(list) /\ dtor' = dtor
        /\ status' = Moved({list.base[list.head]}, "caller")
    BY DEF LIST_POP_FRONT
  <1>2. PICK xs, ys, k : xs = Content(list) /\ ys = Tail(Content(list)) /\ k = 1
    OBVIOUS
  <1>3. /\ xs \in Seq(Item) /\ Len(xs) = list.size /\ k \in 1..Len(xs) /\ list.size \in Nat
        /\ ListOK(list) /\ xs # <<>>
    BY <1>1, <1>2, Now
  <1>4. ListOK(list') /\ Content(list') = ys /\ list'.capacity = list.capacity
    BY <1>1, <1>2, <1>3, PopFrontHolds
  <1>5. list.base[list.head] = xs[k]
    <2>1. PICK z : z = 0
      OBVIOUS
    <2>2. /\ IsList(list) /\ list.capacity > 0 /\ list.head \in Nat /\ list.head < list.capacity
          /\ list.capacity \in Nat /\ z \in Nat /\ z <= list.capacity
      BY <1>1, <1>3, <2>1, Fields DEF ListOK
    <2>3. At(list, z) = IF list.head + z < list.capacity THEN list.head + z
                        ELSE list.head + z - list.capacity
      BY <2>2, AtIs
    <2>4. At(list, z) = list.head
      BY <2>1, <2>2, <2>3
    <2>5. z \in 0..(list.size - 1) /\ z + 1 = k
      BY <1>1, <1>2, <1>3, <2>1
    <2>6. list.base[At(list, z)] = Content(list)[z + 1]
      BY <1>3, <2>5, Held
    <2> QED
      BY <1>2, <2>4, <2>5, <2>6
  <1>6. status' \in [Item -> Status]
    BY <1>1, Now, MovedIs DEF Status
  <1>7. ASSUME dtor, ~RotatedRemove PROVE Owns(status', ys)
    <2>1. Owns(status, xs)
      BY <1>2, <1>7, Now
    <2>2. Marked(status, status', xs[k], "caller")
      BY <1>1, <1>5, <1>7, Now, MovedIs DEF Status, Marked
    <2>3. Without(xs, k, ys)
      BY <1>2, <1>3 DEF Without
    <2> QED
      BY <1>3, <2>1, <2>2, <2>3, OwnLeave
  <1>8. Kept
    BY <1>1, <1>4, <1>6, <1>7, Now DEF Kept
  <1> QED
    BY <1>2, <1>3, <1>4, <1>8

LEMMA PopBackStep ==
    ASSUME IndInv, LIST_POP_BACK \/ LIST_DROP_BACK
    PROVE  /\ Kept /\ Content(list) # <<>>
           /\ Content(list') = SubSeq(Content(list), 1, Len(Content(list)) - 1)
  <1>1. /\ list.size > 0 /\ list' = PoppedBack(list) /\ dtor' = dtor
        /\ \/ status' = Moved({list.base[At(list, list.size - 1)]}, "caller")
           \/ status' = Moved({list.base[At(list, list.size - 1)]}, "destroyed")
    <2>1. ASSUME LIST_POP_BACK PROVE <1>1!:
      BY <2>1 DEF LIST_POP_BACK
    <2>2. ASSUME LIST_DROP_BACK PROVE <1>1!:
      <3>1. {list.base[s] : s \in {At(list, list.size - 1)}} = {list.base[At(list, list.size - 1)]}
        OBVIOUS
      <3> QED
        BY <2>2, <3>1 DEF LIST_DROP_BACK, Destroyed
    <2> QED
      BY <2>1, <2>2
  <1>2. PICK xs, ys, k : /\ xs = Content(list) /\ k = list.size
                         /\ ys = SubSeq(Content(list), 1, Len(Content(list)) - 1)
    OBVIOUS
  <1>3. /\ xs \in Seq(Item) /\ Len(xs) = list.size /\ k \in 1..Len(xs) /\ list.size \in Nat
        /\ ListOK(list) /\ xs # <<>>
    BY <1>1, <1>2, Now
  <1>4. ListOK(list') /\ Content(list') = ys /\ list'.capacity = list.capacity
    BY <1>1, <1>2, <1>3, PopBackHolds
  <1>5. list.base[At(list, list.size - 1)] = xs[k]
    <2>1. PICK i : i = list.size - 1
      OBVIOUS
    <2>2. i \in 0..(list.size - 1) /\ i + 1 = k
      BY <1>1, <1>2, <1>3, <2>1
    <2>3. list.base[At(list, i)] = Content(list)[i + 1]
      BY <1>3, <2>2, Held
    <2> QED
      BY <1>2, <2>1, <2>2, <2>3
  <1>6. status' \in [Item -> Status]
    BY <1>1, Now, MovedIs DEF Status
  <1>7. ASSUME dtor, ~RotatedRemove PROVE Owns(status', ys)
    <2>1. Owns(status, xs)
      BY <1>2, <1>7, Now
    <2>2. \E w \in {"caller", "destroyed"} : Marked(status, status', xs[k], w)
      <3>1. CASE status' = Moved({list.base[At(list, list.size - 1)]}, "caller")
        BY <1>5, <1>7, <3>1, Now, MovedIs DEF Status, Marked
      <3>2. CASE status' = Moved({list.base[At(list, list.size - 1)]}, "destroyed")
        BY <1>5, <1>7, <3>2, Now, MovedIs DEF Status, Marked
      <3> QED
        BY <1>1, <3>1, <3>2
    <2>3. Without(xs, k, ys)
      BY <1>2, <1>3 DEF Without
    <2>4. PICK w : w # "listed" /\ Marked(status, status', xs[k], w)
      BY <2>2
    <2> QED
      BY <1>3, <2>1, <2>3, <2>4, OwnLeave
  <1>8. Kept
    BY <1>1, <1>4, <1>6, <1>7, Now DEF Kept
  <1> QED
    BY <1>2, <1>3, <1>4, <1>8

\* The operations that keep the sequence.
Tidied == \/ \E c \in 1..MaxCapacity : LIST_RESERVE(c)
          \/ LIST_SYNC \/ LIST_SHRINK_TO_FIT \/ LIST_COPY

LEMMA TidyStep ==
    ASSUME IndInv, Tidied
    PROVE  Kept /\ Content(list') = Content(list)
  <1>1. dtor' = dtor /\ status' = status
    BY DEF Tidied, LIST_RESERVE, LIST_SYNC, LIST_SHRINK_TO_FIT, LIST_COPY, Rearranged
  <1>2. ListOK(list) /\ list.capacity <= MaxCapacity /\ list.size \in Nat /\ list.capacity \in Nat
        /\ list.size <= list.capacity /\ MaxCapacity \in Nat
    BY Now, ListConstants
  <1>3. ListOK(list') /\ Content(list') = Content(list) /\ list'.capacity <= MaxCapacity
    <2>1. ASSUME NEW c \in 1..MaxCapacity, LIST_RESERVE(c) PROVE <1>3!:
      <3>1. list' = Reserved(list, c) /\ c \in Nat /\ c <= MaxCapacity
        BY <1>2, <2>1 DEF LIST_RESERVE, Rearranged
      <3> QED
        BY <1>2, <3>1, ReserveHolds
    <2>2. ASSUME LIST_SYNC PROVE <1>3!:
      BY <1>2, <2>2, SyncHolds DEF LIST_SYNC, Rearranged
    <2>3. ASSUME LIST_SHRINK_TO_FIT PROVE <1>3!:
      <3>1. list' = Shrunk(list)
        BY <2>3 DEF LIST_SHRINK_TO_FIT, Rearranged
      <3> QED
        BY <1>2, <3>1, ShrinkHolds
    <2>4. ASSUME LIST_COPY PROVE <1>3!:
      BY <1>2, <2>4, CopyHolds DEF LIST_COPY, Rearranged
    <2> QED
      BY <2>1, <2>2, <2>3, <2>4 DEF Tidied
  <1> QED
    BY <1>1, <1>3, Now DEF Kept

LEMMA ReverseStep ==
    ASSUME IndInv, LIST_REVERSE
    PROVE  /\ Kept
           /\ Content(list') = [i \in 1..Len(Content(list)) |->
                                   Content(list)[(Len(Content(list)) - i) + 1]]
  <1>1. list' = Reversed(list) /\ dtor' = dtor /\ status' = status
    BY DEF LIST_REVERSE, Rearranged
  <1>2. PICK xs, ys : xs = Content(list) /\ ys = [i \in 1..Len(xs) |-> xs[(Len(xs) - i) + 1]]
    OBVIOUS
  <1>3. ys = [i \in 1..Len(Content(list)) |-> Content(list)[(Len(Content(list)) - i) + 1]]
    BY <1>2
  <1>4. ListOK(list') /\ Content(list') = ys /\ list'.capacity = list.capacity
    BY <1>1, <1>3, Now, ReverseHolds
  <1>5. ASSUME dtor, ~RotatedRemove PROVE Owns(status', ys)
    <2>1. xs \in Seq(Item) /\ Owns(status, xs)
      BY <1>2, <1>5, Now
    <2>2. Owns(status, ys)
      BY <1>2, <2>1, OwnReversed
    <2> QED
      BY <1>1, <2>2
  <1>6. Kept
    BY <1>1, <1>4, <1>5, Now DEF Kept
  <1> QED
    BY <1>3, <1>4, <1>6

LEMMA SortStep ==
    ASSUME IndInv, LIST_SORT
    PROVE  Kept /\ \E ys \in Arrangements(Content(list)) : Content(list') = ys
  <1>1. PICK ys \in Arrangements(Content(list)) :
           list' = Sorted(list, ys) /\ dtor' = dtor /\ status' = status
    BY DEF LIST_SORT, Rearranged
  <1>2. PICK xs : xs = Content(list)
    OBVIOUS
  <1>3. xs \in Seq(Item) /\ Len(xs) = list.size /\ list.size \in Nat /\ ListOK(list)
    BY <1>2, Now
  <1>4. ys \in Seq(Item) /\ Len(ys) = list.size
    <2>1. ys \in [DOMAIN xs -> {xs[i] : i \in DOMAIN xs}]
      BY <1>1, <1>2 DEF Arrangements
    <2>2. DOMAIN xs = 1..list.size /\ {xs[i] : i \in DOMAIN xs} \subseteq Item
      BY <1>3
    <2>3. ys \in [1..list.size -> Item]
      BY <2>1, <2>2
    <2> QED
      BY <1>3, <2>3
  <1>5. ListOK(list') /\ Content(list') = ys /\ list'.capacity = list.capacity
    BY <1>1, <1>3, <1>4, SortHolds
  <1>6. ASSUME dtor, ~RotatedRemove PROVE Owns(status', ys)
    <2>1. Owns(status, xs) /\ ys \in Arrangements(xs)
      BY <1>1, <1>2, <1>6, Now
    <2>2. Owns(status, ys)
      BY <1>3, <2>1, OwnSorted
    <2> QED
      BY <1>1, <2>2
  <1>7. Kept
    BY <1>1, <1>5, <1>6, Now DEF Kept
  <1> QED
    BY <1>1, <1>5, <1>7

----------------------------------------------------------------------------
(* The theorems                                                            *)

\* Whichever action runs.
LEMMA EveryStep ==
    ASSUME IndInv, Next
    PROVE  Kept
  <1>1. ASSUME NEW x \in Item,
               LIST_APPEND(x) \/ LIST_TRY_APPEND(x) \/ LIST_PREPEND(x) \/ LIST_REMOVE(x) \/ LIST_SET(x)
        PROVE  Kept
    BY Zenon, <1>1, AppendStep, PrependStep, RemoveStep, SetStep
  <1>2. ASSUME LIST_CLEAR \/ LIST_FREE \/ LIST_DETACH PROVE Kept
    BY <1>2, ClearStep
  <1>3. ASSUME LIST_POP_FRONT PROVE Kept
    BY <1>3, PopFrontStep
  <1>4. ASSUME LIST_POP_BACK \/ LIST_DROP_BACK PROVE Kept
    BY <1>4, PopBackStep
  <1>5. ASSUME Tidied PROVE Kept
    BY <1>5, TidyStep
  <1>6. ASSUME LIST_SORT PROVE Kept
    BY <1>6, SortStep
  <1>7. ASSUME LIST_REVERSE PROVE Kept
    BY <1>7, ReverseStep
  <1> QED
    BY Zenon, <1>1, <1>2, <1>3, <1>4, <1>5, <1>6, <1>7 DEF Next, Tidied

\* Kept says of the next state what IndInv says of this one.
LEMMA KeptIs ==
    ASSUME IndInv, Kept
    PROVE  IndInv'
  <1>1. ListOK(list') /\ IsList(list') /\ list'.capacity <= MaxCapacity
    BY DEF Kept, ListOK
  <1>2. dtor' \in BOOLEAN /\ status' \in [Item -> {"caller", "listed", "destroyed"}]
    BY Now DEF Kept, Status
  <1>3. TypeOK'
    BY <1>1, <1>2 DEF TypeOK
  <1>4. ASSUME dtor', ~RotatedRemove PROVE Owned(Content(list))'
    <2>1. Content(list') \in Seq(Item) /\ Owns(status', Content(list'))
      BY <1>1, <1>4, Held DEF Kept
    <2>2. PICK xs : xs = Content(list')
      OBVIOUS
    <2>3. DOMAIN xs = 1..Len(xs) /\ \A i \in 1..Len(xs) : xs[i] \in Item
      BY <2>1, <2>2
    <2>4. /\ \A i \in 1..Len(xs) : status'[xs[i]] = "listed"
          /\ \A x \in Item : status'[x] = "listed" => \E i \in 1..Len(xs) : xs[i] = x
          /\ \A i, j \in 1..Len(xs) : xs[i] = xs[j] => i = j
      BY <2>1, <2>2 DEF Owns
    <2>5. {x \in Item : status'[x] = "listed"} = {xs[i] : i \in DOMAIN xs}
      BY <2>3, <2>4
    <2>6. \A i, j \in DOMAIN xs : xs[i] = xs[j] => i = j
      BY <2>3, <2>4
    <2> QED
      BY <2>2, <2>5, <2>6 DEF Owned
  <1> QED
    BY <1>1, <1>3, <1>4 DEF IndInv

\* Through growth, wraps and every operation a list keeps its shape, every slot
\* that holds an item stays open, and an owning list owns what it holds.
THEOREM Inductive == Spec => []IndInv
  <1>1. Init => IndInv
    <2> SUFFICES ASSUME Init PROVE IndInv
      OBVIOUS
    <2>1. list = ZeroList /\ dtor \in BOOLEAN /\ status = [x \in Item |-> "caller"]
      BY DEF Init
    <2>2. ListOK(list) /\ Content(list) = <<>> /\ list.capacity = 0 /\ IsList(list)
      BY <2>1, ZeroHolds DEF ListOK
    <2>3. list.capacity <= MaxCapacity
      BY <2>2, ListConstants
    <2>4. Owned(<<>>)
      <3>1. {x \in Item : status[x] = "listed"} = {}
        BY <2>1
      <3>2. PICK e : e = <<>>
        OBVIOUS
      <3>3. DOMAIN e = {}
        BY <3>2
      <3>4. Owned(e)
        BY <3>1, <3>3 DEF Owned
      <3> QED
        BY <3>2, <3>4
    <2> QED
      BY <2>1, <2>2, <2>3, <2>4 DEF IndInv, TypeOK
  <1>2. IndInv /\ [Next]_vars => IndInv'
    <2>1. ASSUME IndInv, Next PROVE IndInv'
      BY <2>1, EveryStep, KeptIs
    <2>2. ASSUME IndInv, UNCHANGED vars PROVE IndInv'
      BY <2>2 DEF vars, IndInv, TypeOK, Owned
    <2> QED
      BY <2>1, <2>2
  <1> QED
    BY <1>1, <1>2, PTL DEF Spec

\* The fields of list_t_ agree with each other: storage exactly when there is
\* capacity, the head inside it, no more items than slots.
THEOREM TypeCorrect == Spec => []TypeOK
  <1>1. IndInv => TypeOK
    BY DEF IndInv
  <1> QED
    BY <1>1, Inductive, PTL

\* The program may touch every slot that holds an item.
THEOREM ItemsOpen == Spec => []LiveOpen
  <1>1. IndInv => LiveOpen
    BY DEF IndInv, ListOK, LiveOpen
  <1> QED
    BY <1>1, Inductive, PTL

\* When LIST_REMOVE is used on an owning list only while its head is 0, a list
\* with a destructor owns exactly the items it holds.
THEOREM Ownership ==
    ASSUME ~RotatedRemove
    PROVE  Spec => []OwnsWhatItHolds
  <1>1. IndInv => OwnsWhatItHolds
    <2> SUFFICES ASSUME IndInv, dtor
                 PROVE  {x \in Item : status[x] = "listed"} = {list.base[s] : s \in Live(list)}
      BY DEF OwnsWhatItHolds
    <2>1. ListOK(list) /\ Owned(Content(list))
      BY DEF IndInv
    <2>2. {list.base[s] : s \in Live(list)} = {Content(list)[i] : i \in DOMAIN Content(list)}
      BY <2>1, Held
    <2> QED
      BY <2>1, <2>2 DEF Owned
  <1> QED
    BY <1>1, Inductive, PTL

----------------------------------------------------------------------------
(* The refinement                                                          *)

LEMMA InsertRefines ==
    ASSUME IndInv, NEW x \in Item, LIST_APPEND(x) \/ LIST_TRY_APPEND(x) \/ LIST_PREPEND(x)
    PROVE  Abstract!Append1(x) \/ Abstract!Prepend1(x)
  <1>1. CASE LIST_APPEND(x) \/ LIST_TRY_APPEND(x)
    <2>1. Content(list') = Append(Content(list), x)
      BY <1>1, AppendStep
    <2> QED
      BY <2>1 DEF Abstract!Append1
  <1>2. CASE LIST_PREPEND(x)
    <2>1. Content(list') = <<x>> \o Content(list)
      BY <1>2, PrependStep
    <2> QED
      BY <2>1 DEF Abstract!Prepend1, Abstract!Cons
  <1> QED
    BY <1>1, <1>2

LEMMA RemoveRefines ==
    ASSUME IndInv, NEW x \in Item, LIST_REMOVE(x)
    PROVE  Abstract!Drop(x)
  <1>1. PICK i \in 1..Len(Content(list)) :
           /\ Content(list)[i] = x
           /\ \A j \in 1..(i - 1) : Content(list)[j] # x
           /\ Content(list') = SubSeq(Content(list), 1, i - 1)
                                  \o SubSeq(Content(list), i + 1, Len(Content(list)))
    BY RemoveStep
  <1>2. i \in DOMAIN Content(list)
    BY <1>1, Now
  <1>3. Content(list') = Abstract!RemoveAt(Content(list), i)
    BY <1>1 DEF Abstract!RemoveAt
  <1> QED
    BY <1>1, <1>2, <1>3 DEF Abstract!Drop

LEMMA SetRefines ==
    ASSUME IndInv, NEW x \in Item, LIST_SET(x)
    PROVE  Abstract!Assign(x)
  <1>1. PICK i \in 1..Len(Content(list)) : Content(list') = [Content(list) EXCEPT ![i] = x]
    BY SetStep
  <1>2. i \in DOMAIN Content(list)
    BY <1>1, Now
  <1>3. Content(list') = Abstract!ReplaceAt(Content(list), i, x)
    BY <1>1 DEF Abstract!ReplaceAt
  <1> QED
    BY <1>2, <1>3 DEF Abstract!Assign

LEMMA SortRefines ==
    ASSUME IndInv, LIST_SORT
    PROVE  Abstract!Sort
  <1>1. PICK xs, ys : /\ xs = Content(list) /\ ys = Content(list')
                      /\ ys \in Arrangements(xs)
    BY SortStep
  <1>2. xs \in Seq(Item) /\ DOMAIN xs = 1..Len(xs) /\ Len(xs) \in Nat
    BY <1>1, Now
  <1>3. ys \in [DOMAIN xs -> {xs[i] : i \in DOMAIN xs}] /\ {xs[i] : i \in DOMAIN xs} \subseteq Item
    BY <1>1, <1>2 DEF Arrangements
  <1>4. ys \in [DOMAIN xs -> Item] /\ DOMAIN ys = DOMAIN xs
    BY <1>3
  <1>5. ys \in Seq(Item) /\ Len(ys) = Len(xs)
    BY <1>2, <1>4
  <1>6. \A i \in 1..(Len(ys) - 1) : ys[i] <= ys[i + 1]
    <2> TAKE i \in 1..(Len(ys) - 1)
    <2>1. i \in DOMAIN xs /\ i + 1 \in DOMAIN xs
      BY <1>2, <1>5
    <2> QED
      BY <1>1, <2>1 DEF Arrangements
  <1>7. \A x \in Item : Cardinality({i \in DOMAIN ys : ys[i] = x})
                      = Cardinality({i \in DOMAIN xs : xs[i] = x})
    BY <1>1 DEF Arrangements, Occurrences
  <1>8. xs = Content(list) /\ ys = Content(list')
    BY <1>1
  <1>9. /\ Content(list') \in [DOMAIN Content(list) -> Item]
        /\ \A i \in 1..(Len(Content(list')) - 1) : Content(list')[i] <= Content(list')[i + 1]
    BY <1>4, <1>6, <1>8
  <1>10. \A x \in Item : Cardinality({i \in DOMAIN Content(list') : Content(list')[i] = x})
                       = Cardinality({i \in DOMAIN Content(list) : Content(list)[i] = x})
    BY Zenon, <1>7, <1>8
  <1>11. \A S : Cardinality(S) = Abstract!Cardinality(S)
    BY Zenon DEF Cardinality, Abstract!Cardinality
  <1> QED
    BY <1>9, <1>10, <1>11 DEF Abstract!Sort

LEMMA StepRefines ==
    ASSUME IndInv, Next
    PROVE  Abstract!Next \/ Content(list') = Content(list)
  <1>1. ASSUME NEW x \in Item,
               LIST_APPEND(x) \/ LIST_TRY_APPEND(x) \/ LIST_PREPEND(x) \/ LIST_REMOVE(x) \/ LIST_SET(x)
        PROVE  Abstract!Next
    BY Zenon, <1>1, InsertRefines, RemoveRefines, SetRefines DEF Abstract!Next
  <1>2. ASSUME LIST_CLEAR \/ LIST_FREE \/ LIST_DETACH PROVE Abstract!Next
    <2>1. Content(list') = <<>>
      BY <1>2, ClearStep
    <2> QED
      BY <2>1 DEF Abstract!Next, Abstract!Clear
  <1>3. ASSUME LIST_POP_FRONT PROVE Abstract!Next
    <2>1. Content(list) # <<>> /\ Content(list') = Tail(Content(list))
      BY <1>3, PopFrontStep
    <2> QED
      BY <2>1 DEF Abstract!Next, Abstract!PopFront
  <1>4. ASSUME LIST_POP_BACK \/ LIST_DROP_BACK PROVE Abstract!Next
    <2>1. /\ Content(list) # <<>>
          /\ Content(list') = SubSeq(Content(list), 1, Len(Content(list)) - 1)
      BY <1>4, PopBackStep
    <2> QED
      BY <2>1 DEF Abstract!Next, Abstract!PopBack, Abstract!Front
  <1>5. ASSUME Tidied PROVE Content(list') = Content(list)
    BY <1>5, TidyStep
  <1>6. ASSUME LIST_SORT PROVE Abstract!Next
    BY <1>6, SortRefines DEF Abstract!Next
  <1>7. ASSUME LIST_REVERSE PROVE Abstract!Next
    <2>1. Content(list') = [i \in 1..Len(Content(list)) |->
                               Content(list)[(Len(Content(list)) - i) + 1]]
      BY <1>7, ReverseStep
    <2> QED
      BY <2>1 DEF Abstract!Next, Abstract!Flip, Abstract!Reverse
  <1> QED
    BY Zenon, <1>1, <1>2, <1>3, <1>4, <1>5, <1>6, <1>7 DEF Next, Tidied

\* To its users the circular buffer is the sequence of ListSpec: every operation
\* of list.h is one operation of the sequence, and the ones that only move storage
\* change nothing a user sees.
THEOREM Implements == Spec => ImplementsListSpec
  <1>1. Init => Abstract!Init
    BY ZeroHolds DEF Init, Abstract!Init
  <1>2. IndInv /\ [Next]_vars => [Abstract!Next]_(Content(list))
    <2>1. ASSUME IndInv, Next PROVE [Abstract!Next]_(Content(list))
      BY <2>1, StepRefines
    <2>2. ASSUME UNCHANGED vars PROVE [Abstract!Next]_(Content(list))
      BY <2>2 DEF vars
    <2> QED
      BY <2>1, <2>2
  <1> QED
    BY <1>1, <1>2, Inductive, PTL DEF Spec, ImplementsListSpec, Abstract!Spec
=============================================================================
