-------------------------------- MODULE List --------------------------------
(***************************************************************************)
(* LIST(type) of lib/util: a growing circular buffer (list.c), and the     *)
(* macros of list.h that run the list's destructor on the items it owns.   *)
(*                                                                         *)
(* A list is a record like list_t_; `open' is the set of slots that        *)
(* AddressSanitizer lets the program touch.  An item that a list with a    *)
(* destructor owns is a pointer, in one list once; `status' follows it.    *)
(*                                                                         *)
(* X_Y, just before X, is X with a mistake: no specification uses it.      *)
(***************************************************************************)
EXTENDS Integers, Sequences, FiniteSets

CONSTANTS
    Item,           \* the values of the items
    ZERO,           \* the value of zeroed memory
    MaxCapacity,    \* bound: no list grows beyond it
    RotatedRemove   \* callers use LIST_REMOVE on a list whose head is not 0

ASSUME ListConstants ==
    /\ Item \subseteq Nat
    /\ ZERO \in Nat \ Item
    /\ MaxCapacity \in Nat \ {0}
    /\ RotatedRemove \in BOOLEAN

VARIABLES
    list,     \* list->impl
    dtor,     \* list->dtor is set
    status    \* of each item, when dtor: the caller's, the list's or destroyed

vars == <<list, dtor, status>>

Slots(l) == 0..(l.capacity - 1)

ZeroList == [base |-> [s \in 0..(-1) |-> ZERO], head |-> 0, size |-> 0, capacity |-> 0, open |-> {}]

\* gv_list_get_: the slot of the item of that index.
At(l, index) == (l.head + index) % l.capacity

Live(l) == {At(l, i) : i \in 0..(l.size - 1)}

Content(l) == [i \in 1..l.size |-> l.base[At(l, i - 1)]]

----------------------------------------------------------------------------
(* Growth                                                                  *)

Reserved_NoShuffle(l, c) ==
    IF l.capacity >= c THEN l
    ELSE [l EXCEPT !.base = [s \in 0..(c - 1) |-> IF s < l.capacity THEN l.base[s] ELSE ZERO],
                   !.capacity = c]

Reserved_KeepPoison(l, c) ==
    IF l.capacity >= c THEN l
    ELSE LET prefix  == l.capacity - l.head
             newHead == IF l.head + l.size > l.capacity THEN c - prefix ELSE l.head
         IN  [l EXCEPT !.base = [s \in 0..(c - 1) |->
                           IF newHead # l.head /\ s >= newHead THEN l.base[s - newHead + l.head]
                           ELSE IF s < l.capacity THEN l.base[s] ELSE ZERO],
                       !.head = newHead,
                       !.capacity = c]

\* try_reserve, when the memory is there: the new slots are zeroed, and the
\* items before the wrap move to the end.  The gap is poisoned for as many
\* slots as the old storage had free.
Reserved(l, c) ==
    IF l.capacity >= c THEN l
    ELSE LET wraps   == l.head + l.size > l.capacity
             prefix  == l.capacity - l.head
             newHead == IF wraps THEN c - prefix ELSE l.head
             gap     == (l.size - prefix)..(l.head - 1)
         IN  [l EXCEPT !.base = [s \in 0..(c - 1) |->
                           IF wraps /\ s >= newHead THEN l.base[s - newHead + l.head]
                           ELSE IF s < l.capacity THEN l.base[s] ELSE ZERO],
                       !.open = IF wraps THEN (@ \cup newHead..(c - 1)) \ gap ELSE @,
                       !.head = newHead,
                       !.capacity = c]

Doubled(l) == IF l.capacity = 0 THEN 1 ELSE 2 * l.capacity

\* The capacities that an insertion may leave behind, or none within the bound.
Expansions(l, tries) ==
    IF l.size < l.capacity THEN {l.capacity} ELSE tries \cap 1..MaxCapacity

----------------------------------------------------------------------------
(* The operations of list.c                                                *)

\* The last slot is filled: gv_list_append_slot_ and gv_list_try_append_.
Appended(l, x) ==
    LET slot == At(l, l.size)
    IN  [l EXCEPT !.base[slot] = x, !.open = @ \cup {slot}, !.size = @ + 1]

Prepended(l, x) ==
    LET slot == (l.head + (l.capacity - 1)) % l.capacity
    IN  [l EXCEPT !.base[slot] = x, !.open = @ \cup {slot}, !.size = @ + 1, !.head = slot]

\* gv_list_remove_: the items behind move one forward.
Removed(l, index) ==
    [l EXCEPT !.base = [s \in Slots(l) |->
                  IF s \in {At(l, i) : i \in index..(l.size - 2)} THEN @[(s + 1) % l.capacity] ELSE @[s]],
              !.open = @ \ {At(l, l.size - 1)},
              !.size = @ - 1]

Cleared(l) == [l EXCEPT !.open = @ \ Live(l), !.size = 0, !.head = 0]

\* gv_list_sync_: rotate the whole storage until head is 0.
Synced(l) ==
    [l EXCEPT !.base = [s \in Slots(l) |-> @[(s + l.head) % l.capacity]],
              !.open = 0..(l.size - 1),
              !.head = 0]

Occurrences(xs, x) == Cardinality({i \in DOMAIN xs : xs[i] = x})

\* What qsort leaves of xs: the values as often as before, in order.
Arrangements(xs) ==
    {ys \in [DOMAIN xs -> {xs[i] : i \in DOMAIN xs}] :
        /\ \A i \in DOMAIN xs : i + 1 \in DOMAIN xs => ys[i] <= ys[i + 1]
        /\ \A x \in Item : Occurrences(ys, x) = Occurrences(xs, x)}

\* gv_list_sort_, when qsort leaves ys at the start of the storage.
Sorted(l, ys) ==
    [Synced(l) EXCEPT !.base = [s \in Slots(l) |-> IF s < l.size THEN ys[s + 1] ELSE @[s]]]

Reversed(l) ==
    [l EXCEPT !.base = [s \in Slots(l) |->
        LET i == (s + l.capacity - l.head) % l.capacity
        IN  IF i < l.size THEN @[At(l, l.size - 1 - i)] ELSE @[s]]]

Shrunk(l) ==
    [Synced(l) EXCEPT !.base = [s \in 0..(l.size - 1) |-> @[s]], !.capacity = l.size]

\* gv_list_copy_: new storage of the same capacity, synced.
Copied(l) ==
    [l EXCEPT !.base = [s \in Slots(l) |-> IF s < l.size THEN Content(l)[s + 1] ELSE ZERO],
              !.open = 0..(l.size - 1),
              !.head = 0]

PoppedFront_NoWrap(l) == [l EXCEPT !.open = @ \ {l.head}, !.head = @ + 1, !.size = @ - 1]

PoppedFront(l) ==
    [l EXCEPT !.open = @ \ {l.head}, !.head = (@ + 1) % l.capacity, !.size = @ - 1]

PoppedBack(l) == [l EXCEPT !.open = @ \ {At(l, l.size - 1)}, !.size = @ - 1]

----------------------------------------------------------------------------
(* The macros of list.h                                                    *)

\* A caller puts into an owning list only what that list does not have.
Offered(x) == dtor => status[x] # "listed"

Moved(xs, where) == IF dtor THEN [x \in Item |-> IF x \in xs THEN where ELSE status[x]] ELSE status

\* LIST_DTOR_ on these slots.
Destroyed(slots) == Moved({list.base[s] : s \in slots}, "destroyed")

LIST_APPEND(x) ==
    /\ Offered(x)
    /\ \E c \in Expansions(list, {Doubled(list)}) : list' = Appended(Reserved(list, c), x)
    /\ status' = Moved({x}, "listed")
    /\ UNCHANGED dtor

\* When doubling fails one more slot is tried; when that fails nothing happens.
LIST_TRY_APPEND(x) ==
    /\ Offered(x)
    /\ \E c \in Expansions(list, {Doubled(list), list.capacity + 1}) :
          list' = Appended(Reserved(list, c), x)
    /\ status' = Moved({x}, "listed")
    /\ UNCHANGED dtor

LIST_PREPEND(x) ==
    /\ Offered(x)
    /\ \E c \in Expansions(list, {Doubled(list)}) : list' = Prepended(Reserved(list, c), x)
    /\ status' = Moved({x}, "listed")
    /\ UNCHANGED dtor

\* gv_list_find_ returns the index of the first item equal to x; LIST_DTOR_
\* takes it for a slot.
LIST_REMOVE(x) ==
    /\ dtor /\ list.head # 0 => RotatedRemove
    /\ \E found \in 0..(list.size - 1) :
          /\ list.base[At(list, found)] = x
          /\ \A i \in 0..(found - 1) : list.base[At(list, i)] # x
          /\ status' = Destroyed({found})
          /\ list' = Removed(list, found)
    /\ UNCHANGED dtor

LIST_SET(x) ==
    /\ Offered(x)
    /\ \E index \in 0..(list.size - 1) :
          LET slot == At(list, index)
          IN  /\ list' = [list EXCEPT !.base[slot] = x]
              /\ status' = IF dtor THEN [status EXCEPT ![list.base[slot]] = "destroyed", ![x] = "listed"]
                                   ELSE status
    /\ UNCHANGED dtor

LIST_CLEAR_BySlot ==
    /\ list' = Cleared(list)
    /\ status' = Destroyed(0..(list.size - 1))
    /\ UNCHANGED dtor

LIST_CLEAR ==
    /\ list' = Cleared(list)
    /\ status' = Destroyed(Live(list))
    /\ UNCHANGED dtor

LIST_FREE ==
    /\ list' = ZeroList
    /\ status' = Destroyed(Live(list))
    /\ UNCHANGED dtor

LIST_POP_FRONT ==
    /\ list.size > 0
    /\ list' = PoppedFront(list)
    /\ status' = Moved({list.base[list.head]}, "caller")
    /\ UNCHANGED dtor

LIST_POP_BACK ==
    /\ list.size > 0
    /\ list' = PoppedBack(list)
    /\ status' = Moved({list.base[At(list, list.size - 1)]}, "caller")
    /\ UNCHANGED dtor

LIST_DROP_BACK ==
    /\ list.size > 0
    /\ list' = PoppedBack(list)
    /\ status' = Destroyed({At(list, list.size - 1)})
    /\ UNCHANGED dtor

LIST_DETACH ==
    /\ list' = ZeroList
    /\ status' = Moved({list.base[s] : s \in Live(list)}, "caller")
    /\ UNCHANGED dtor

\* The operations that keep the items, and with them the owner's.
Rearranged(l) == list' = l /\ UNCHANGED <<dtor, status>>

LIST_RESERVE(c) == Rearranged(Reserved(list, c))

LIST_SYNC == Rearranged(Synced(list))

LIST_SORT == \E ys \in Arrangements(Content(list)) : Rearranged(Sorted(list, ys))

LIST_REVERSE == Rearranged(Reversed(list))

LIST_SHRINK_TO_FIT == Rearranged(Shrunk(list))

\* LIST_COPY of a list that owns nothing; the program goes on with the copy.
LIST_COPY == ~dtor /\ Rearranged(Copied(list))

----------------------------------------------------------------------------
Init ==
    /\ list = ZeroList
    /\ dtor \in BOOLEAN
    /\ status = [x \in Item |-> "caller"]

Next ==
    \/ \E x \in Item :
          \/ LIST_APPEND(x) \/ LIST_TRY_APPEND(x) \/ LIST_PREPEND(x)
          \/ LIST_REMOVE(x) \/ LIST_SET(x)
    \/ LIST_CLEAR \/ LIST_FREE \/ LIST_DETACH
    \/ LIST_POP_FRONT \/ LIST_POP_BACK \/ LIST_DROP_BACK
    \/ \E c \in 1..MaxCapacity : LIST_RESERVE(c)
    \/ LIST_SYNC \/ LIST_SORT \/ LIST_REVERSE \/ LIST_SHRINK_TO_FIT \/ LIST_COPY

Spec == Init /\ [][Next]_vars

----------------------------------------------------------------------------
(* Properties                                                              *)

\* The field comments of list_t_: storage exactly when there is capacity, the
\* head inside it, no more items than slots, through every growth and wrap.
IsList(l) ==
    /\ l.capacity \in Nat
    /\ l \in [ base : [Slots(l) -> Item \cup {ZERO}], head : 0..l.capacity, size : 0..l.capacity,
               capacity : {l.capacity}, open : SUBSET Slots(l) ]
    /\ l.capacity > 0 => l.head < l.capacity

TypeOK ==
    /\ IsList(list)
    /\ list.capacity <= MaxCapacity
    /\ dtor \in BOOLEAN
    /\ status \in [Item -> {"caller", "listed", "destroyed"}]

\* The program may touch every slot that holds an item: moving the items
\* before the wrap on growth unpoisons where they go and never poisons one.
LiveOpen == Live(list) \subseteq list.open

\* A list with a destructor owns exactly the items it holds: none that it
\* destroyed or gave back is still listed, none that it lost is left alive.
OwnsWhatItHolds ==
    dtor => {x \in Item : status[x] = "listed"} = {list.base[s] : s \in Live(list)}

\* To its users the circular buffer is a sequence.
Abstract == INSTANCE ListSpec WITH items <- Content(list)

ImplementsListSpec == Abstract!Spec

----------------------------------------------------------------------------
(* The inductive invariant                                                 *)

\* A list whose every item was put there and may be touched.
ListOK(l) ==
    /\ IsList(l)
    /\ Live(l) \subseteq l.open
    /\ \A s \in Live(l) : l.base[s] \in Item

\* The items that a list with a destructor owns are those in its sequence, each
\* there once.
Owned(xs) ==
    /\ {x \in Item : status[x] = "listed"} = {xs[i] : i \in DOMAIN xs}
    /\ \A i, j \in DOMAIN xs : xs[i] = xs[j] => i = j

IndInv ==
    /\ TypeOK
    /\ ListOK(list)
    /\ dtor /\ ~RotatedRemove => Owned(Content(list))
=============================================================================
