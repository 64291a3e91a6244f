------------------------------ MODULE ListSpec ------------------------------
(***************************************************************************)
(* What LIST(type) of lib/util/list.h promises its users: a sequence.      *)
(***************************************************************************)
EXTENDS Naturals, SequencesExt

CONSTANT Item    \* the values, ordered as the comparison of LIST_SORT orders them

VARIABLE items

Init == items = <<>>

Append1(x) == items' = Append(items, x)

Prepend1(x) == items' = Cons(x, items)

\* The first item of that value goes.
Drop(x) ==
    \E i \in DOMAIN items :
        /\ items[i] = x
        /\ \A j \in 1..(i - 1) : items[j] # x
        /\ items' = RemoveAt(items, i)

Assign(x) == \E i \in DOMAIN items : items' = ReplaceAt(items, i, x)

PopFront == items # <<>> /\ items' = Tail(items)

PopBack == items # <<>> /\ items' = Front(items)

Clear == items' = <<>>

Flip == items' = Reverse(items)

\* In order, with each value as often as before.
Sort ==
    /\ items' \in [DOMAIN items -> Item]
    /\ \A i \in 1..(Len(items') - 1) : items'[i] <= items'[i + 1]
    /\ \A x \in Item : Cardinality({i \in DOMAIN items' : items'[i] = x})
                     = Cardinality({i \in DOMAIN items : items[i] = x})

Next ==
    \/ \E x \in Item : Append1(x) \/ Prepend1(x) \/ Drop(x) \/ Assign(x)
    \/ PopFront \/ PopBack \/ Clear \/ Flip \/ Sort

Spec == Init /\ [][Next]_items
=============================================================================
