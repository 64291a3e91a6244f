----------------------------- MODULE SplayTree -----------------------------
(***************************************************************************)
(* The ordered sets of lib/cdt (dttree.c, method Dtoset): a top-down splay *)
(* tree with one search that every operation goes through, and the         *)
(* dictionary around it, whose tree can be taken out and put back          *)
(* (dtextract, dtrestore).                                                 *)
(*                                                                         *)
(* A tree is Leaf or <<left, object, right>>.  A search is for a key given *)
(* by cmp: cmp[o] is the sign of comparing the key with object o.          *)
(*                                                                         *)
(* X_Y, just before X, is X with a mistake: no specification uses it.      *)
(***************************************************************************)
EXTENDS Integers, Sequences

CONSTANT NULL

Leaf == <<>>

RECURSIVE InOrder(_), First(_), Last(_), Split(_, _), Hang(_, _)

\* The objects of a tree from left to right.
InOrder(t) == IF t = Leaf THEN <<>> ELSE InOrder(t[1]) \o <<t[2]>> \o InOrder(t[3])

\* Rotate right until the root has no left child.
First(t) ==
    IF t[1] = Leaf THEN t
    ELSE First(<<t[1][1], t[1][2], <<t[1][3], t[2], t[3]>>>>)

\* Rotate left until the root has no right child.
Last(t) ==
    IF t[3] = Leaf THEN t
    ELSE Last(<<<<t[1], t[2], t[3][1]>>, t[3][2], t[3][3]>>)

\* do_search: take t apart into the tree of the objects before the key, the
\* object found (a sequence of at most one) and the tree of those after it.
\* Two levels at a time, with a rotation where both go the same way.
Split(cmp, t) ==
    LET below(c) == Split(cmp, c)
        o == t[2]
    IN
    IF t = Leaf THEN [left |-> Leaf, found |-> <<>>, right |-> Leaf]
    ELSE IF cmp[o] = 0 THEN [left |-> t[1], found |-> <<o>>, right |-> t[3]]
    ELSE IF cmp[o] < 0 THEN
        IF t[1] = Leaf THEN [left |-> Leaf, found |-> <<>>, right |-> t]
        ELSE LET c == t[1] IN
             CASE cmp[c[2]] < 0 -> LET b == below(c[1]) IN
                      [b EXCEPT !.right = <<@, c[2], <<c[3], o, t[3]>>>>]
               [] cmp[c[2]] = 0 ->
                      [left |-> c[1], found |-> <<c[2]>>, right |-> <<c[3], o, t[3]>>]
               [] cmp[c[2]] > 0 -> LET b == below(c[3]) IN
                      [b EXCEPT !.left = <<c[1], c[2], @>>, !.right = <<@, o, t[3]>>]
    ELSE
        IF t[3] = Leaf THEN [left |-> t, found |-> <<>>, right |-> Leaf]
        ELSE LET c == t[3] IN
             CASE cmp[c[2]] > 0 -> LET b == below(c[3]) IN
                      [b EXCEPT !.left = <<<<t[1], o, c[1]>>, c[2], @>>]
               [] cmp[c[2]] = 0 ->
                      [left |-> <<t[1], o, c[1]>>, found |-> <<c[2]>>, right |-> c[3]]
               [] cmp[c[2]] < 0 -> LET b == below(c[1]) IN
                      [b EXCEPT !.left = <<t[1], o, @>>, !.right = <<@, c[2], c[3]>>]

\* no_root: the left tree goes below the first object of the right one.
Hang(l, r) ==
    IF r = Leaf THEN l
    ELSE <<Hang(l, r[1]), r[2], r[3]>>

----------------------------------------------------------------------------
(* The dictionary: its tree and its count of objects, which is negative    *)
(* where dtrestore has put in a tree without counting it.  An operation    *)
(* returns the dictionary and an object.                                   *)

EmptyDict == [here |-> Leaf, size |-> 0]

\* dtrestore of a tree taken out before.  It is refused, leaving the dictionary
\* as it is, for an empty tree and where objects are counted.
dtrestore(d, list) ==
    IF list = Leaf \/ d.size # 0 THEN d
    ELSE [here |-> list, size |-> d.size - 1]

dtextract_KeepSize(d) == [d EXCEPT !.here = Leaf]

\* What dtextract, which returns d.here, leaves.
dtextract(d) == EmptyDict

dtsize(d) == IF d.size < 0 THEN Len(InOrder(d.here)) ELSE d.size

Answer(d, tree, size, obj) == [d |-> [here |-> tree, size |-> size], obj |-> obj]

\* dtfirst, dtlast.
dtfirst(d) ==
    IF d.here = Leaf THEN Answer(d, Leaf, d.size, NULL)
    ELSE LET t == First(d.here) IN Answer(d, t, d.size, t[2])

dtlast(d) ==
    IF d.here = Leaf THEN Answer(d, Leaf, d.size, NULL)
    ELSE LET t == Last(d.here) IN Answer(d, t, d.size, t[2])

\* What is found becomes the root.
dtsearch(d, cmp) ==
    LET p == Split(cmp, d.here)
    IN  IF p.found = <<>> THEN Answer(d, Hang(p.left, p.right), d.size, NULL)
        ELSE Answer(d, <<p.left, p.found[1], p.right>>, d.size, p.found[1])

\* dt_next: the first object after the key becomes the root.
dtnext(d, cmp) ==
    LET p == Split(cmp, d.here)
        left == IF p.found = <<>> THEN p.left ELSE <<p.left, p.found[1], Leaf>>
    IN  IF p.right = Leaf THEN Answer(d, left, d.size, NULL)
        ELSE LET t == First(p.right) IN Answer(d, <<left, t[2], t[3]>>, d.size, t[2])

\* dt_prev, the mirror image.
dtprev(d, cmp) ==
    LET p == Split(cmp, d.here)
        right == IF p.found = <<>> THEN p.right ELSE <<Leaf, p.found[1], p.right>>
    IN  IF p.left = Leaf THEN Answer(d, right, d.size, NULL)
        ELSE LET t == Last(p.left) IN Answer(d, <<t[1], t[2], right>>, d.size, t[2])

\* An object that compares equal is returned instead of inserting obj.
dtinsert(d, cmp, obj) ==
    LET p == Split(cmp, d.here)
    IN  IF p.found # <<>> THEN dtsearch(d, cmp)
        ELSE Answer(d, <<p.left, obj, p.right>>,
                    IF d.size >= 0 THEN d.size + 1 ELSE d.size, obj)

\* A count that the deletion makes negative goes further from 0.
dtdelete(d, cmp) ==
    LET p == Split(cmp, d.here)
        size == IF d.size - 1 < 0 THEN d.size - 2 ELSE d.size - 1
    IN  IF p.found = <<>> THEN dtsearch(d, cmp)
        ELSE Answer(d, Hang(p.left, p.right), size, p.found[1])

\* dtrenew of the root, whose key has changed to that of cmp: take the root out
\* and insert it again.  It is dropped if another object now compares equal.
dtrenew(d, cmp) ==
    LET e == d.here[2]
        p == Split(cmp, IF d.here[3] = Leaf THEN d.here[1] ELSE Hang(d.here[1], d.here[3]))
    IN  IF p.found = <<>> THEN Answer(d, <<p.left, e, p.right>>, d.size, e)
        ELSE Answer(d, <<p.left, p.found[1], p.right>>, d.size - 1, p.found[1])
=============================================================================
