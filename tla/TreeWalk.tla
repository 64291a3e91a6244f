------------------------------ MODULE TreeWalk ------------------------------
(***************************************************************************)
(* The two ways lib/cgraph moves over the tree of graphs, as least sets    *)
(* closed under a step: a set of graphs that contains the start and every  *)
(* step from a member contains the whole walk.                             *)
(***************************************************************************)

\* From g down the lists of children, entering only children in S
\* (rec_apply of apply.c; S is where the search for the object succeeds).
Down(children, g, S) ==
    {x \in DOMAIN children : \A W \in SUBSET DOMAIN children :
        (g \in W /\ \A p \in W : children[p] \cap S \subseteq W) => x \in W}

\* From g up the parents, stopping before the first graph in S (agsubnode,
\* installnodetoroot, installedge; S is the graphs that hold the object).
Up(above, g, S) ==
    LET G == DOMAIN above
    IN  {x \in G : \A W \in SUBSET G :
            (/\ g \notin S => g \in W
             /\ \A p \in W : above[p] \in G \ S => above[p] \in W) => x \in W}
=============================================================================
