--------------------------- MODULE CallbackStack ---------------------------
(***************************************************************************)
(* The callbacks of a graph hierarchy (lib/cgraph/obj.c): a stack of sets  *)
(* of methods, linked from the top down, which agpushdisc and agpopdisc    *)
(* change and agmethod_init, agmethod_upd and agmethod_delete run through  *)
(* whenever an object is made, changed or deleted.  A method is code of    *)
(* the client: it may install and remove callbacks, and make calls that    *)
(* run through the stack again while the outer run is not over.            *)
(***************************************************************************)
EXTENDS Integers, Sequences, SequencesExt

CONSTANTS
    Disc,       \* the sets of callbacks (Agcbdisc_t) a program has
    Method,     \* the kinds of methods: what happens to which kind of object
    Methods,    \* Methods[d]: those that are not null in d
    Address,    \* where malloc may put entries of the stack
    NULL,
    MaxNested,  \* how many runs may be under way, each but the first within a method
    OnlyTop     \* do callers keep to TopIsFree?

\* What the theorems assume of the constants.
CallbackConstants ==
    /\ NULL \notin Address
    /\ Methods \in [Disc -> SUBSET Method]
    /\ MaxNested \in Nat
    /\ OnlyTop \in BOOLEAN

VARIABLES
    entry,      \* the allocated entries (Agcbstack_t): their f and prev
    cb,         \* g->clos->cb, the top
    runs,       \* the runs under way, the innermost last
    closing,    \* agclose of the root has come to its callbacks
    installed   \* history: what was pushed and not popped, the oldest first

vars == <<entry, cb, runs, closing, installed>>

Entries == [f : Disc, prev : Address \cup {NULL}]

(* aginitcb calls itself on prev before it calls a method: todo is the     *)
(* entry it goes to next, due those it will come back to, the last one     *)
(* first, and at the entry whose method is being executed.  History: how   *)
(* many entries there were when the run began and how many it is past.     *)
Runs == [method : Method, todo : Address \cup {NULL}, due : Seq(Address),
         at : Address \cup {NULL}, top : Nat, past : Nat]

Init ==
    /\ entry = [a \in {} |-> [f |-> NULL, prev |-> NULL]]
    /\ cb = NULL
    /\ runs = <<>>
    /\ closing = FALSE
    /\ installed = <<>>

----------------------------------------------------------------------------
(* The client                                                              *)

\* The client is executing: the library was not called, or is in a method.
Client == ~closing /\ (runs # <<>> => runs[Len(runs)].at # NULL)

agpushdisc(d, a) ==
    /\ Client
    /\ a \notin DOMAIN entry
    /\ entry' = [x \in DOMAIN entry \cup {a} |->
                    IF x = a THEN [f |-> d, prev |-> cb] ELSE entry[x]]
    /\ cb' = a
    /\ installed' = Append(installed, [f |-> d, at |-> a])
    /\ UNCHANGED <<runs, closing>>

Without(a) == [x \in DOMAIN entry \ {a} |-> entry[x]]

\* What agpopdisc leaves: it stops at the entry before the one that has d,
\* links that to what follows, and frees the entry where it stopped.
Popped(d) ==
    IF entry[cb].f = d
    THEN [entry |-> Without(cb), cb |-> entry[cb].prev]
    ELSE LET Stop[a \in DOMAIN entry] ==
                 IF entry[entry[a].prev].f = d THEN a ELSE Stop[entry[a].prev]
             stop == Stop[cb]
             linked == [entry EXCEPT ![stop].prev = entry[@].prev]
         IN  [entry |-> [x \in DOMAIN entry \ {stop} |-> linked[x]], cb |-> cb]

\* The newest entry has d, and no run has yet to come back to it.
TopIsFree(d) ==
    /\ Last(installed).f = d
    /\ \A i \in DOMAIN runs : Last(installed).at \notin ToSet(runs[i].due)

\* The index of the newest entry with d.
Newest(d) == CHOOSE i \in DOMAIN installed :
    installed[i].f = d /\ \A j \in DOMAIN installed : installed[j].f = d => j <= i

\* Only what is installed is popped.  (With nothing installed the code returns
\* FAILURE and changes nothing; with others installed it reads the f of null.)
agpopdisc(d) ==
    /\ Client
    /\ \E i \in DOMAIN installed : installed[i].f = d
    /\ OnlyTop => TopIsFree(d)
    /\ entry' = Popped(d).entry
    /\ cb' = Popped(d).cb
    /\ installed' = RemoveAt(installed, Newest(d))
    /\ UNCHANGED <<runs, closing>>

----------------------------------------------------------------------------
(* Runs through the stack                                                  *)

Innermost == runs[Len(runs)]
WithInnermost(r) == [runs EXCEPT ![Len(runs)] = r]

\* agmethod_init, agmethod_upd and agmethod_delete, called for what the client does.
agmethod(m) ==
    /\ Client
    /\ Len(runs) < MaxNested
    /\ runs' = Append(runs, [method |-> m, todo |-> cb, due |-> <<>>, at |-> NULL,
                             top |-> Len(installed), past |-> 0])
    /\ UNCHANGED <<entry, cb, closing, installed>>

\* aginitcb, agupdcb or agdelcb calls itself on prev.
Descend ==
    /\ runs # <<>>
    /\ Innermost.todo # NULL
    /\ runs' = WithInnermost([Innermost EXCEPT !.todo = entry[@].prev,
                                               !.due = <<Innermost.todo>> \o @])
    /\ UNCHANGED <<entry, cb, closing, installed>>

\* It comes back to an entry, reads the method and calls it unless it is null.
Call ==
    /\ runs # <<>>
    /\ Innermost.todo = NULL
    /\ Innermost.at = NULL
    /\ Innermost.due # <<>>
    /\ LET a == Head(Innermost.due)
       IN  runs' = WithInnermost([Innermost EXCEPT
                      !.at = IF Innermost.method \in Methods[entry[a].f] THEN a ELSE NULL,
                      !.due = Tail(@),
                      !.past = @ + 1])
    /\ UNCHANGED <<entry, cb, closing, installed>>

\* The method returns.
Return ==
    /\ runs # <<>>
    /\ Innermost.at # NULL
    /\ runs' = WithInnermost([Innermost EXCEPT !.at = NULL])
    /\ UNCHANGED <<entry, cb, closing, installed>>

\* The outermost call of aginitcb returns, and with it agmethod_init.
Finish ==
    /\ runs # <<>>
    /\ Innermost.todo = NULL
    /\ Innermost.at = NULL
    /\ Innermost.due = <<>>
    /\ runs' = Front(runs)
    /\ UNCHANGED <<entry, cb, closing, installed>>

----------------------------------------------------------------------------
(* The end of the graph                                                    *)

\* agclose of the root, after the last method returned, outside of all methods.
agclose ==
    /\ Client
    /\ runs = <<>>
    /\ closing' = TRUE
    /\ UNCHANGED <<entry, cb, runs, installed>>

\* while (g->clos->cb) agpopdisc(g, g->clos->cb->f)
PopLeft ==
    /\ closing
    /\ cb # NULL
    /\ LET d == entry[cb].f
       IN  /\ entry' = Popped(d).entry
           /\ cb' = Popped(d).cb
           /\ installed' = RemoveAt(installed, Newest(d))
    /\ UNCHANGED <<runs, closing>>

Next ==
    \/ \E d \in Disc : agpopdisc(d) \/ \E a \in Address : agpushdisc(d, a)
    \/ \E m \in Method : agmethod(m)
    \/ Descend
    \/ Call
    \/ Return
    \/ Finish
    \/ agclose
    \/ PopLeft

Spec == Init /\ [][Next]_vars

----------------------------------------------------------------------------
(* Properties                                                              *)

\* The types of the variables; entries are live while they are in the domain of entry.
TypeOK ==
    /\ DOMAIN entry \subseteq Address
    /\ entry \in [DOMAIN entry -> Entries]
    /\ cb \in Address \cup {NULL}
    /\ runs \in Seq(Runs)
    /\ closing \in BOOLEAN
    /\ installed \in Seq([f : Disc, at : Address])

At(i) == IF i = 0 THEN NULL ELSE installed[i].at

\* The links lead from the top through what is installed, and nothing else is allocated.
LinksHold ==
    /\ cb = At(Len(installed))
    /\ DOMAIN entry = {installed[i].at : i \in DOMAIN installed}
    /\ \A i \in DOMAIN installed :
           entry[installed[i].at] = [f |-> installed[i].f, prev |-> At(i - 1)]

\* How many entries are below those a run has yet to come back to.
Low(r) == IF r.todo = NULL THEN r.past ELSE r.top - Len(r.due)

\* What a run is yet to read is installed still, and it comes to each entry there was
\* when it began, from the oldest to the newest.
RunHolds(r) ==
    /\ r.todo # NULL => r.past = 0 /\ Low(r) \in DOMAIN installed /\ r.todo = installed[Low(r)].at
    /\ Low(r) + Len(r.due) = r.top
    /\ \A k \in DOMAIN r.due : Low(r) + k \in DOMAIN installed /\ r.due[k] = installed[Low(r) + k].at

\* agpopdisc takes off just what was asked for and frees it, agclose leaves no entry
\* (graph.c:142), and however methods install and remove callbacks and start further runs,
\* every run reads live entries and passes over none (obj.c:81-165, 204-233).
StackHolds == LinksHold /\ \A i \in DOMAIN runs : RunHolds(runs[i])

\* "Libcgraph automatically calls the methods on the stack, top-down" (cgraph.h:376): while
\* a method is executed, the run has no entry above its own left to come to (obj.c:85).
TopDown ==
    \A i \in DOMAIN runs : \A j, k \in DOMAIN installed :
        installed[j].at = runs[i].at /\ installed[k].at \in ToSet(runs[i].due) => k <= j

\* No two entries that are installed have one address.
EntriesApart ==
    \A i, j \in DOMAIN installed : installed[i].at = installed[j].at => i = j

\* Only the innermost run may be on its way down, and then no method of it is executed;
\* callbacks are not taken off at the end before the last run is over (graph.c:142).
RunsWait ==
    /\ \A i \in DOMAIN runs : runs[i].todo # NULL => i = Len(runs) /\ runs[i].at = NULL
    /\ closing => runs = <<>>

\* What a step needs to preserve StackHolds.
IndInv == TypeOK /\ EntriesApart /\ StackHolds /\ RunsWait
============================================================================
