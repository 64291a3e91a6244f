--------------------------- MODULE CallbackProofs ---------------------------
(***************************************************************************)
(* Theorems about CallbackStack, for any number of sets of callbacks,      *)
(* entries and nested runs: the stack is intact and every run reads live   *)
(* entries, while callers keep to TopIsFree.                               *)
(***************************************************************************)
EXTENDS CallbackStack, SequenceTheorems, TLAPS

Pushed == [f : Disc, at : Address]

----------------------------------------------------------------------------
(* The stack                                                               *)

\* The types of the history and of a run, element by element.
LEMMA InstalledFacts ==
    ASSUME CallbackConstants, IndInv
    PROVE  /\ Len(installed) \in Nat
           /\ DOMAIN installed = 1..Len(installed)
           /\ \A i \in DOMAIN installed : installed[i].at \in Address /\ installed[i].at # NULL
                                          /\ installed[i].f \in Disc
  <1>1. installed \in Seq(Pushed)
    BY DEF IndInv, TypeOK, Pushed
  <1>2. Len(installed) \in Nat /\ DOMAIN installed = 1..Len(installed)
    BY <1>1
  <1>3. ASSUME NEW i \in DOMAIN installed
        PROVE  installed[i] \in Pushed
    BY <1>1, <1>2, <1>3, ElementOfSeq
  <1> QED
    BY <1>2, <1>3 DEF CallbackConstants, Pushed

LEMMA RunFacts ==
    ASSUME CallbackConstants, IndInv, NEW i \in DOMAIN runs
    PROVE  /\ runs[i] \in Runs
           /\ DOMAIN runs = 1..Len(runs) /\ Len(runs) \in Nat
           /\ runs[i].due \in Seq(Address) /\ Len(runs[i].due) \in Nat
           /\ DOMAIN runs[i].due = 1..Len(runs[i].due)
           /\ runs[i].top \in Nat /\ runs[i].past \in Nat /\ Low(runs[i]) \in Int
  <1>1. runs \in Seq(Runs)
    BY DEF IndInv, TypeOK
  <1>2. DOMAIN runs = 1..Len(runs) /\ Len(runs) \in Nat
    BY <1>1
  <1>3. runs[i] \in Runs
    BY <1>1, <1>2, ElementOfSeq
  <1>4. /\ runs[i].due \in Seq(Address) /\ runs[i].top \in Nat /\ runs[i].past \in Nat
    BY <1>3 DEF Runs
  <1>5. Len(runs[i].due) \in Nat /\ DOMAIN runs[i].due = 1..Len(runs[i].due)
    BY <1>4
  <1> QED
    BY <1>2, <1>3, <1>4, <1>5 DEF Low

\* A run says the same about two histories that agree where it is yet to read.
LEMMA RunKept ==
    ASSUME NEW r \in Runs, RunHolds(r),
           DOMAIN installed \subseteq Nat, DOMAIN installed' \subseteq Nat,
           \A k \in DOMAIN r.due : Low(r) + k \in DOMAIN installed'
                                   /\ installed'[Low(r) + k] = installed[Low(r) + k],
           r.todo # NULL => Low(r) \in DOMAIN installed' /\ installed'[Low(r)] = installed[Low(r)]
    PROVE  RunHolds(r)'
  BY DEF RunHolds, Low

\* Pushing an entry.
LEMMA Push ==
    ASSUME CallbackConstants, IndInv, NEW d \in Disc, NEW a \in Address, agpushdisc(d, a)
    PROVE  IndInv'
  <1> USE InstalledFacts
  <1> DEFINE n == Len(installed)
  <1>1. /\ installed' \in Seq(Pushed) /\ Len(installed') = n + 1 /\ DOMAIN installed' = 1..(n + 1)
        /\ installed'[n + 1] = [f |-> d, at |-> a]
        /\ \A i \in 1..n : installed'[i] = installed[i]
    BY DEF agpushdisc, IndInv, TypeOK, Pushed
  <1>2. \A i \in DOMAIN installed : installed[i].at \in DOMAIN entry /\ installed[i].at # a
    BY DEF agpushdisc, IndInv, StackHolds, LinksHold
  <1>3. TypeOK'
    <2>1. cb \in Address \cup {NULL} /\ [f |-> d, prev |-> cb] \in Entries
      BY DEF IndInv, TypeOK, Entries
    <2> QED
      BY <1>1, <2>1 DEF agpushdisc, IndInv, TypeOK, Pushed
  <1>4. EntriesApart'
    BY <1>1, <1>2 DEF IndInv, EntriesApart
  <1>5. LinksHold'
    <2>0. cb' = a
      BY DEF agpushdisc
    <2>1. \A i \in 0..n : At(i)' = At(i)
      BY <1>1 DEF At
    <2>2. DOMAIN entry' = {installed'[i].at : i \in DOMAIN installed'}
      BY <1>1 DEF agpushdisc, IndInv, StackHolds, LinksHold
    <2>3. ASSUME NEW i \in DOMAIN installed'
          PROVE  entry'[installed'[i].at] = [f |-> installed'[i].f, prev |-> At(i - 1)']
      <3>1. CASE i = n + 1
        <4>1. cb = At(n) /\ n \in 0..n /\ i - 1 = n
          BY <3>1 DEF IndInv, StackHolds, LinksHold
        <4>2. cb = At(i - 1)'
          BY <2>1, <4>1
        <4> QED
          BY <3>1, <4>2, <1>1 DEF agpushdisc
      <3>2. CASE i \in 1..n
        <4>1. entry'[installed[i].at] = entry[installed[i].at]
          BY <3>2, <1>2 DEF agpushdisc
        <4>2. At(i - 1)' = At(i - 1)
          BY <3>2, <2>1
        <4> QED
          BY <3>2, <4>1, <4>2, <1>1 DEF IndInv, StackHolds, LinksHold
      <3> QED
        BY <3>1, <3>2, <1>1
    <2>4. cb' = At(Len(installed))'
      <3>1. Len(installed') = n + 1 /\ n + 1 # 0 /\ installed'[n + 1].at = a
        BY <1>1
      <3> QED
        <4> HIDE DEF n
        <4>1. At(Len(installed))' = installed'[n + 1].at
          BY <3>1 DEF At
        <4> QED
          BY <2>0, <3>1, <4>1
    <2> QED
      BY <2>2, <2>3, <2>4 DEF LinksHold
  <1>6. ASSUME NEW i \in DOMAIN runs
        PROVE  RunHolds(runs[i])'
    <2>1. RunHolds(runs[i])
      BY DEF IndInv, StackHolds
    <2> QED
      BY <2>1, <1>1, RunFacts, RunKept DEF RunHolds, agpushdisc
  <1>7. RunsWait'
    BY DEF agpushdisc, IndInv, RunsWait, Client
  <1> QED
    BY <1>3, <1>4, <1>5, <1>6, <1>7 DEF IndInv, StackHolds, agpushdisc

\* Taking off the newest entry, when no run has yet to come to it.
LEMMA Pop ==
    ASSUME CallbackConstants, IndInv, NEW d \in Disc, installed # <<>>, Last(installed).f = d,
           \A i \in DOMAIN runs : runs[i].todo = NULL /\ Last(installed).at \notin ToSet(runs[i].due),
           entry' = Popped(d).entry, cb' = Popped(d).cb,
           installed' = RemoveAt(installed, Newest(d)),
           UNCHANGED <<runs, closing>>
    PROVE  IndInv'
  <1> USE InstalledFacts
  <1> DEFINE n == Len(installed)
  <1>0. n \in Nat \ {0} /\ n \in DOMAIN installed /\ Last(installed) = installed[n]
    BY DEF Last, IndInv, TypeOK
  <1>1. Newest(d) = n
    BY <1>0 DEF Newest
  <1>2. /\ installed' \in Seq(Pushed) /\ Len(installed') = n - 1 /\ DOMAIN installed' = 1..(n - 1)
        /\ \A i \in 1..(n - 1) : installed'[i] = installed[i]
    <2>1. installed' = SubSeq(installed, 1, n - 1) \o SubSeq(installed, n + 1, n)
      BY <1>1 DEF RemoveAt
    <2>2. installed \in Seq(Pushed)
      BY DEF IndInv, TypeOK, Pushed
    <2>3. installed' = SubSeq(installed, 1, n - 1)
      BY <2>1, <2>2, <1>0
    <2> QED
      BY <2>2, <2>3, <1>0
  <1>3. /\ cb = installed[n].at /\ entry[cb] = [f |-> d, prev |-> At(n - 1)]
        /\ cb \in DOMAIN entry
    BY <1>0 DEF IndInv, StackHolds, LinksHold, At
  <1>4. entry' = [x \in DOMAIN entry \ {cb} |-> entry[x]] /\ cb' = At(n - 1)
    <2>1. entry[cb].f = d /\ entry[cb].prev = At(n - 1)
      BY <1>3
    <2>2. Popped(d) = [entry |-> Without(cb), cb |-> entry[cb].prev]
      BY <2>1 DEF Popped
    <2> QED
      BY <2>1, <2>2 DEF Without
  <1>5. \A i \in 1..(n - 1) : installed[i].at # cb
    BY <1>0, <1>3 DEF IndInv, EntriesApart
  <1>6. TypeOK'
    BY <1>2, <1>4, <1>0 DEF IndInv, TypeOK, Pushed, At
  <1>7. EntriesApart'
    BY <1>2 DEF IndInv, EntriesApart
  <1>8. LinksHold'
    <2>1. \A i \in 0..(n - 1) : At(i)' = At(i)
      BY <1>2 DEF At
    <2>2. DOMAIN entry' = {installed'[i].at : i \in DOMAIN installed'}
      <3>1. DOMAIN entry = {installed[i].at : i \in 1..n}
        BY DEF IndInv, StackHolds, LinksHold
      <3>2. DOMAIN entry' = DOMAIN entry \ {cb}
        BY <1>4
      <3>3. 1..n = (1..(n - 1)) \cup {n}
        BY <1>0
      <3>4. DOMAIN entry \ {cb} = {installed[i].at : i \in 1..(n - 1)}
        BY <3>1, <3>3, <1>3, <1>5
      <3>5. \A i \in 1..(n - 1) : installed'[i].at = installed[i].at
        BY <1>2
      <3> QED
        BY <3>2, <3>4, <3>5, <1>2
    <2>3. ASSUME NEW i \in DOMAIN installed'
          PROVE  entry'[installed'[i].at] = [f |-> installed'[i].f, prev |-> At(i - 1)']
      <3>1. i \in 1..(n - 1) /\ i \in DOMAIN installed /\ installed'[i] = installed[i]
        BY <1>0, <1>2
      <3>2. entry'[installed[i].at] = entry[installed[i].at]
        BY <3>1, <1>4, <1>5 DEF IndInv, StackHolds, LinksHold
      <3>3. At(i - 1)' = At(i - 1)
        BY <3>1, <2>1
      <3> QED
        BY <3>1, <3>2, <3>3 DEF IndInv, StackHolds, LinksHold
    <2>4. cb' = At(Len(installed))'
      BY <2>1, <1>0, <1>2, <1>4
    <2> QED
      BY <2>2, <2>3, <2>4 DEF LinksHold
  <1>9. ASSUME NEW i \in DOMAIN runs
        PROVE  RunHolds(runs[i])'
    <2>1. RunHolds(runs[i])
      BY DEF IndInv, StackHolds
    <2>2. ASSUME NEW k \in DOMAIN runs[i].due
          PROVE  Low(runs[i]) + k \in 1..(n - 1)
      <3>1. Low(runs[i]) + k \in 1..n /\ runs[i].due[k] = installed[Low(runs[i]) + k].at
        BY <2>1 DEF RunHolds
      <3>2. runs[i].due[k] # installed[n].at
        BY <1>0 DEF ToSet
      <3> QED
        BY <3>1, <3>2, <1>0
    <2> QED
      BY <2>1, <2>2, <1>2, RunFacts, RunKept
  <1>10. RunsWait'
    BY DEF IndInv, RunsWait
  <1> QED
    BY <1>6, <1>7, <1>8, <1>9, <1>10 DEF IndInv, StackHolds

\* While the client executes, no run is on its way down.
LEMMA ClientWaits ==
    ASSUME CallbackConstants, IndInv, Client, NEW i \in DOMAIN runs
    PROVE  runs[i].todo = NULL
  <1>1. runs # <<>> /\ Len(runs) \in Nat
    BY DEF IndInv, TypeOK
  <1> QED
    BY <1>1 DEF Client, IndInv, RunsWait

----------------------------------------------------------------------------
(* The runs                                                                *)

\* A step of the innermost run.
LEMMA InnermostStep ==
    ASSUME CallbackConstants, IndInv, runs # <<>>, NEW r \in Runs, runs' = WithInnermost(r),
           RunHolds(r), r.todo # NULL => r.at = NULL,
           UNCHANGED <<entry, cb, closing, installed>>
    PROVE  IndInv'
  <1>1. Len(runs) \in Nat \ {0} /\ DOMAIN runs = 1..Len(runs)
    BY DEF IndInv, TypeOK
  <1>2. /\ runs' \in Seq(Runs) /\ Len(runs') = Len(runs) /\ DOMAIN runs' = DOMAIN runs
        /\ \A i \in DOMAIN runs : runs'[i] = IF i = Len(runs) THEN r ELSE runs[i]
    BY <1>1 DEF IndInv, TypeOK, WithInnermost
  <1>3. TypeOK' /\ EntriesApart' /\ LinksHold'
    BY <1>2 DEF IndInv, TypeOK, EntriesApart, StackHolds, LinksHold, At
  <1>4. ASSUME NEW i \in DOMAIN runs'
        PROVE  RunHolds(runs[i])'
    <2>1. RunHolds(runs'[i])
      BY <1>2 DEF IndInv, StackHolds
    <2> QED
      BY <2>1 DEF RunHolds, Low
  <1>5. RunsWait'
    <2>1. ~closing'
      BY DEF IndInv, RunsWait
    <2> QED
      BY <2>1, <1>1, <1>2 DEF IndInv, RunsWait
  <1> QED
    BY <1>3, <1>4, <1>5 DEF IndInv, StackHolds

LEMMA InnermostFacts ==
    ASSUME CallbackConstants, IndInv, runs # <<>>
    PROVE  /\ Len(runs) \in DOMAIN runs /\ Innermost \in Runs /\ RunHolds(Innermost)
           /\ Innermost.todo # NULL => Innermost.at = NULL
  <1>1. Len(runs) \in DOMAIN runs
    BY DEF IndInv, TypeOK
  <1> QED
    BY <1>1, RunFacts DEF Innermost, IndInv, StackHolds, RunsWait

\* Going down to the next entry.
LEMMA DescendStep ==
    ASSUME CallbackConstants, IndInv, Descend
    PROVE  IndInv'
  <1> USE InstalledFacts
  <1> DEFINE r == Innermost
             s == [r EXCEPT !.todo = entry[@].prev, !.due = <<r.todo>> \o @]
             m == Len(r.due)
  <1>1. runs # <<>> /\ r.todo # NULL /\ runs' = WithInnermost(s)
        /\ UNCHANGED <<entry, cb, closing, installed>>
    BY DEF Descend
  <1>2. r \in Runs /\ RunHolds(r) /\ r.at = NULL
    BY <1>1, InnermostFacts
  <1>3. /\ r.past = 0 /\ Low(r) = r.top - m /\ Low(r) \in 1..Len(installed)
        /\ r.todo = installed[Low(r)].at /\ m \in Nat /\ r.top \in Nat
        /\ r.due \in Seq(Address) /\ DOMAIN r.due = 1..m
    BY <1>1, <1>2 DEF RunHolds, Low, Runs
  <1>4. entry[r.todo].prev = At(Low(r) - 1)
    <2>1. LinksHold /\ Low(r) \in DOMAIN installed
      BY <1>3 DEF IndInv, StackHolds
    <2>2. entry[installed[Low(r)].at] = [f |-> installed[Low(r)].f, prev |-> At(Low(r) - 1)]
      BY <2>1 DEF LinksHold
    <2> QED
      BY <2>2, <1>3
  <1>5. At(Low(r) - 1) \in Address \cup {NULL} /\ (At(Low(r) - 1) = NULL <=> Low(r) = 1)
    BY <1>3 DEF At
  <1>6. /\ <<r.todo>> \o r.due \in Seq(Address) /\ Len(<<r.todo>> \o r.due) = m + 1
        /\ \A k \in 1..(m + 1) : (<<r.todo>> \o r.due)[k] = IF k = 1 THEN r.todo ELSE r.due[k - 1]
    <2>1. r.todo \in Address
      BY <1>3
    <2> QED
      BY <2>1, <1>3
  <1>7. /\ s.todo = At(Low(r) - 1) /\ s.due = <<r.todo>> \o r.due /\ s.past = 0
        /\ s.top = r.top /\ s.at = NULL /\ s \in Runs
    BY <1>2, <1>3, <1>4, <1>5, <1>6 DEF Runs
  <1> HIDE DEF s
  <1>8. Low(s) = Low(r) - 1
    BY <1>3, <1>5, <1>6, <1>7 DEF Low
  <1>9. RunHolds(s)
    <2>1. s.todo # NULL => Low(s) \in DOMAIN installed /\ s.todo = installed[Low(s)].at
      BY <1>3, <1>5, <1>7, <1>8 DEF At
    <2>2. DOMAIN s.due = 1..(m + 1)
      BY <1>6, <1>7
    <2>3. ASSUME NEW k \in DOMAIN s.due
          PROVE  Low(s) + k \in DOMAIN installed /\ s.due[k] = installed[Low(s) + k].at
      <3>1. CASE k = 1
        BY <3>1, <1>3, <1>6, <1>7, <1>8
      <3>2. CASE k \in 2..(m + 1)
        <4>1. k - 1 \in DOMAIN r.due /\ Low(r) + (k - 1) = Low(s) + k
          BY <3>2, <1>3, <1>8
        <4> QED
          BY <3>2, <4>1, <1>2, <1>6, <1>7 DEF RunHolds
      <3> QED
        BY <3>1, <3>2, <2>2, <1>3
    <2> QED
      <3>1. Low(s) + Len(s.due) = s.top
        <4>1. Low(s) = (r.top - m) - 1
          BY <1>3, <1>8
        <4>2. Len(s.due) = m + 1 /\ s.top = r.top
          BY <1>6, <1>7
        <4>3. r.top \in Nat /\ m \in Nat
          BY <1>3
        <4> HIDE DEF r, m
        <4> QED
          BY <4>1, <4>2, <4>3
      <3> QED
        BY <2>1, <2>3, <3>1, <1>7 DEF RunHolds
  <1> QED
    BY <1>1, <1>7, <1>9, InnermostStep

\* Coming back to an entry.
LEMMA CallStep ==
    ASSUME CallbackConstants, IndInv, Call
    PROVE  IndInv'
  <1> USE InstalledFacts
  <1> DEFINE r == Innermost
             s == [r EXCEPT !.at = IF r.method \in Methods[entry[Head(r.due)].f]
                                   THEN Head(r.due) ELSE NULL,
                            !.due = Tail(@), !.past = @ + 1]
             m == Len(r.due)
  <1>1. runs # <<>> /\ r.todo = NULL /\ r.due # <<>> /\ runs' = WithInnermost(s)
        /\ UNCHANGED <<entry, cb, closing, installed>>
    BY DEF Call
  <1>2. r \in Runs /\ RunHolds(r) /\ Low(r) = r.past
    BY <1>1, InnermostFacts DEF Low
  <1>3. /\ r.due \in Seq(Address) /\ m \in Nat \ {0} /\ r.past \in Nat /\ r.top \in Nat
        /\ DOMAIN r.due = 1..m
    BY <1>1, <1>2 DEF Runs
  <1>4. /\ Head(r.due) \in Address /\ Tail(r.due) \in Seq(Address) /\ Len(Tail(r.due)) = m - 1
        /\ \A k \in 1..(m - 1) : Tail(r.due)[k] = r.due[k + 1]
    BY <1>1, <1>3
  <1>5. /\ s \in Runs /\ s.todo = NULL /\ s.due = Tail(r.due) /\ s.past = r.past + 1
        /\ s.top = r.top
    <2>1. PICK x \in Address \cup {NULL} :
             x = IF r.method \in Methods[entry[Head(r.due)].f] THEN Head(r.due) ELSE NULL
      BY <1>4
    <2>2. s = [r EXCEPT !.at = x, !.due = Tail(@), !.past = @ + 1]
      BY <2>1
    <2>3. r.past + 1 \in Nat
      BY <1>3
    <2> QED
      BY <2>2, <2>3, <1>1, <1>2, <1>4 DEF Runs
  <1> HIDE DEF s
  <1>6. RunHolds(s)
    <2>1. Low(s) = r.past + 1 /\ DOMAIN s.due = 1..(m - 1)
      BY <1>3, <1>4, <1>5 DEF Low
    <2>2. ASSUME NEW k \in DOMAIN s.due
          PROVE  Low(s) + k \in DOMAIN installed /\ s.due[k] = installed[Low(s) + k].at
      <3>1. k + 1 \in DOMAIN r.due /\ Low(r) + (k + 1) = Low(s) + k /\ s.due[k] = r.due[k + 1]
        <4>1. k \in 1..(m - 1) /\ k + 1 \in DOMAIN r.due
          BY <2>1, <1>3
        <4>2. Low(r) + (k + 1) = Low(s) + k
          BY <4>1, <2>1, <1>2, <1>3
        <4> QED
          BY <4>1, <4>2, <1>4, <1>5
      <3> QED
        BY <3>1, <1>2 DEF RunHolds
    <2> QED
      <3>1. Low(s) + Len(s.due) = s.top
        <4>1. r.past + m = r.top
          BY <1>2 DEF RunHolds
        <4> QED
          <5>1. Low(s) = r.past + 1 /\ Len(s.due) = m - 1 /\ s.top = r.top
            BY <2>1, <1>4, <1>5
          <5>2. r.past \in Nat /\ m \in Nat
            BY <1>3
          <5> HIDE DEF r, m
          <5> QED
            BY <4>1, <5>1, <5>2
      <3> QED
        BY <2>2, <3>1, <1>5 DEF RunHolds
  <1> QED
    BY <1>1, <1>5, <1>6, InnermostStep

LEMMA ReturnStep ==
    ASSUME CallbackConstants, IndInv, Return
    PROVE  IndInv'
  <1> DEFINE s == [Innermost EXCEPT !.at = NULL]
  <1>1. runs # <<>> /\ runs' = WithInnermost(s) /\ UNCHANGED <<entry, cb, closing, installed>>
    BY DEF Return
  <1>2. s \in Runs /\ s.at = NULL
    BY <1>1, InnermostFacts DEF Runs
  <1>3. RunHolds(s)
    BY <1>1, InnermostFacts DEF RunHolds, Low, Runs
  <1> QED
    BY <1>1, <1>2, <1>3, InnermostStep

\* A run begins.
LEMMA Start ==
    ASSUME CallbackConstants, IndInv, NEW m \in Method, agmethod(m)
    PROVE  IndInv'
  <1> USE InstalledFacts
  <1> DEFINE r == [method |-> m, todo |-> cb, due |-> <<>>, at |-> NULL,
                   top |-> Len(installed), past |-> 0]
  <1>1. Client /\ runs' = Append(runs, r) /\ UNCHANGED <<entry, cb, closing, installed>>
    BY DEF agmethod
  <1>2. r \in Runs /\ r.todo = cb /\ r.due = <<>> /\ r.at = NULL /\ r.top = Len(installed)
        /\ r.past = 0
    BY DEF IndInv, TypeOK, Runs
  <1>3. RunHolds(r)
    <2>1. cb = At(Len(installed))
      BY DEF IndInv, StackHolds, LinksHold
    <2>2. CASE Len(installed) = 0
      BY <2>1, <2>2, <1>2 DEF RunHolds, Low, At
    <2>3. CASE Len(installed) # 0
      BY <2>1, <2>3, <1>2 DEF RunHolds, Low, At
    <2> QED
      BY <2>2, <2>3
  <1> HIDE DEF r
  <1>4. /\ runs' \in Seq(Runs) /\ Len(runs) \in Nat /\ Len(runs') = Len(runs) + 1
        /\ DOMAIN runs' = 1..(Len(runs) + 1) /\ DOMAIN runs = 1..Len(runs)
        /\ runs'[Len(runs) + 1] = r /\ \A i \in DOMAIN runs : runs'[i] = runs[i]
    BY <1>1, <1>2 DEF IndInv, TypeOK
  <1>5. TypeOK' /\ EntriesApart' /\ LinksHold'
    BY <1>1, <1>4 DEF IndInv, TypeOK, EntriesApart, StackHolds, LinksHold, At
  <1>6. ASSUME NEW i \in DOMAIN runs'
        PROVE  RunHolds(runs[i])'
    <2>1. i = Len(runs) + 1 \/ i \in DOMAIN runs
      BY <1>4
    <2>2. RunHolds(runs'[i])
      BY <2>1, <1>3, <1>4 DEF IndInv, StackHolds
    <2> QED
      BY <2>2, <1>1 DEF RunHolds, Low
  <1>7. RunsWait'
    BY <1>1, <1>2, <1>4, ClientWaits DEF RunsWait, Client
  <1> QED
    BY <1>5, <1>6, <1>7 DEF IndInv, StackHolds

\* A run is over.
LEMMA FinishStep ==
    ASSUME CallbackConstants, IndInv, Finish
    PROVE  IndInv'
  <1>1. /\ runs # <<>> /\ runs' = SubSeq(runs, 1, Len(runs) - 1)
        /\ UNCHANGED <<entry, cb, closing, installed>>
    BY DEF Finish, Front
  <1>2. runs \in Seq(Runs) /\ Len(runs) \in Nat \ {0} /\ DOMAIN runs = 1..Len(runs)
    BY <1>1 DEF IndInv, TypeOK
  <1>3. /\ runs' \in Seq(Runs) /\ Len(runs') = Len(runs) - 1 /\ DOMAIN runs' = 1..(Len(runs) - 1)
        /\ \A i \in DOMAIN runs' : runs'[i] = runs[i]
    BY <1>1, <1>2
  <1>4. TypeOK' /\ EntriesApart' /\ LinksHold'
    BY <1>1, <1>3 DEF IndInv, TypeOK, EntriesApart, StackHolds, LinksHold, At
  <1>5. ASSUME NEW i \in DOMAIN runs'
        PROVE  RunHolds(runs[i])'
    <2>1. i \in DOMAIN runs
      BY <1>2, <1>3
    <2>2. RunHolds(runs'[i])
      BY <2>1, <1>3 DEF IndInv, StackHolds
    <2> QED
      BY <2>2, <1>1 DEF RunHolds, Low
  <1>6. RunsWait'
    BY <1>1, <1>2, <1>3 DEF IndInv, RunsWait
  <1> QED
    BY <1>4, <1>5, <1>6 DEF IndInv, StackHolds

----------------------------------------------------------------------------
(* Theorems                                                                *)

LEMMA Initially == Init => IndInv
  <1> SUFFICES ASSUME Init
               PROVE  IndInv
    OBVIOUS
  <1>1. /\ installed = <<>> /\ runs = <<>> /\ DOMAIN entry = {} /\ cb = NULL /\ ~closing
        /\ entry \in [{} -> Entries]
    BY DEF Init
  <1>2. Len(installed) = 0 /\ DOMAIN installed = {} /\ DOMAIN runs = {}
    BY <1>1
  <1>3. TypeOK
    <2>1. DOMAIN entry \subseteq Address /\ entry \in [DOMAIN entry -> Entries]
      BY <1>1
    <2>2. runs \in Seq(Runs) /\ installed \in Seq([f : Disc, at : Address])
      BY <1>1
    <2>3. cb \in Address \cup {NULL} /\ closing \in BOOLEAN
      BY DEF Init
    <2> QED
      BY <2>1, <2>2, <2>3 DEF TypeOK
  <1>4. LinksHold
    BY <1>1, <1>2 DEF LinksHold, At
  <1> QED
    BY <1>1, <1>2, <1>3, <1>4 DEF IndInv, EntriesApart, StackHolds, RunsWait

LEMMA StepKeeps ==
    ASSUME CallbackConstants, OnlyTop, IndInv, [Next]_vars
    PROVE  IndInv'
  <1>1. ASSUME NEW d \in Disc, NEW a \in Address, agpushdisc(d, a)
        PROVE  IndInv'
    BY <1>1, Push
  <1>2. ASSUME NEW d \in Disc, agpopdisc(d)
        PROVE  IndInv'
    <2>1. installed # <<>> /\ TopIsFree(d) /\ Client
      BY <1>2 DEF agpopdisc
    <2> QED
      BY <1>2, <2>1, ClientWaits, Pop DEF agpopdisc, TopIsFree
  <1>3. ASSUME NEW m \in Method, agmethod(m)
        PROVE  IndInv'
    BY <1>3, Start
  <1>4. CASE agclose
    <2>1. TypeOK' /\ EntriesApart' /\ RunsWait'
      BY <1>4 DEF agclose, IndInv, TypeOK, EntriesApart, RunsWait
    <2>2. StackHolds'
      BY <1>4 DEF agclose, IndInv, StackHolds, LinksHold, At
    <2> QED
      BY <2>1, <2>2 DEF IndInv
  <1>5. CASE PopLeft
    <2>1. runs = <<>> /\ cb # NULL
      BY <1>5 DEF PopLeft, IndInv, RunsWait
    <2>2. installed # <<>> /\ Last(installed).f = entry[cb].f /\ entry[cb].f \in Disc
      <3>1. Len(installed) \in DOMAIN installed /\ installed # <<>>
        BY <2>1, InstalledFacts DEF IndInv, StackHolds, LinksHold, At
      <3>2. cb = installed[Len(installed)].at
        BY <3>1, InstalledFacts DEF IndInv, StackHolds, LinksHold, At
      <3> QED
        <4>1. LinksHold
          BY DEF IndInv, StackHolds
        <4>2. entry[installed[Len(installed)].at]
              = [f |-> installed[Len(installed)].f, prev |-> At(Len(installed) - 1)]
          BY <3>1, <4>1 DEF LinksHold
        <4>3. entry[cb].f = installed[Len(installed)].f
          BY <3>2, <4>2
        <4> QED
          BY <3>1, <4>3, InstalledFacts DEF Last
    <2> QED
      BY <1>5, <2>1, <2>2, Pop DEF PopLeft
  <1>6. CASE UNCHANGED vars
    <2>1. TypeOK' /\ EntriesApart' /\ RunsWait'
      BY <1>6 DEF vars, IndInv, TypeOK, EntriesApart, RunsWait
    <2>2. StackHolds'
      BY <1>6 DEF vars, IndInv, StackHolds, LinksHold, At, RunHolds, Low
    <2> QED
      BY <2>1, <2>2 DEF IndInv
  <1> QED
    BY <1>1, <1>2, <1>3, <1>4, <1>5, <1>6, DescendStep, CallStep, ReturnStep, FinishStep DEF Next

\* While callers remove only the newest set of callbacks and none a run is yet to come to
\* (obj.c:213), IndInv, which the next theorem follows from, holds always.
THEOREM Inductive ==
    ASSUME CallbackConstants, OnlyTop
    PROVE  Spec => []IndInv
  <1>1. Init => IndInv
    BY Initially
  <1>2. IndInv /\ [Next]_vars => IndInv'
    BY StepKeeps
  <1> QED
    BY <1>1, <1>2, PTL DEF Spec

\* Then the stack is always what was pushed and not popped, and every run, however deeply
\* runs are nested and whatever methods push and pop, reads live entries in their order.
THEOREM StackIntact ==
    ASSUME CallbackConstants, OnlyTop
    PROVE  Spec => []StackHolds
  <1>1. IndInv => StackHolds
    BY DEF IndInv
  <1> QED
    BY <1>1, Inductive, PTL
============================================================================
