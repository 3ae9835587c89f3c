-------------------------- MODULE DiscoveryProofs --------------------------
(***************************************************************************)
(* Proofs about Discovery, for every number of concurrent requests, every  *)
(* cluster and every cache duration.                                       *)
(*                                                                         *)
(* The invariant says of each list, while it is put together, in the cache *)
(* and in an answer, how old its pods can be, that its records are well    *)
(* grouped, and which sets it accounts for.                                *)
(***************************************************************************)
EXTENDS Discovery, TLAPS

----------------------------------------------------------------------------
(* What Merge does to a list.                                              *)

\* The list with the pods found for one set more.
Added(l, p) == [l EXCEPT !.groups = Merge(l.groups, NamespaceOf[p.set], p)]

\* Merge adds one pod to the record of its namespace and nothing else.
LEMMA MergeGroups ==
  ASSUME NEW groups \in SUBSET Groups, NEW n \in Namespaces, NEW p \in Pods
  PROVE  /\ Merge(groups, n, p) \in SUBSET Groups
         /\ \A x : (\E g \in Merge(groups, n, p) : x \in g.pods)
                     <=> (x = p \/ \E g \in groups : x \in g.pods)
<1> DEFINE To(g) == IF g.namespace = n THEN [g EXCEPT !.pods = @ \cup {p}] ELSE g
           New   == [namespace |-> n, pods |-> {p}]
<1>1. \A g \in Groups : /\ To(g) \in Groups
                        /\ To(g).pods = IF g.namespace = n THEN g.pods \cup {p} ELSE g.pods
  BY DEF Groups
<1>2. New \in Groups /\ New.pods = {p}
  BY DEF Groups
<1>3. CASE \E g \in groups : g.namespace = n
  <2>1. Merge(groups, n, p) = {To(g) : g \in groups}
    BY <1>3 DEF Merge
  <2> HIDE DEF To
  <2>2. Merge(groups, n, p) \in SUBSET Groups
    BY <1>1, <2>1
  <2>3. ASSUME NEW x, NEW g \in Merge(groups, n, p), x \in g.pods
        PROVE  x = p \/ \E h \in groups : x \in h.pods
    <3>1. PICK h \in groups : g = To(h)
      BY <2>1
    <3>2. g.pods = IF h.namespace = n THEN h.pods \cup {p} ELSE h.pods
      BY <1>1, <3>1
    <3> QED
      BY <2>3, <3>2
  <2>4. ASSUME NEW x, NEW h \in groups, x \in h.pods
        PROVE  \E g \in Merge(groups, n, p) : x \in g.pods
    <3>1. To(h) \in Merge(groups, n, p)
      BY <2>1
    <3>2. To(h).pods = IF h.namespace = n THEN h.pods \cup {p} ELSE h.pods
      BY <1>1
    <3> QED
      BY <2>4, <3>1, <3>2
  <2>5. \E g \in Merge(groups, n, p) : p \in g.pods
    <3>1. PICK h \in groups : h.namespace = n
      BY <1>3
    <3>2. To(h) \in Merge(groups, n, p)
      BY <2>1
    <3>3. To(h).pods = h.pods \cup {p}
      BY <1>1, <3>1
    <3> QED
      BY <3>2, <3>3
  <2> QED
    BY <2>2, <2>3, <2>4, <2>5
<1>4. CASE ~ \E g \in groups : g.namespace = n
  <2>1. Merge(groups, n, p) = groups \cup {New}
    BY <1>4 DEF Merge
  <2> HIDE DEF New
  <2> QED
    BY <1>2, <2>1
<1> QED
  BY <1>3, <1>4

\* Merge keeps the records of a well grouped list apart.
LEMMA MergeWellGrouped ==
  ASSUME NEW groups \in SUBSET Groups, NEW n \in Namespaces, NEW p \in Pods,
         NamespaceOf[p.set] = n,
         \A g, h \in groups : g.namespace = h.namespace => g = h,
         \A g \in groups : \A x \in g.pods : NamespaceOf[x.set] = g.namespace
  PROVE  /\ \A g, h \in Merge(groups, n, p) : g.namespace = h.namespace => g = h
         /\ \A g \in Merge(groups, n, p) : \A x \in g.pods : NamespaceOf[x.set] = g.namespace
<1> DEFINE To(g) == IF g.namespace = n THEN [g EXCEPT !.pods = @ \cup {p}] ELSE g
           New   == [namespace |-> n, pods |-> {p}]
<1>1. \A g \in Groups : /\ To(g).namespace = g.namespace
                        /\ To(g).pods = IF g.namespace = n THEN g.pods \cup {p} ELSE g.pods
  BY DEF Groups
<1>2. New.namespace = n /\ New.pods = {p}
  OBVIOUS
<1>3. CASE \E g \in groups : g.namespace = n
  <2>1. Merge(groups, n, p) = {To(g) : g \in groups}
    BY <1>3 DEF Merge
  <2> HIDE DEF To
  <2>2. ASSUME NEW g \in Merge(groups, n, p), NEW h \in Merge(groups, n, p),
               g.namespace = h.namespace
        PROVE  g = h
    <3>1. PICK g0 \in groups, h0 \in groups : g = To(g0) /\ h = To(h0)
      BY <2>1
    <3>2. g0.namespace = h0.namespace
      BY <1>1, <2>2, <3>1
    <3> QED
      BY <3>1, <3>2
  <2>3. ASSUME NEW g \in Merge(groups, n, p), NEW x \in g.pods
        PROVE  NamespaceOf[x.set] = g.namespace
    <3>1. PICK h \in groups : g = To(h)
      BY <2>1
    <3>2. /\ g.namespace = h.namespace
          /\ g.pods = IF h.namespace = n THEN h.pods \cup {p} ELSE h.pods
      BY <1>1, <3>1
    <3> QED
      BY <3>2
  <2> QED
    BY <2>2, <2>3
<1>4. CASE ~ \E g \in groups : g.namespace = n
  <2>1. Merge(groups, n, p) = groups \cup {New}
    BY <1>4 DEF Merge
  <2> HIDE DEF New
  <2> QED
    BY <1>2, <1>4, <2>1
<1> QED
  BY <1>3, <1>4

\* The list after the round for a set with pods has the pods of that set more.
LEMMA AddedList ==
  ASSUME NEW l \in Lists, NEW p \in Pods
  PROVE  /\ Added(l, p) \in Lists
         /\ PodsOf(Added(l, p)) = PodsOf(l) \cup {p}
         /\ WellGrouped(l) => WellGrouped(Added(l, p))
         /\ Added(l, p).sets = l.sets
         /\ Added(l, p).empty = l.empty
         /\ Added(l, p).failed = l.failed
<1>1. l.groups \in SUBSET Groups /\ NamespaceOf[p.set] \in Namespaces
  BY DiscoveryAssumptions DEF Lists, Pods
<1>2. PICK groups : groups = Merge(l.groups, NamespaceOf[p.set], p)
  OBVIOUS
<1>3. /\ groups \in SUBSET Groups
      /\ \A x : (\E g \in groups : x \in g.pods) <=> (x = p \/ \E g \in l.groups : x \in g.pods)
  <2>1. l.groups \in SUBSET Groups /\ NamespaceOf[p.set] \in Namespaces /\ p \in Pods
    BY <1>1
  <2>2. LET m == Merge(l.groups, NamespaceOf[p.set], p)
        IN  /\ m \in SUBSET Groups
            /\ \A x : (\E g \in m : x \in g.pods) <=> (x = p \/ \E g \in l.groups : x \in g.pods)
    BY <2>1, MergeGroups, Zenon
  <2> QED
    BY <1>2, <2>2
<1>4. WellGrouped(l) => /\ \A g, h \in groups : g.namespace = h.namespace => g = h
                        /\ \A g \in groups : \A x \in g.pods : NamespaceOf[x.set] = g.namespace
  BY <1>1, <1>2, MergeWellGrouped DEF WellGrouped
<1>5. Added(l, p) = [l EXCEPT !.groups = groups]
  BY <1>2 DEF Added
<1>6. /\ Added(l, p).groups = groups
      /\ Added(l, p).sets = l.sets
      /\ Added(l, p).empty = l.empty
      /\ Added(l, p).failed = l.failed
  BY <1>5 DEF Lists
<1>7. Added(l, p) \in Lists
  BY <1>3, <1>5 DEF Lists
<1>8. PodsOf(Added(l, p)) = PodsOf(l) \cup {p}
  BY <1>3, <1>6 DEF PodsOf
<1>9. WellGrouped(l) => WellGrouped(Added(l, p))
  BY <1>4, <1>6 DEF WellGrouped
<1> QED
  BY <1>6, <1>7, <1>8, <1>9

----------------------------------------------------------------------------
(* The inductive invariant.                                                *)

\* l was read from the cluster at t or later, and has one record per namespace.
Read(l, t) == WellGrouped(l) /\ \A p \in PodsOf(l) : t <= p.seen

(* A discovery under way runs for at most MaxRun, and its list was read    *)
(* since it started; its loop has lost no set.                             *)
Discovering(r) ==
    /\ Running(r) => clock <= started[r] + MaxRun
    /\ pc[r] \in {"pods", "save"} =>
         /\ Read(list[r], started[r])
         /\ list[r].sets = {p.set : p \in PodsOf(list[r])}
                             \cup list[r].empty \cup list[r].failed \cup todo[r]
    /\ pc[r] = "save" => todo[r] = {}

(* The cached list is accounted for, and at most MaxRun older than its     *)
(* stamp.                                                                  *)
Cached ==
    cache # None => /\ WellGrouped(cache.data)
                    /\ Accounted(cache.data)
                    /\ \A p \in PodsOf(cache.data) : cache.updated_at <= p.seen + MaxRun

\* So is a list that is on its way to a client.
Answered(r) ==
    pc[r] = "ok" => /\ WellGrouped(list[r])
                    /\ Accounted(list[r])
                    /\ \A p \in PodsOf(list[r]) : clock <= p.seen + TTL + MaxRun

IInv == TypeOK /\ Cached /\ \A r \in Requests : Discovering(r) /\ Answered(r)

----------------------------------------------------------------------------
(* Types.                                                                  *)

LEMMA TypesHoldInitially == Init => TypeOK
BY DiscoveryAssumptions DEF Init, TypeOK, Nothing, Lists

\* The parts a round of the loop changes keep their types.
LEMMA RoundTypes ==
  ASSUME TypeOK, NEW r \in Requests, NEW s \in Sets,
         PodsFound(r, s) \/ NoPods(r, s) \/ PodsFail(r, s)
  PROVE  TypeOK'
<1>1. list[r] \in Lists /\ [set |-> s, seen |-> clock] \in Pods
  BY DiscoveryAssumptions DEF TypeOK, Pods
<1>2. CASE PodsFound(r, s)
  <2>1. list' = [list EXCEPT ![r] = Added(list[r], [set |-> s, seen |-> clock])]
    BY <1>2 DEF PodsFound, Visit, Added
  <2>2. Added(list[r], [set |-> s, seen |-> clock]) \in Lists
    BY <1>1, AddedList
  <2> QED
    BY <1>2, <2>1, <2>2 DEF PodsFound, Visit, TypeOK
<1>3. CASE NoPods(r, s)
  <2>1. [list[r] EXCEPT !.empty = @ \cup {s}] \in Lists
    BY <1>1 DEF Lists
  <2> QED
    BY <1>3, <2>1 DEF NoPods, Visit, TypeOK
<1>4. CASE PodsFail(r, s)
  <2>1. [list[r] EXCEPT !.failed = @ \cup {s}] \in Lists
    BY <1>1 DEF Lists
  <2> QED
    BY <1>4, <2>1 DEF PodsFail, Visit, TypeOK
<1> QED
  BY <1>2, <1>3, <1>4

LEMMA TypesAreKept == TypeOK /\ [Next]_vars => TypeOK'
<1> SUFFICES ASSUME TypeOK, [Next]_vars PROVE TypeOK'
  OBVIOUS
<1> USE DiscoveryAssumptions
<1>1. ASSUME NEW r \in Requests, Serve(r) PROVE TypeOK'
  BY <1>1 DEF Serve, ServeAndStore, Valid, Goto, TypeOK
<1>2. ASSUME NEW r \in Requests, Miss(r) PROVE TypeOK'
  BY <1>2 DEF Miss, Goto, TypeOK
<1>3. ASSUME NEW r \in Requests, ListSets(r) PROVE TypeOK'
  <2>1. PICK present \in SUBSET Sets :
          /\ todo' = [todo EXCEPT ![r] = present]
          /\ list' = [list EXCEPT ![r] = [Nothing EXCEPT !.sets = present]]
    BY <1>3 DEF ListSets
  <2>2. [Nothing EXCEPT !.sets = present] \in Lists
    BY DEF Nothing, Lists
  <2> QED
    BY <1>3, <2>1, <2>2 DEF ListSets, Goto, TypeOK
<1>4. ASSUME NEW r \in Requests, ListFail(r) PROVE TypeOK'
  BY <1>4 DEF ListFail, Goto, TypeOK
<1>5. ASSUME NEW r \in Requests, NEW s \in Sets,
             PodsFound(r, s) \/ NoPods(r, s) \/ PodsFail(r, s)
      PROVE  TypeOK'
  BY <1>5, RoundTypes
<1>6. ASSUME NEW r \in Requests, LoopEnd(r) PROVE TypeOK'
  BY <1>6 DEF LoopEnd, Goto, TypeOK
<1>7. ASSUME NEW r \in Requests, Save(r) PROVE TypeOK'
  <2>1. list[r] \in Lists
    BY DEF TypeOK
  <2>2. cache' # None => cache' \in [data : Lists, updated_at : 0 .. clock]
    BY <1>7, <2>1 DEF Save, SaveStamped, TypeOK
  <2> QED
    BY <1>7, <2>2 DEF Save, SaveStamped, Goto, TypeOK
<1>8. ASSUME NEW r \in Requests, Reply(r) PROVE TypeOK'
  <2>1. Nothing \in Lists
    BY DEF Nothing, Lists
  <2> QED
    BY <1>8, <2>1 DEF Reply, Goto, TypeOK
<1>9. CASE Tick
  <2>1. clock' \in 0 .. MaxTime /\ 0 .. clock \subseteq 0 .. clock'
    BY <1>9 DEF Tick, TypeOK
  <2>2. cache' # None => cache' \in [data : Lists, updated_at : 0 .. clock']
    BY <1>9, <2>1 DEF Tick, TypeOK
  <2>3. started' \in [Requests -> 0 .. clock']
    BY <1>9, <2>1 DEF Tick, TypeOK
  <2> QED
    BY <1>9, <2>1, <2>2, <2>3 DEF Tick, TypeOK
<1>10. CASE Crash
  <2>1. Nothing \in Lists
    BY DEF Nothing, Lists
  <2> QED
    BY <1>10, <2>1 DEF Crash, TypeOK
<1>11. CASE UNCHANGED vars
  BY <1>11 DEF vars, TypeOK
<1> QED
  BY <1>1, <1>2, <1>3, <1>4, <1>5, <1>6, <1>7, <1>8, <1>9, <1>10, <1>11
  DEF Next, Enter, Handle

(* Every variable has its type, and nothing is stamped with a time to      *)
(* come, for any number of requests and any cluster.                       *)
THEOREM TypeCorrect == Spec => []TypeOK
BY TypesHoldInitially, TypesAreKept, PTL DEF Spec

----------------------------------------------------------------------------
(* The invariant is inductive.                                             *)

\* The step of a request leaves the others and the clock alone.
LEMMA OthersUntouched ==
  ASSUME TypeOK, NEW r \in Requests, Enter(r) \/ Handle(r),
         NEW q \in Requests, q # r
  PROVE  /\ clock' = clock /\ pc'[q] = pc[q] /\ started'[q] = started[q]
         /\ list'[q] = list[q] /\ todo'[q] = todo[q]
BY DEF TypeOK, Enter, Handle, Serve, ServeAndStore, Miss, ListSets, ListFail, PodsFound,
       NoPods, PodsFail, Visit, LoopEnd, Save, SaveStamped, Reply, Goto

\* What a list is made of.
LEMMA PodsAreSeen == ASSUME NEW l \in Lists PROVE PodsOf(l) \subseteq Pods
BY DEF PodsOf, Lists, Groups

\* A list just begun has no pods.
LEMMA BegunList ==
  ASSUME NEW present \in SUBSET Sets
  PROVE  LET l == [Nothing EXCEPT !.sets = present]
         IN  /\ PodsOf(l) = {} /\ WellGrouped(l)
             /\ l.sets = present /\ l.empty = {} /\ l.failed = {}
BY DEF Nothing, PodsOf, WellGrouped

\* A round of the loop moves its set from todo to where the list accounts for it.
LEMMA RoundKeepsDiscovering ==
  ASSUME TypeOK, NEW r \in Requests, Discovering(r), NEW s \in Sets,
         PodsFound(r, s) \/ NoPods(r, s) \/ PodsFail(r, s)
  PROVE  Discovering(r)'
<1>1. /\ pc[r] = "pods" /\ pc' = pc /\ clock' = clock /\ started' = started
      /\ s \in todo[r] /\ todo'[r] = todo[r] \ {s}
      /\ list[r] \in Lists /\ started[r] \in Nat /\ clock \in Nat /\ started[r] <= clock
  BY DiscoveryAssumptions DEF PodsFound, NoPods, PodsFail, Visit, TypeOK
<1>2. /\ Running(r) => clock <= started[r] + MaxRun
      /\ Read(list[r], started[r])
      /\ list[r].sets = {p.set : p \in PodsOf(list[r])}
                          \cup list[r].empty \cup list[r].failed \cup todo[r]
  BY <1>1 DEF Discovering
<1>3. /\ Read(list'[r], started[r])
      /\ list'[r].sets = {p.set : p \in PodsOf(list'[r])}
                           \cup list'[r].empty \cup list'[r].failed \cup (todo[r] \ {s})
  <2>1. CASE PodsFound(r, s)
    <3>1. PICK p \in Pods : p = [set |-> s, seen |-> clock]
      BY <1>1 DEF Pods
    <3>2. list'[r] = Added(list[r], p)
      BY <2>1, <3>1 DEF PodsFound, Visit, Added, TypeOK
    <3>3. /\ PodsOf(list'[r]) = PodsOf(list[r]) \cup {p}
          /\ WellGrouped(list[r]) => WellGrouped(list'[r])
          /\ list'[r].sets = list[r].sets
          /\ list'[r].empty = list[r].empty
          /\ list'[r].failed = list[r].failed
      BY <1>1, <3>2, AddedList
    <3>4. Read(list'[r], started[r])
      BY <1>1, <1>2, <3>1, <3>3 DEF Read
    <3>5. {x.set : x \in PodsOf(list'[r])} = {x.set : x \in PodsOf(list[r])} \cup {s}
      BY <3>1, <3>3
    <3> QED
      BY <1>1, <1>2, <3>3, <3>4, <3>5
  <2>2. CASE NoPods(r, s)
    <3>1. list'[r] = [list[r] EXCEPT !.empty = @ \cup {s}]
      BY <2>2 DEF NoPods, Visit, TypeOK
    <3>2. /\ list'[r].groups = list[r].groups /\ list'[r].sets = list[r].sets
          /\ list'[r].empty = list[r].empty \cup {s} /\ list'[r].failed = list[r].failed
      BY <1>1, <3>1 DEF Lists
    <3> QED
      BY <1>1, <1>2, <3>2 DEF Read, PodsOf, WellGrouped
  <2>3. CASE PodsFail(r, s)
    <3>1. list'[r] = [list[r] EXCEPT !.failed = @ \cup {s}]
      BY <2>3 DEF PodsFail, Visit, TypeOK
    <3>2. /\ list'[r].groups = list[r].groups /\ list'[r].sets = list[r].sets
          /\ list'[r].failed = list[r].failed \cup {s} /\ list'[r].empty = list[r].empty
      BY <1>1, <3>1 DEF Lists
    <3> QED
      BY <1>1, <1>2, <3>2 DEF Read, PodsOf, WellGrouped
  <2> QED
    BY <2>1, <2>2, <2>3
<1> QED
  BY <1>1, <1>2, <1>3 DEF Discovering, Running

\* A step of r keeps what is said of r's own discovery.
LEMMA OwnDiscovering ==
  ASSUME TypeOK, NEW r \in Requests, Discovering(r), Enter(r) \/ Handle(r)
  PROVE  Discovering(r)'
<1> USE DiscoveryAssumptions
<1>1. CASE Serve(r)
  BY <1>1 DEF Serve, ServeAndStore, Goto, Discovering, Running, TypeOK
<1>2. CASE Miss(r)
  BY <1>2 DEF Miss, Goto, Discovering, Running, TypeOK
<1>3. CASE ListSets(r)
  <2>1. PICK present \in SUBSET Sets :
          /\ todo' = [todo EXCEPT ![r] = present]
          /\ list' = [list EXCEPT ![r] = [Nothing EXCEPT !.sets = present]]
    BY <1>3 DEF ListSets
  <2>2. /\ PodsOf(list'[r]) = {} /\ WellGrouped(list'[r])
        /\ list'[r].sets = present /\ list'[r].empty = {} /\ list'[r].failed = {}
        /\ todo'[r] = present
    BY <2>1, BegunList DEF TypeOK
  <2>3. /\ clock' = clock /\ started' = started /\ pc[r] = "list" /\ pc'[r] = "pods"
    BY <1>3 DEF ListSets, Goto, TypeOK
  <2> QED
    BY <2>2, <2>3 DEF Discovering, Running, Read
<1>4. CASE ListFail(r)
  BY <1>4 DEF ListFail, Goto, Discovering, Running, TypeOK
<1>5. ASSUME NEW s \in Sets, PodsFound(r, s) \/ NoPods(r, s) \/ PodsFail(r, s)
      PROVE  Discovering(r)'
  BY <1>5, RoundKeepsDiscovering
<1>6. CASE LoopEnd(r)
  BY <1>6 DEF LoopEnd, Goto, Discovering, Running, TypeOK
<1>7. CASE Save(r)
  BY <1>7 DEF Save, SaveStamped, Goto, Discovering, Running, TypeOK
<1>8. CASE Reply(r)
  BY <1>8 DEF Reply, Goto, Discovering, Running, TypeOK
<1> QED
  BY <1>1, <1>2, <1>3, <1>4, <1>5, <1>6, <1>7, <1>8 DEF Enter, Handle

\* What is saved accounts for every set and is at most MaxRun old.
LEMMA SavedList ==
  ASSUME TypeOK, NEW r \in Requests, Discovering(r), pc[r] = "save"
  PROVE  /\ WellGrouped(list[r])
         /\ Accounted(list[r])
         /\ \A p \in PodsOf(list[r]) : clock <= p.seen + MaxRun
<1>1. list[r] \in Lists /\ started[r] \in Nat /\ clock \in Nat
  BY DiscoveryAssumptions DEF TypeOK
<1>2. ASSUME NEW p \in PodsOf(list[r]) PROVE clock <= p.seen + MaxRun
  <2>1. p.seen \in Nat
    BY <1>1, PodsAreSeen DEF Pods
  <2>2. clock <= started[r] + MaxRun /\ started[r] <= p.seen
    BY DEF Discovering, Running, Read
  <2> QED
    BY <1>1, <2>1, <2>2, DiscoveryAssumptions
<1> QED
  BY <1>2 DEF Discovering, Read, Accounted

\* A step of r keeps what is said of the cache.
LEMMA OwnCached ==
  ASSUME TypeOK, Cached, NEW r \in Requests, Discovering(r), Enter(r) \/ Handle(r)
  PROVE  Cached'
<1>1. CASE Save(r)
  <2>1. pc[r] = "save" /\ cache' \in {cache, [data |-> list[r], updated_at |-> clock]}
    BY <1>1 DEF Save, SaveStamped, Goto
  <2>2. CASE cache' = cache
    BY <2>2 DEF Cached, Accounted, PodsOf, WellGrouped
  <2>3. CASE cache' = [data |-> list[r], updated_at |-> clock]
    BY <2>1, <2>3, SavedList DEF Cached, Accounted, PodsOf, WellGrouped
  <2> QED
    BY <2>1, <2>2, <2>3
<1>2. CASE ~ Save(r)
  <2>1. cache' = cache
    BY <1>2 DEF Enter, Handle, Serve, ServeAndStore, Miss, ListSets, ListFail, PodsFound,
                NoPods, PodsFail, Visit, LoopEnd, Reply
  <2> QED
    BY <2>1 DEF Cached, Accounted, PodsOf, WellGrouped
<1> QED
  BY <1>1, <1>2

\* A step of r gives r's answer, from the cache or from the cluster, what is said of it.
LEMMA OwnAnswered ==
  ASSUME TypeOK, Cached, NEW r \in Requests, Discovering(r), Enter(r) \/ Handle(r)
  PROVE  Answered(r)'
<1>1. CASE Serve(r)
  <2>1. /\ list'[r] = cache.data /\ clock' = clock /\ cache # None
        /\ clock <= cache.updated_at + TTL
    BY <1>1 DEF Serve, ServeAndStore, Valid, TypeOK
  <2>2. cache.data \in Lists /\ cache.updated_at \in Nat /\ clock \in Nat
    BY <2>1, DiscoveryAssumptions DEF TypeOK
  <2>3. ASSUME NEW p \in PodsOf(cache.data) PROVE clock <= p.seen + TTL + MaxRun
    <3>1. p.seen \in Nat
      BY <2>2, PodsAreSeen DEF Pods
    <3>2. cache.updated_at <= p.seen + MaxRun
      BY <2>1 DEF Cached
    <3> QED
      BY <2>1, <2>2, <3>1, <3>2, DiscoveryAssumptions
  <2> QED
    BY <2>1, <2>3 DEF Answered, Cached, Accounted, PodsOf, WellGrouped
<1>2. CASE Save(r)
  <2>1. pc[r] = "save" /\ list' = list /\ clock' = clock
    BY <1>2 DEF Save, SaveStamped, Goto
  <2>2. ASSUME NEW p \in PodsOf(list[r]) PROVE clock <= p.seen + TTL + MaxRun
    <3>1. p.seen \in Nat /\ clock \in Nat
      BY PodsAreSeen, DiscoveryAssumptions DEF Pods, TypeOK
    <3>2. clock <= p.seen + MaxRun
      BY <2>1, SavedList
    <3> QED
      BY <3>1, <3>2, DiscoveryAssumptions
  <2> QED
    BY <2>1, <2>2, SavedList DEF Answered, Accounted, PodsOf, WellGrouped
<1>3. CASE ~ Serve(r) /\ ~ Save(r)
  <2>1. pc'[r] # "ok"
    BY <1>3 DEF Enter, Handle, Miss, ListSets, ListFail, PodsFound, NoPods, PodsFail,
                Visit, LoopEnd, Reply, Goto, TypeOK
  <2> QED
    BY <2>1 DEF Answered
<1> QED
  BY <1>1, <1>2, <1>3

LEMMA InvariantHoldsInitially == Init => IInv
BY TypesHoldInitially DEF Init, IInv, Cached, Discovering, Answered, Running

LEMMA InvariantIsKept == IInv /\ [Next]_vars => IInv'
<1> SUFFICES ASSUME IInv, [Next]_vars PROVE IInv'
  OBVIOUS
<1>1. TypeOK'
  BY TypesAreKept DEF IInv
<1>2. ASSUME NEW r \in Requests, Enter(r) \/ Handle(r) PROVE IInv'
  <2>1. Discovering(r)' /\ Answered(r)' /\ Cached'
    BY <1>2, OwnDiscovering, OwnAnswered, OwnCached DEF IInv
  <2>2. ASSUME NEW q \in Requests, q # r PROVE Discovering(q)' /\ Answered(q)'
    <3>1. /\ clock' = clock /\ pc'[q] = pc[q] /\ started'[q] = started[q]
          /\ list'[q] = list[q] /\ todo'[q] = todo[q]
      BY <1>2, <2>2, OthersUntouched DEF IInv
    <3>2. Discovering(q) /\ Answered(q)
      BY DEF IInv
    <3> QED
      BY <3>1, <3>2 DEF Discovering, Answered, Running, Read, Accounted, PodsOf, WellGrouped
  <2> QED
    BY <1>1, <2>1, <2>2 DEF IInv
<1>3. CASE Tick
  <2>1. /\ \A r \in Requests : pc[r] # "ok"
        /\ \A r \in Requests : Running(r) => clock < started[r] + MaxRun
        /\ clock' = clock + 1
        /\ cache' = cache /\ pc' = pc /\ started' = started /\ todo' = todo /\ list' = list
    BY <1>3 DEF Tick
  <2>2. Cached'
    BY <2>1 DEF IInv, Cached, Accounted, PodsOf, WellGrouped
  <2>3. ASSUME NEW r \in Requests PROVE Discovering(r)' /\ Answered(r)'
    <3>1. Discovering(r) /\ clock \in Nat /\ started[r] \in Nat
      BY DiscoveryAssumptions DEF IInv, TypeOK
    <3>2. Running(r) => clock + 1 <= started[r] + MaxRun
      BY <2>1, <3>1, DiscoveryAssumptions
    <3> QED
      BY <2>1, <3>1, <3>2 DEF Discovering, Answered, Running, Read, PodsOf, WellGrouped
  <2> QED
    BY <1>1, <2>2, <2>3 DEF IInv
<1>4. CASE Crash
  <2>1. Cached'
    BY <1>4 DEF Crash, IInv, Cached, Accounted, PodsOf, WellGrouped
  <2>2. ASSUME NEW r \in Requests PROVE Discovering(r)' /\ Answered(r)'
    BY <1>4 DEF Crash, Discovering, Answered, Running
  <2> QED
    BY <1>1, <2>1, <2>2 DEF IInv
<1>5. CASE UNCHANGED vars
  BY <1>1, <1>5 DEF vars, IInv, Cached, Discovering, Answered, Running, Read, Accounted,
                    PodsOf, WellGrouped
<1> QED
  BY <1>2, <1>3, <1>4, <1>5 DEF Next

LEMMA InvariantHolds == Spec => []IInv
BY InvariantHoldsInitially, InvariantIsKept, PTL DEF Spec

(* No answer shows pods as they were longer ago than the cache duration    *)
(* plus the time one discovery takes, for any number of interleaved        *)
(* requests and any number of restarts.                                    *)
THEOREM AnswersAreRecent == Spec => []AgeBounded
<1>1. IInv => AgeBounded
  BY DEF IInv, Answered, AgeBounded
<1> QED
  BY <1>1, InvariantHolds, PTL

\* No answer has two records of one namespace, or a pod under a foreign one.
THEOREM NamespacesAreOnce == Spec => []NamespacesOnce
<1>1. IInv => NamespacesOnce
  BY DEF IInv, Answered, NamespacesOnce
<1> QED
  BY <1>1, InvariantHolds, PTL

(* A set that was listed is in the answer, had no pods, or its own kubectl *)
(* call failed; the same holds of the cached list.                         *)
THEOREM NoSetIsLost == Spec => []OnlyFailedAreMissing
<1>1. IInv => OnlyFailedAreMissing
  BY DEF IInv, Answered, Cached, OnlyFailedAreMissing
<1> QED
  BY <1>1, InvariantHolds, PTL
=============================================================================
