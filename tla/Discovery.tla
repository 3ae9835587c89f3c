----------------------------- MODULE Discovery -----------------------------
(***************************************************************************)
(* GET /api/discovery: DiscoverRedisResources (server/k8s_discovery.go)    *)
(* and its cache, one row of the SQLite table discovery_cache              *)
(* (server/db.go).  Each request runs in a goroutine of its own; requests  *)
(* interleave, every kubectl call may fail, and the server may be killed   *)
(* and started again, which only the cache survives.                       *)
(*                                                                         *)
(* The pods of a StatefulSet are abstracted to the set itself and the time *)
(* at which kubectl read them.  A list is the set of its records, one per  *)
(* namespace; the order of records and pods is not modelled, and two sets  *)
(* have no pod in common.  kubectl has no timeout: that a request takes at *)
(* most MaxRun is an assumption about kubectl.                             *)
(***************************************************************************)
EXTENDS Naturals

CONSTANTS Requests,     \* as many as can be under way at once
          Sets,         \* the StatefulSets that can exist, with "redis" in their name
          Namespaces,
          NamespaceOf,  \* NamespaceOf[s]
          TTL,          \* POD_CACHE_DURATION
          MaxRun,       \* bound on the duration of one request
          MaxTime,      \* bound on the clock
          None

\* The pods of a set as they were at one time.
Pods == [set : Sets, seen : Nat]

\* DiscoveredRedis.
Groups == [namespace : Namespaces, pods : SUBSET Pods]

(* What a discovery has put together: the sets kubectl get sts returned,   *)
(* those whose pods it could not get, those without pods, and the result.  *)
Lists == [sets : SUBSET Sets, failed : SUBSET Sets, empty : SUBSET Sets,
          groups : SUBSET Groups]

ASSUME DiscoveryAssumptions ==
    /\ NamespaceOf \in [Sets -> Namespaces]
    /\ TTL \in Nat
    /\ MaxRun \in Nat
    /\ MaxTime \in Nat
    /\ None \notin [data : Lists, updated_at : Nat]

VARIABLES
    clock,
    cache,      \* the row of discovery_cache: data and updated_at, or None
    pc,         \* pc[r]: where the request is
    started,    \* started[r]: when the request missed the cache, while it runs
    todo,       \* todo[r]: the sets the loop has still to visit
    list        \* list[r]: results so far; the answer when pc[r] is "ok"

vars == <<clock, cache, pc, started, todo, list>>

Nothing == [sets |-> {}, failed |-> {}, empty |-> {}, groups |-> {}]

Running(r) == pc[r] \in {"list", "pods", "save"}

Init ==
    /\ clock = 0
    /\ cache = None
    /\ pc = [r \in Requests |-> "idle"]
    /\ started = [r \in Requests |-> 0]
    /\ todo = [r \in Requests |-> {}]
    /\ list = [r \in Requests |-> Nothing]

----------------------------------------------------------------------------
(* One request.                                                            *)

Goto(r, from, to) == pc[r] = from /\ pc' = [pc EXCEPT ![r] = to]

\* GetDiscoveryCache finds a row that has not expired.
Valid == cache # None /\ clock <= cache.updated_at + TTL

ServeAndStore(r, row) ==
    /\ Valid
    /\ Goto(r, "idle", "ok")
    /\ list' = [list EXCEPT ![r] = cache.data]
    /\ cache' = row
    /\ UNCHANGED <<clock, started, todo>>

ServeRefreshing(r) == ServeAndStore(r, [cache EXCEPT !.updated_at = clock])

Serve(r) == ServeAndStore(r, cache)

\* GetDiscoveryCache returns an error: no row, an expired one, or SQLite fails.
Miss(r) ==
    /\ Goto(r, "idle", "list")
    /\ started' = [started EXCEPT ![r] = clock]
    /\ UNCHANGED <<clock, cache, todo, list>>

\* kubectl get sts returns the sets there are at this time.
ListSets(r) ==
    /\ Goto(r, "list", "pods")
    /\ \E present \in SUBSET Sets :
         /\ todo' = [todo EXCEPT ![r] = present]
         /\ list' = [list EXCEPT ![r] = [Nothing EXCEPT !.sets = present]]
    /\ UNCHANGED <<clock, cache, started>>

\* kubectl get sts fails: the answer is an error.
ListFail(r) ==
    /\ Goto(r, "list", "idle")
    /\ started' = [started EXCEPT ![r] = 0]
    /\ UNCHANGED <<clock, cache, todo, list>>

\* The next round of the loop over the sets.
Visit(r, s, rest, l) ==
    /\ pc[r] = "pods"
    /\ s \in todo[r]
    /\ todo' = [todo EXCEPT ![r] = rest]
    /\ list' = [list EXCEPT ![r] = l]
    /\ UNCHANGED <<clock, cache, pc, started>>

MergeAdding(groups, n, p) == groups \cup {[namespace |-> n, pods |-> {p}]}

\* p goes to the record of namespace n, which is made if there is none.
Merge(groups, n, p) ==
    IF \E g \in groups : g.namespace = n
    THEN {IF g.namespace = n THEN [g EXCEPT !.pods = @ \cup {p}] ELSE g : g \in groups}
    ELSE groups \cup {[namespace |-> n, pods |-> {p}]}

PodsFound(r, s) ==
    Visit(r, s, todo[r] \ {s},
          [list[r] EXCEPT !.groups = Merge(@, NamespaceOf[s], [set |-> s, seen |-> clock])])

\* The set has no pods, or no label selector to find them by.
NoPods(r, s) == Visit(r, s, todo[r] \ {s}, [list[r] EXCEPT !.empty = @ \cup {s}])

\* kubectl get pods fails, or its output cannot be decoded: the set is skipped.
PodsFailBreaking(r, s) == Visit(r, s, {}, [list[r] EXCEPT !.failed = @ \cup {s}])

PodsFail(r, s) == Visit(r, s, todo[r] \ {s}, [list[r] EXCEPT !.failed = @ \cup {s}])

LoopEnd(r) ==
    /\ todo[r] = {}
    /\ Goto(r, "pods", "save")
    /\ UNCHANGED <<clock, cache, started, todo, list>>

\* SaveDiscoveryCache, stamped by SQLite; its error is not looked at.
SaveStamped(r, time) ==
    /\ Goto(r, "save", "ok")
    /\ cache' \in {cache, [data |-> list[r], updated_at |-> time]}
    /\ started' = [started EXCEPT ![r] = 0]
    /\ UNCHANGED <<clock, todo, list>>

SaveExpiry(r) == SaveStamped(r, clock + TTL)

Save(r) == SaveStamped(r, clock)

\* A request arrives.
Enter(r) == Serve(r) \/ Miss(r)

\* discoveryHandler writes the list; the goroutine is gone.
Reply(r) ==
    /\ Goto(r, "ok", "idle")
    /\ list' = [list EXCEPT ![r] = Nothing]
    /\ UNCHANGED <<clock, cache, started, todo>>

Handle(r) == \/ ListSets(r) \/ ListFail(r)
             \/ \E s \in Sets : PodsFound(r, s) \/ NoPods(r, s) \/ PodsFail(r, s)
             \/ LoopEnd(r) \/ Save(r) \/ Reply(r)

----------------------------------------------------------------------------
(* Time passes, but not while an answer is on its way, and as far as no    *)
(* request has run for MaxRun.                                             *)
Tick ==
    /\ clock < MaxTime
    /\ \A r \in Requests : pc[r] # "ok"
    /\ \A r \in Requests : Running(r) => clock < started[r] + MaxRun
    /\ clock' = clock + 1
    /\ UNCHANGED <<cache, pc, started, todo, list>>

\* The server is killed and started again: InitDB keeps the table.
Crash ==
    /\ pc' = [r \in Requests |-> "idle"]
    /\ started' = [r \in Requests |-> 0]
    /\ todo' = [r \in Requests |-> {}]
    /\ list' = [r \in Requests |-> Nothing]
    /\ UNCHANGED <<clock, cache>>

Next == \/ \E r \in Requests : Enter(r) \/ Handle(r)
        \/ Tick \/ Crash

Spec == Init /\ [][Next]_vars
----------------------------------------------------------------------------
(* Properties.                                                             *)

\* Every variable has its type, and nothing is stamped with a time to come.
TypeOK ==
    /\ clock \in 0 .. MaxTime
    /\ cache # None => cache \in [data : Lists, updated_at : 0 .. clock]
    /\ pc \in [Requests -> {"idle", "list", "pods", "save", "ok"}]
    /\ started \in [Requests -> 0 .. clock]
    /\ todo \in [Requests -> SUBSET Sets]
    /\ list \in [Requests -> Lists]

\* The pods of a list, whatever their namespace.
PodsOf(l) == UNION {g.pods : g \in l.groups}

(* No answer shows pods as they were longer ago than the cache duration    *)
(* plus the time one discovery takes, although the row is stamped when it  *)
(* is written, not when the cluster was read, although an older discovery  *)
(* can replace the row of a newer one, and across restarts.                *)
AgeBounded ==
    \A r \in Requests : pc[r] = "ok" =>
        \A p \in PodsOf(list[r]) : clock <= p.seen + TTL + MaxRun

\* l has one record per namespace, with pods of that namespace only.
WellGrouped(l) ==
    /\ \A g, h \in l.groups : g.namespace = h.namespace => g = h
    /\ \A g \in l.groups : \A p \in g.pods : NamespaceOf[p.set] = g.namespace

(* In an answer a namespace has one record, which is what the namespace    *)
(* and pod selectors of the dashboard rely on (find), and it holds the     *)
(* pods of that namespace only.                                            *)
NamespacesOnce == \A r \in Requests : pc[r] = "ok" => WellGrouped(list[r])

\* Every set that kubectl listed is in l, without pods, or was skipped.
Accounted(l) == l.sets = {p.set : p \in PodsOf(l)} \cup l.empty \cup l.failed

(* One failing set does not cost another one its place in the answer or in *)
(* the cache, and a list that is still being put together is never cached. *)
OnlyFailedAreMissing ==
    /\ \A r \in Requests : pc[r] = "ok" => Accounted(list[r])
    /\ cache # None => Accounted(cache.data)
=============================================================================
