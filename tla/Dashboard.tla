----------------------------- MODULE Dashboard -----------------------------
(***************************************************************************)
(* One browser page (views/layout.html) against the server: it starts      *)
(* imports, polls each with an interval timer until it has ended, and      *)
(* loads the analysis that is selected.  Every call is asynchronous; its   *)
(* answer can be slow or get lost, the server can be restarted, and the    *)
(* page can be reloaded.                                                   *)
(*                                                                         *)
(* The imports are those of one pod, whose IDs differ in the number at the *)
(* end, the only case in which two imports can meet.  The server is that   *)
(* of ImportJobs reduced to what answers say: an import runs, publishes    *)
(* its result and ends, its record is found under its ID, its row stays,   *)
(* and pages list and open what is in the result map, with or without a    *)
(* row.  Which pod is chosen, texts, progress and charts are left out.     *)
(***************************************************************************)
EXTENDS Naturals, FiniteSetsExt

CONSTANTS N,            \* imports started from the page
          MaxPolls,     \* how many polls of one timer can be under way at once
          MaxLoads,     \* how many calls of loadInstance, when a user makes one more
          MaxFaults,    \* restarts and reloads
          MaxId,        \* the largest number of an ID (a bound of the model)
          None

ASSUME DashboardAssumptions ==
    /\ {N, MaxPolls, MaxLoads, MaxFaults} \subseteq Nat
    /\ MaxId \in Nat \ {0}
    /\ None \notin Nat

Imports == 1 .. N
Ids == 1 .. MaxId

VARIABLES
    \* the server
    run,        \* run[n]: "none", "running", "published", "done" or "error"
    record,     \* record[i]: the import whose record is stored under i, or None
    saved,      \* IDs with a row
    counters,   \* IDs with a result in memory
    \* the page
    importing,  \* "Start Analysis" is disabled
    import,     \* import[n]: where startImport and pollJob are
    id,         \* id[n]: the job_id of the answer
    poll,       \* poll[n][a]: how many status requests are out, of each stage in Answers
    instances,  \* the analyses in the sidebar
    currentInstance,
    loading,
    data,       \* the analysis that is shown
    error,
    load,       \* load[i]: how many calls of loadInstance(i) are out
    faults,     \* restarts and reloads so far
    \* what happened, for the properties
    gone,       \* IDs whose result was in memory until a restart took it
    lost,       \* imports that run although the page does not know of them
    late,       \* a poll was sent before the last one of its timer was answered
    raced       \* the loads that are under way were not all made one after the other

server == <<run, record, saved, counters, gone>>
selection == <<currentInstance, loading, data, error, load, raced>>
polling == <<import, id, poll, importing, lost, late>>
vars == <<server, selection, polling, instances, faults>>

\* A poll is under way or carries an answer: "wait" is 404 or a state that is no end.
Answers == {"sent", "wait", "done", "error"}

\* runJob has not ended.
Running(n) == run[n] \in {"running", "published"}

\* import[n] while the page waits for it.
Waiting == {"posted", "accepted", "polling"}
Followed == {n \in Imports : import[n] \in Waiting}

Polled(n) == \E a \in Answers : poll[n][a] > 0

Loading == {i \in Ids : load[i] > 0}

\* GetNextID.
NextId == Max(saved \cup {0}) + 1

\* instances[0] of the sorted list.
First(S) == Min(S)

----------------------------------------------------------------------------
(* loadInstance                                                            *)

LoadInstanceKeepingData(i) ==
    /\ load' = [load EXCEPT ![i] = @ + 1]
    /\ currentInstance' = i
    /\ loading' = TRUE
    /\ error' = FALSE
    /\ data' = data
    /\ raced' = (Loading # {})

LoadInstance(i) ==
    /\ load' = [load EXCEPT ![i] = @ + 1]
    /\ currentInstance' = i
    /\ loading' = TRUE
    /\ error' = FALSE
    /\ data' = None
    /\ raced' = (Loading # {})

\* A click in the sidebar.
Select(i) ==
    /\ i \in instances
    /\ MapThenSumSet(LAMBDA j : load[j], Ids) < MaxLoads
    /\ LoadInstance(i)
    /\ UNCHANGED <<server, polling, instances, faults>>

\* The response is good: apiAnalysis has found the ID in the result map.
Loaded(i) ==
    /\ load[i] > 0
    /\ i \in counters
    /\ data' = i
    /\ loading' = FALSE
    /\ load' = [load EXCEPT ![i] = @ - 1]
    /\ UNCHANGED <<currentInstance, error, raced, server, polling, instances, faults>>

\* No response, or not a good one.
LoadFailed(i) ==
    /\ load[i] > 0
    /\ error' = TRUE
    /\ loading' = FALSE
    /\ load' = [load EXCEPT ![i] = @ - 1]
    /\ UNCHANGED <<currentInstance, data, raced, server, polling, instances, faults>>

----------------------------------------------------------------------------
(* startImport                                                             *)

StartImportAnyTime(n) ==
    /\ import[n] = "idle" /\ \A m \in Imports : m < n => import[m] # "idle"
    /\ importing' = TRUE
    /\ import' = [import EXCEPT ![n] = "posted"]
    /\ UNCHANGED <<id, poll, lost, late, server, selection, instances, faults>>

\* The button is enabled; the imports are numbered in the order of the clicks.
StartImport(n) ==
    /\ ~importing
    /\ import[n] = "idle" /\ \A m \in Imports : m < n => import[m] # "idle"
    /\ importing' = TRUE
    /\ import' = [import EXCEPT ![n] = "posted"]
    /\ UNCHANGED <<id, poll, lost, late, server, selection, instances, faults>>

\* startJobHandler: the job gets its ID and its record and runs.
ServeStart(n) ==
    /\ import[n] = "posted"
    /\ NextId \in Ids
    /\ import' = [import EXCEPT ![n] = "accepted"]
    /\ id' = [id EXCEPT ![n] = NextId]
    /\ run' = [run EXCEPT ![n] = "running"]
    /\ record' = [record EXCEPT ![NextId] = n]
    /\ UNCHANGED <<saved, counters, gone, poll, importing, lost, late, selection, instances, faults>>

\* The page gets the answer and sets the timer.
PollJob(n) ==
    /\ import[n] = "accepted"
    /\ import' = [import EXCEPT ![n] = "polling"]
    /\ UNCHANGED <<id, poll, importing, lost, late, server, selection, instances, faults>>

\* No answer, or an error: also when the server has taken the job.
StartFailed(n) ==
    /\ import[n] \in {"posted", "accepted"}
    /\ import' = [import EXCEPT ![n] = "ended"]
    /\ importing' = FALSE
    /\ lost' = IF import[n] = "accepted" THEN lost \cup {n} ELSE lost
    /\ UNCHANGED <<id, poll, late, server, selection, instances, faults>>

----------------------------------------------------------------------------
(* pollJob                                                                 *)

\* The timer fires, whether or not the last poll has been answered.
Tick(n) ==
    /\ import[n] = "polling"
    /\ MapThenSumSet(LAMBDA a : poll[n][a], Answers) < MaxPolls
    /\ poll' = [poll EXCEPT ![n]["sent"] = @ + 1]
    /\ late' = (late \/ Polled(n))
    /\ UNCHANGED <<import, id, importing, lost, server, selection, instances, faults>>

\* statusJobHandler: the state in the record under the ID, or 404.
Status(n) ==
    LET owner == record[id[n]] IN
    IF owner # None /\ run[owner] \in {"done", "error"} THEN run[owner] ELSE "wait"

ServePoll(n) ==
    /\ poll[n]["sent"] > 0
    /\ poll' = [poll EXCEPT ![n]["sent"] = @ - 1, ![n][Status(n)] = @ + 1]
    /\ UNCHANGED <<import, id, importing, lost, late, server, selection, instances, faults>>

\* Not the end, or no answer at all: wait for the next tick.
PollAgain(n, a) ==
    /\ poll[n][a] > 0
    /\ poll' = [poll EXCEPT ![n][a] = @ - 1]
    /\ UNCHANGED <<import, id, importing, lost, late, server, selection, instances, faults>>

PollDoneUnlisted(n) ==
    /\ poll[n]["done"] > 0
    /\ poll' = [poll EXCEPT ![n]["done"] = @ - 1]
    /\ import' = [import EXCEPT ![n] = "ended"]
    /\ importing' = FALSE
    /\ LoadInstance(id[n])
    /\ UNCHANGED <<id, lost, late, instances, server, faults>>

\* The import is done, also when its timer was cleared before.
PollDone(n) ==
    /\ poll[n]["done"] > 0
    /\ poll' = [poll EXCEPT ![n]["done"] = @ - 1]
    /\ import' = [import EXCEPT ![n] = "ended"]
    /\ importing' = FALSE
    /\ instances' = instances \cup {id[n]}
    /\ LoadInstance(id[n])
    /\ UNCHANGED <<id, lost, late, server, faults>>

PollErrorRetrying(n) ==
    /\ poll[n]["error"] > 0
    /\ poll' = [poll EXCEPT ![n]["error"] = @ - 1]
    /\ UNCHANGED <<import, importing, id, lost, late, server, selection, instances, faults>>

PollError(n) ==
    /\ poll[n]["error"] > 0
    /\ poll' = [poll EXCEPT ![n]["error"] = @ - 1]
    /\ import' = [import EXCEPT ![n] = "ended"]
    /\ importing' = FALSE
    /\ UNCHANGED <<id, lost, late, server, selection, instances, faults>>

----------------------------------------------------------------------------
(* The page is opened or reloaded, the server works and is restarted.      *)

\* Nothing is outstanding; init() loads the first instance of the list, which
\* index takes from the result map: LoadHistory may have skipped a row.
Init ==
    /\ saved \in {{}, {1}} /\ counters \in SUBSET saved
    /\ run = [n \in Imports |-> "none"]
    /\ record = [i \in Ids |-> None]
    /\ importing = FALSE
    /\ import = [n \in Imports |-> "idle"]
    /\ id = [n \in Imports |-> None]
    /\ poll = [n \in Imports |-> [a \in Answers |-> 0]]
    /\ instances = counters
    /\ currentInstance = IF counters = {} THEN None ELSE First(counters)
    /\ loading = (counters # {})
    /\ load = [i \in Ids |-> IF i = currentInstance THEN 1 ELSE 0]
    /\ data = None
    /\ error = FALSE
    /\ faults = 0
    /\ gone = {} /\ lost = {} /\ late = FALSE /\ raced = FALSE

\* Answers to the old page reach nobody.
Reload ==
    /\ faults < MaxFaults
    /\ faults' = faults + 1
    /\ importing' = FALSE
    /\ import' = [n \in Imports |-> IF n \in Followed THEN "ended" ELSE import[n]]
    /\ lost' = lost \cup {n \in Followed : import[n] # "posted"}
    /\ poll' = [n \in Imports |-> [a \in Answers |-> 0]]
    /\ instances' = counters
    /\ data' = None /\ error' = FALSE /\ raced' = FALSE
    /\ currentInstance' = IF counters = {} THEN None ELSE First(counters)
    /\ loading' = (counters # {})
    /\ load' = [i \in Ids |-> IF i = currentInstance' THEN 1 ELSE 0]
    /\ UNCHANGED <<id, late, server>>

\* counters.Set: before the row is saved, and whatever comes of that.
Publish(n) ==
    /\ run[n] = "running"
    /\ run' = [run EXCEPT ![n] = "published"]
    /\ counters' = counters \cup {id[n]}
    /\ gone' = gone \ {id[n]}
    /\ UNCHANGED <<record, saved, selection, polling, instances, faults>>

DoneAnyTime(n) ==
    /\ Running(n)
    /\ run' = [run EXCEPT ![n] = "done"]
    /\ saved' = saved \cup {id[n]}
    /\ UNCHANGED <<record, counters, gone, selection, polling, instances, faults>>

\* SaveAnalysis succeeds, and the end is shown.
Done(n) ==
    /\ run[n] = "published"
    /\ run' = [run EXCEPT ![n] = "done"]
    /\ saved' = saved \cup {id[n]}
    /\ UNCHANGED <<record, counters, gone, selection, polling, instances, faults>>

\* SaveAnalysis fails: the result stays in memory, without a row.
SaveFail(n) ==
    /\ run[n] = "published"
    /\ run' = [run EXCEPT ![n] = "error"]
    /\ UNCHANGED <<record, saved, counters, gone, selection, polling, instances, faults>>

\* runJob returns with an error before there is a result.
Fail(n) ==
    /\ run[n] = "running"
    /\ run' = [run EXCEPT ![n] = "error"]
    /\ UNCHANGED <<record, saved, counters, gone, selection, polling, instances, faults>>

\* The process is killed and started again: rows are all that is left, and
\* LoadHistory skips those it cannot read.
Restart ==
    /\ faults < MaxFaults
    /\ faults' = faults + 1
    /\ run' = [n \in Imports |-> IF Running(n) THEN "none" ELSE run[n]]
    /\ record' = [i \in Ids |-> None]
    /\ counters' \in SUBSET saved
    /\ gone' = (gone \cup counters) \ counters'
    /\ UNCHANGED <<saved, selection, polling, instances>>

\* Nothing is under way and nobody does anything more.
Rest ==
    /\ Followed = {}
    /\ \A n \in Imports : import[n] = "ended" /\ ~Running(n)
    /\ Loading = {}
    /\ UNCHANGED vars

----------------------------------------------------------------------------
Answer(n) == ServePoll(n) \/ PollAgain(n, "sent") \/ PollAgain(n, "wait") \/ PollDone(n) \/ PollError(n)

Import(n) == ServeStart(n) \/ PollJob(n) \/ StartFailed(n)

Load(i) == Loaded(i) \/ LoadFailed(i)

RunJob(n) == Publish(n) \/ Done(n) \/ SaveFail(n) \/ Fail(n)

Next ==
    \/ \E n \in Imports : \/ StartImport(n) \/ Import(n)
                         \/ Tick(n) \/ Answer(n)
                         \/ RunJob(n)
    \/ \E i \in Ids : Select(i) \/ Load(i)
    \/ Reload
    \/ Restart
    \/ Rest

(* An import of a server that is not restarted ends, the timer fires, and  *)
(* calls are answered or fail.  Polls can fail, but not all of them: one   *)
(* that could be answered with an end again and again will be.             *)
Fairness ==
    /\ \A n \in Imports :
         /\ WF_vars(RunJob(n))
         /\ WF_vars(Import(n))
         /\ WF_vars(Tick(n))
         /\ SF_vars(ServePoll(n))
         /\ SF_vars(PollDone(n) \/ PollError(n))
         /\ WF_vars(Answer(n))
    /\ \A i \in Ids : WF_vars(Load(i))

Spec == Init /\ [][Next]_vars /\ Fairness

----------------------------------------------------------------------------
(* Properties.                                                             *)

\* Every variable has its type.
TypeOK ==
    /\ run \in [Imports -> {"none", "running", "published", "done", "error"}]
    /\ record \in [Ids -> Imports \cup {None}]
    /\ saved \subseteq Ids /\ counters \subseteq Ids /\ gone \subseteq Ids /\ instances \subseteq Ids
    /\ faults \in 0 .. MaxFaults
    /\ importing \in BOOLEAN
    /\ import \in [Imports -> {"idle", "ended"} \cup Waiting]
    /\ id \in [Imports -> Ids \cup {None}]
    /\ poll \in [Imports -> [Answers -> Nat]]
    /\ currentInstance \in instances \cup {None}
    /\ loading \in BOOLEAN /\ error \in BOOLEAN
    /\ data \in instances \cup {None}
    /\ load \in [Ids -> Nat] /\ Loading \subseteq instances
    /\ lost \subseteq Imports /\ late \in BOOLEAN /\ raced \in BOOLEAN

(* The page is what keeps a user from importing a pod twice at once        *)
(* (layout.html:701), which the server does not check.  As long as every   *)
(* poll is answered before the next tick of its timer, the button is       *)
(* disabled exactly while the page waits for an import, it waits for one   *)
(* at most, and no other import of it runs on the server but those whose   *)
(* answer got lost and those of a page that was reloaded.                  *)
OneImport ==
    late \/ /\ importing <=> Followed # {}
            /\ \A m, n \in Followed : m = n
            /\ \A n \in Imports : Running(n) /\ n \notin lost => n \in Followed

(* What the sidebar lists, the server has.  The page adds an import that   *)
(* is reported done to its list by itself, whereas index and apiAnalysis   *)
(* look at the result map and neither of them at the table.  A listed      *)
(* analysis is missing from the map only if a restart took it away: its    *)
(* save had failed after it was published, or its row could not be read.   *)
ListedCanBeOpened == instances \subseteq counters \cup gone

(* What the page shows belongs to what is selected, and the spinner turns  *)
(* exactly while it is loaded, unless an instance was selected before the  *)
(* one selected earlier had been loaded.                                   *)
PageMatchesSelection ==
    raced \/ /\ data \in {None, currentInstance}
             /\ \A i \in Loading : i = currentInstance /\ load[i] = 1
             /\ loading <=> Loading # {}
             /\ ~(loading /\ error) /\ (loading \/ error => data = None)

(* The page does not wait for ever: an import it polls ends on the page    *)
(* too, unless a restart of the server has taken its record, the finished  *)
(* one then is in the sidebar, and the spinner stops.                      *)
PageSettles ==
    /\ \A n \in Imports :
         import[n] = "polling" ~>
             \/ import[n] = "ended" /\ (run[n] = "done" => id[n] \in instances)
             \/ id[n] \in Ids /\ record[id[n]] # n
    /\ loading ~> ~loading
=============================================================================
