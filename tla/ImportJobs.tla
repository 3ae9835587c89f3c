---------------------------- MODULE ImportJobs -----------------------------
(***************************************************************************)
(* The import jobs of server/job.go with the three stores they share:      *)
(*   - GlobalJobManager.jobs, the status records that clients poll,        *)
(*   - counters, the in-memory results that /api/analysis serves,          *)
(*   - the SQLite table history (server/db.go), which also hands out IDs,  *)
(* and the temporary file ./tmp/rdr_<ID>.rdb an import downloads to.       *)
(*                                                                         *)
(* One runJob goroutine runs per POST /api/job/start.  Jobs interleave,    *)
(* kubectl and SQLite may fail, the server may be killed at any point and  *)
(* started again; status records and counters are lost then, the table and *)
(* the temporary files are not.                                            *)
(*                                                                         *)
(* A dump's content is abstracted to the set of jobs whose download put    *)
(* bytes in it, so that a result "is" the set of downloads it was made of. *)
(***************************************************************************)
EXTENDS Naturals

CONSTANTS Jobs,        \* one identity per call of StartJob
          Prefixes,    \* <namespace>_<pod>_<date>
          MaxSeq,      \* bound on the number NN of an ID
          MaxCrashes,  \* bound on the number of crashes
          OneAtATime,  \* clients wait for a visible end before importing a pod again
          Faults,      \* the SQLite calls that may fail: "id", "save", "load"
          None

Ids == Prefixes \X (1 .. MaxSeq)

\* The contents a dump (and so a result) can have.
Dumps == SUBSET Jobs

States == {"checking", "downloading", "parsing", "done", "error"}

ASSUME JobAssumptions ==
    /\ MaxSeq \in Nat
    /\ MaxCrashes \in Nat
    /\ OneAtATime \in BOOLEAN
    /\ Faults \subseteq {"id", "save", "load"}
    /\ None \notin Jobs
    /\ None \notin Ids
    /\ None \notin States
    /\ \A d \in Dumps : d # None

VARIABLES
    up,         \* the server process runs
    crashes,    \* crashes so far
    pc,         \* pc[j]: where the goroutine of j is in runJob
    id,         \* id[j]: job.ID, chosen by GetNextID
    state,      \* state[j]: job.State, as a poll returns it
    jobs,       \* GlobalJobManager.jobs: ID -> job
    counters,   \* SafeMap counters: ID -> result
    history,    \* SQLite table history: ID -> result
    path,       \* directory ./tmp: ID -> file, a file being named by the job that created it
    bytes,      \* bytes[f]: the downloads that have bytes in file f
    file,       \* file[j]: the file kubectl cp (then runJob) of j holds open
    read,       \* read[j]: the downloads of which the parser of j has seen bytes
    told        \* IDs that some client has polled as done

vars == <<up, crashes, pc, id, state, jobs, counters, history, path, bytes, file, read, told>>

process == <<up, crashes>>
stores  == <<jobs, counters, history>>
disk    == <<path, bytes, file, read>>

----------------------------------------------------------------------------
(* Observations.                                                           *)

Locations == {"idle", "named", "checking", "downloading", "copying", "copied",
              "parsing", "published", "saved", "returning", "exited"}

\* runJob of j has been called and has not shown an end yet.
Busy(j) == pc[j] \in {"named", "checking", "downloading", "copying", "copied",
                      "parsing", "published", "saved"}

\* The rows of prefix p that GetNextID finds (LIKE 'p_%').
Used(p) == {n \in 1 .. MaxSeq : history[<<p, n>>] # None}

\* db.go:124-140: one more than the largest number of a saved analysis.
IsNextNoIncrement(p, n) == /\ \A m \in Used(p) : m <= n
                           /\ n = 1 \/ n \in Used(p)

IsNext(p, n) == /\ \A m \in Used(p) : m < n
                /\ n = 1 \/ n - 1 \in Used(p)

\* What GetNextID may return.  A failing query makes it answer _01 (db.go:119-121);
\* a failing Next or Scan, which nobody looks at, hides some of the rows.
NextNumbers(p) ==
    {n \in 1 .. MaxSeq : \/ IsNext(p, n)
                         \/ "id" \in Faults /\ (n = 1 \/ n - 1 \in Used(p))}

----------------------------------------------------------------------------
Init ==
    /\ up = TRUE
    /\ crashes = 0
    /\ pc = [j \in Jobs |-> "idle"]
    /\ id = [j \in Jobs |-> None]
    /\ state = [j \in Jobs |-> None]
    /\ jobs = [i \in Ids |-> None]
    /\ counters = [i \in Ids |-> None]
    /\ history = [i \in Ids |-> None]
    /\ path = [i \in Ids |-> None]
    /\ bytes = [j \in Jobs |-> {}]
    /\ file = [j \in Jobs |-> None]
    /\ read = [j \in Jobs |-> {}]
    /\ told = {}

\* The goroutine of j is at location `from` and goes on to `to`.
Step(j, from, to) == /\ up
                     /\ pc[j] \in from
                     /\ pc' = [pc EXCEPT ![j] = to]

Show(j, s) == state' = [state EXCEPT ![j] = s]

----------------------------------------------------------------------------
(* StartJob: the HTTP handler picks an ID, then stores the status record   *)
(* and starts the goroutine.                                               *)

GetNextIDLater(j, p) ==
    /\ OneAtATime => \A k \in Jobs : Busy(k) => id[k][1] # p
    /\ Step(j, {"idle"}, "named")
    /\ UNCHANGED <<process, id, state, stores, disk, told>>

GetNextID(j, p) ==
    /\ OneAtATime => \A k \in Jobs : Busy(k) => id[k][1] # p
    /\ Step(j, {"idle"}, "named")
    /\ \E n \in NextNumbers(p) : id' = [id EXCEPT ![j] = <<p, n>>]
    /\ UNCHANGED <<process, state, stores, disk, told>>

StoreJobUnlessPresent(j) ==
    /\ Step(j, {"named"}, "checking")
    /\ Show(j, "checking")
    /\ jobs' = [jobs EXCEPT ![id[j]] = IF @ = None THEN j ELSE @]
    /\ UNCHANGED <<process, id, counters, history, disk, told>>

StoreJob(j) ==
    /\ Step(j, {"named"}, "checking")
    /\ Show(j, "checking")
    /\ jobs' = [jobs EXCEPT ![id[j]] = j]
    /\ UNCHANGED <<process, id, counters, history, disk, told>>

----------------------------------------------------------------------------
(* runJob, 1: kubectl exec stat.  Failing, unreadable or above the limit:  *)
(* the goroutine returns before os.Remove is deferred.                     *)

CheckFail(j) ==
    /\ Step(j, {"checking"}, "exited")
    /\ Show(j, "error")
    /\ UNCHANGED <<process, id, stores, disk, told>>

CheckOk(j) ==
    /\ Step(j, {"checking"}, "downloading")
    /\ Show(j, "downloading")
    /\ UNCHANGED <<process, id, stores, disk, told>>

----------------------------------------------------------------------------
(* runJob, 2: kubectl cp.  It creates the file, or truncates the one that  *)
(* a crashed or an overlapping job has left under the same name; a process *)
(* that holds the truncated file open sees the new bytes.                  *)

TargetShared(j) == IF \A i \in Ids : path[i] = None THEN j
                   ELSE path[CHOOSE i \in Ids : path[i] # None]

Target(j) == IF path[id[j]] = None THEN j ELSE path[id[j]]

Copying(f) == {k \in Jobs : pc[k] = "copying" /\ file[k] = f}

CopyOver(j, content) ==
    /\ Step(j, {"downloading"}, "copying")
    /\ path' = [path EXCEPT ![id[j]] = Target(j)]
    /\ file' = [file EXCEPT ![j] = Target(j)]
    /\ bytes' = [bytes EXCEPT ![Target(j)] = content]
    /\ read' = [k \in Jobs |-> IF pc[k] = "parsing" /\ file[k] = Target(j)
                               THEN read[k] \cup {j} ELSE read[k]]
    /\ UNCHANGED <<process, id, state, stores, told>>

CopyStartAppend(j) == CopyOver(j, bytes[Target(j)] \cup {j})

CopyStart(j) == CopyOver(j, Copying(Target(j)) \cup {j})

CopyFail(j) ==
    /\ Step(j, {"downloading", "copying"}, "returning")
    /\ Show(j, "error")
    /\ file' = [file EXCEPT ![j] = None]
    /\ UNCHANGED <<process, id, stores, path, bytes, read, told>>

CopyEnd(j) ==
    /\ Step(j, {"copying"}, "copied")
    /\ Show(j, "parsing")
    /\ file' = [file EXCEPT ![j] = None]
    /\ UNCHANGED <<process, id, stores, path, bytes, read, told>>

----------------------------------------------------------------------------
(* runJob, 3: open, parse and count (one step here, see Pipeline), publish *)
(* in memory, save in the table, report.                                   *)

OpenFailSilently(j) ==
    /\ Step(j, {"copied"}, "returning")
    /\ UNCHANGED <<process, id, state, stores, disk, told>>

OpenFail(j) ==
    /\ Step(j, {"copied"}, "returning")
    /\ Show(j, "error")
    /\ UNCHANGED <<process, id, stores, disk, told>>

Open(j) ==
    /\ Step(j, {"copied"}, "parsing")
    /\ path[id[j]] # None
    /\ file' = [file EXCEPT ![j] = path[id[j]]]
    /\ read' = [read EXCEPT ![j] = bytes[path[id[j]]]]
    /\ UNCHANGED <<process, id, state, stores, path, bytes, told>>

\* counters.Set, which replaces what is there (safemap.go:50-58).
Publish(j) ==
    /\ Step(j, {"parsing"}, "published")
    /\ counters' = [counters EXCEPT ![id[j]] = read[j]]
    /\ UNCHANGED <<process, id, state, jobs, history, disk, told>>

SaveFail(j) ==
    /\ "save" \in Faults
    /\ Step(j, {"published"}, "returning")
    /\ Show(j, "error")
    /\ UNCHANGED <<process, id, stores, disk, told>>

\* INSERT OR REPLACE.
Save(j) ==
    /\ Step(j, {"published"}, "saved")
    /\ history' = [history EXCEPT ![id[j]] = read[j]]
    /\ UNCHANGED <<process, id, state, jobs, counters, disk, told>>

FinishBeforeSave(j) ==
    /\ Step(j, {"published"}, "returning")
    /\ Show(j, "done")
    /\ UNCHANGED <<process, id, stores, disk, told>>

Finish(j) ==
    /\ Step(j, {"saved"}, "returning")
    /\ Show(j, "done")
    /\ UNCHANGED <<process, id, stores, disk, told>>

\* The deferred f.Close and os.Remove, after the end has been shown.
Leave(j, left) ==
    /\ Step(j, {"returning"}, "exited")
    /\ path' = left
    /\ file' = [file EXCEPT ![j] = None]
    /\ read' = [read EXCEPT ![j] = {}]
    /\ UNCHANGED <<process, id, state, stores, bytes, told>>

CleanupNoRemove(j) == Leave(j, path)

Cleanup(j) == Leave(j, [path EXCEPT ![id[j]] = None])

----------------------------------------------------------------------------
(* A client polls the status of an ID and reads "done".                    *)
Poll(i) ==
    /\ up
    /\ jobs[i] # None
    /\ state[jobs[i]] = "done"
    /\ told' = told \cup {i}
    /\ UNCHANGED <<process, pc, id, state, stores, disk>>

(* The server is killed, with its goroutines and kubectl children: what is *)
(* in memory is gone, the table and the directory stay.                    *)
Crash ==
    /\ up
    /\ crashes < MaxCrashes
    /\ up' = FALSE
    /\ crashes' = crashes + 1
    /\ pc' = [j \in Jobs |-> IF pc[j] = "idle" THEN "idle" ELSE "exited"]
    /\ state' = [j \in Jobs |-> None]
    /\ jobs' = [i \in Ids |-> None]
    /\ counters' = [i \in Ids |-> None]
    /\ file' = [j \in Jobs |-> None]
    /\ read' = [j \in Jobs |-> {}]
    /\ UNCHANGED <<id, history, path, bytes, told>>

Saved == {i \in Ids : history[i] # None}

\* LoadHistory fills the map with the rows it could query, scan and decode.
Start(Loaded) ==
    /\ ~up
    /\ up' = TRUE
    /\ counters' = [i \in Ids |-> IF i \in Loaded THEN history[i] ELSE None]
    /\ UNCHANGED <<crashes, pc, id, state, jobs, history, disk, told>>

Restart == \E Loaded \in SUBSET Saved : ("load" \in Faults \/ Loaded = Saved) /\ Start(Loaded)

\* Every job identity of the instance is used up.
NoMoreRequests ==
    /\ up
    /\ \A j \in Jobs : pc[j] = "exited" \/ (pc[j] = "idle" /\ \A p \in Prefixes : NextNumbers(p) = {})
    /\ UNCHANGED vars

----------------------------------------------------------------------------
RunJob(j) ==
    \/ StoreJob(j) \/ CheckFail(j) \/ CheckOk(j)
    \/ CopyStart(j) \/ CopyFail(j) \/ CopyEnd(j)
    \/ OpenFail(j) \/ Open(j) \/ Publish(j)
    \/ SaveFail(j) \/ Save(j) \/ Finish(j) \/ Cleanup(j)

Next ==
    \/ \E j \in Jobs : RunJob(j) \/ \E p \in Prefixes : GetNextID(j, p)
    \/ \E i \in Ids : Poll(i)
    \/ Crash
    \/ Restart
    \/ NoMoreRequests

Spec == Init /\ [][Next]_vars

(* A goroutine that can go on is scheduled eventually, every kubectl and   *)
(* SQLite call returns (with or without an error), and a killed server is  *)
(* started again (the container is restarted).  Clients owe nothing.       *)
Fairness == /\ \A j \in Jobs : WF_vars(RunJob(j))
            /\ WF_vars(Restart)

FairSpec == Spec /\ Fairness
----------------------------------------------------------------------------
(* Properties.                                                             *)

\* Every variable has its type; a job that has an ID keeps one from Ids.
TypeOK ==
    /\ up \in BOOLEAN
    /\ crashes \in 0 .. MaxCrashes
    /\ pc \in [Jobs -> Locations]
    /\ id \in [Jobs -> Ids \cup {None}]
    /\ \A j \in Jobs : pc[j] = "idle" <=> id[j] = None
    /\ state \in [Jobs -> States \cup {None}]
    /\ jobs \in [Ids -> Jobs \cup {None}]
    /\ counters \in [Ids -> {None} \cup Dumps]
    /\ history \in [Ids -> {None} \cup Dumps]
    /\ path \in [Ids -> Jobs \cup {None}]
    /\ bytes \in [Jobs -> Dumps]
    /\ file \in [Jobs -> Jobs \cup {None}]
    /\ read \in [Jobs -> Dumps]
    /\ told \subseteq Ids

(* An ID that a client has seen "done" has a row in the table, and while   *)
(* the server is up its result can be opened: the report comes after the   *)
(* save and the publication, and a restart loads the table.  Whatever      *)
(* imports overlap; as long as LoadHistory reads every row.                *)
DoneLoadable ==
    \A i \in told : history[i] # None /\ (up => counters[i] # None)

(* A result filed under one pod, in memory or in the table, is never made  *)
(* of another pod's dump, whatever imports overlap, fail or crash: the     *)
(* temporary file is named after the ID.                                   *)
PodIsolation ==
    \A i \in Ids : \A r \in {counters[i], history[i]} \ {None} : \A j \in r : id[j] = i

(* Without a crash nothing is left in ./tmp once the jobs have returned,   *)
(* whatever overlapped: a path on disk belongs to a job that will still    *)
(* remove it.                                                              *)
NoLeftovers ==
    crashes = 0 => \A i \in Ids : path[i] # None =>
        \E j \in Jobs : id[j] = i /\ pc[j] \in {"copying", "copied", "parsing", "published",
                                                "saved", "returning"}

(* Whoever polls an ID reads an end in time, unless the server goes down:  *)
(* no path through runJob leaves the record in a running state, also when  *)
(* a second import has replaced the record that was being polled.          *)
EveryImportEnds ==
    \A i \in Ids : (jobs[i] # None) ~>
                   (~up \/ \E j \in Jobs : jobs[i] = j /\ state[j] \in {"done", "error"})

(* "History Tracking: compare analyses over time": a saved analysis is     *)
(* never changed or removed by a later import.                             *)
HistoryAppendOnly ==
    [][\A i \in Ids : history[i] # None => history'[i] = history[i]]_vars

(* A saved result is exactly one download, the one of the job it is filed  *)
(* under, even when a crash has left the file of an earlier job behind.    *)
OwnDump ==
    \A i \in Ids : history[i] # None => \E j \in Jobs : id[j] = i /\ history[i] = {j}

(* The result that the server shows for an ID is the one in the table: a   *)
(* restart changes no analysis a user has seen saved.                      *)
MemDiskAgree ==
    \A i \in Ids : history[i] # None /\ counters[i] # None => counters[i] = history[i]

(* The record a client polls for a running import is that import's own,    *)
(* not one of an earlier failed import with the same ID.                   *)
StatusIsOwn ==
    \A j \in Jobs : up /\ Busy(j) /\ pc[j] # "named" => jobs[id[j]] = j

\* The file that j downloads is removed before j has opened it.
Lost(j) == /\ pc[j] \in {"copying", "copied"}
           /\ path[id[j]] # None
           /\ path'[id[j]] = None

\* k has the ID of j, has shown an error and has not returned yet.
FailedBefore(k, j) == id[k] = id[j] /\ pc[k] = "returning" /\ state[k] = "error"

(* The downloaded file can vanish before it is opened only through the     *)
(* late os.Remove of an earlier import with the same ID that had failed; a *)
(* re-import after a success never loses its file.                         *)
LostFileOnlyAfterFailure ==
    [][\A j \in Jobs : Lost(j) => \E k \in Jobs \ {j} : FailedBefore(k, j)]_vars

\* The jobs implement the abstract log of results.
Log == INSTANCE ResultLog WITH Results <- Dumps, log <- history

ImplementsResultLog == Log!Spec
=============================================================================
