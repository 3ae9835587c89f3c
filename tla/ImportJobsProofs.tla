-------------------------- MODULE ImportJobsProofs -------------------------
(***************************************************************************)
(* Proofs about ImportJobs, for every number of jobs, pods and crashes.    *)
(*                                                                         *)
(* The argument has four layers.  Types hold on their own.  Where the      *)
(* bytes of a result come from follows from the naming of temporary files  *)
(* and needs no assumption.  What "done" promises needs LoadHistory to     *)
(* read every row.  That history is append-only needs clients that import  *)
(* a pod one at a time, and a GetNextID whose query does not fail: these   *)
(* two are the hypotheses Polite.                                          *)
(***************************************************************************)
EXTENDS ImportJobs, TLAPS

(***************************************************************************)
(* Types.                                                                  *)
(***************************************************************************)

\* Nothing runs in a server that is down.
Quiet == ~up => \A j \in Jobs : pc[j] \in {"idle", "exited"}

TypeInv == TypeOK /\ Quiet

\* Every variable starts with its type.
LEMMA InitType == Init => TypeInv
  BY JobAssumptions DEF Init, TypeInv, TypeOK, Quiet, Locations, States, Dumps

\* The steps of one goroutine keep the types.
LEMMA RunJobType ==
  ASSUME TypeInv, NEW j \in Jobs, RunJob(j)
  PROVE  TypeInv'
<1> USE JobAssumptions DEF TypeInv, TypeOK, Quiet, Locations, States, process, stores, disk,
                           Step, Show
<1>id. pc[j] # "idle" => id[j] \in Ids
  OBVIOUS
<1>1. CASE StoreJob(j)
  BY <1>1, <1>id DEF StoreJob
<1>2. CASE CheckFail(j)
  BY <1>2 DEF CheckFail
<1>3. CASE CheckOk(j)
  BY <1>3 DEF CheckOk
<1>4. CASE CopyStart(j)
  <2>1. Target(j) \in Jobs
    BY <1>4, <1>id DEF CopyStart, CopyOver, Target
  <2>2. Copying(Target(j)) \cup {j} \in Dumps
    BY DEF Copying, Dumps
  <2>3. \A k \in Jobs : read[k] \cup {j} \in Dumps
    BY DEF Dumps
  <2> QED
    BY <1>4, <1>id, <2>1, <2>2, <2>3 DEF CopyStart, CopyOver
<1>5. CASE CopyFail(j)
  BY <1>5 DEF CopyFail
<1>6. CASE CopyEnd(j)
  BY <1>6 DEF CopyEnd
<1>7. CASE OpenFail(j)
  BY <1>7 DEF OpenFail
<1>8. CASE Open(j)
  BY <1>8, <1>id DEF Open
<1>9. CASE Publish(j)
  BY <1>9, <1>id DEF Publish
<1>10. CASE SaveFail(j)
  BY <1>10 DEF SaveFail
<1>11. CASE Save(j)
  BY <1>11, <1>id DEF Save
<1>12. CASE Finish(j)
  BY <1>12 DEF Finish
<1>13. CASE Cleanup(j)
  <2>1. {} \in Dumps
    BY DEF Dumps
  <2> QED
    BY <1>13, <1>id, <2>1 DEF Cleanup, Leave
<1> QED
  BY <1>1, <1>2, <1>3, <1>4, <1>5, <1>6, <1>7, <1>8, <1>9, <1>10, <1>11, <1>12, <1>13 DEF RunJob

\* Every step keeps the types.
LEMMA NextType ==
  ASSUME TypeInv, [Next]_vars
  PROVE  TypeInv'
<1> USE JobAssumptions DEF TypeInv, TypeOK, Quiet, Locations, States, process, stores, disk
<1>1. ASSUME NEW j \in Jobs, RunJob(j)
      PROVE  TypeInv'
  BY <1>1, RunJobType
<1>2. ASSUME NEW j \in Jobs, NEW p \in Prefixes, GetNextID(j, p)
      PROVE  TypeInv'
  <2>1. \A n \in NextNumbers(p) : <<p, n>> \in Ids
    BY DEF NextNumbers, Ids
  <2> QED
    BY <1>2, <2>1 DEF GetNextID, Step
<1>3. ASSUME NEW i \in Ids, Poll(i)
      PROVE  TypeInv'
  BY <1>3 DEF Poll
<1>4. CASE Crash
  <2>1. {} \in Dumps
    BY DEF Dumps
  <2>2. crashes' \in 0 .. MaxCrashes
    BY <1>4 DEF Crash
  <2> QED
    BY <1>4, <2>1, <2>2 DEF Crash
<1>5. CASE Restart
  BY <1>5 DEF Restart, Start, Saved
<1>6. CASE NoMoreRequests
  BY <1>6 DEF NoMoreRequests, vars
<1>7. CASE UNCHANGED vars
  BY <1>7 DEF vars
<1> QED
  BY <1>1, <1>2, <1>3, <1>4, <1>5, <1>6, <1>7 DEF Next

(* Every variable keeps its type, whatever clients, kubectl and SQLite do. *)
THEOREM TypeCorrect == Spec => []TypeOK
<1>1. Spec => []TypeInv
  BY InitType, NextType, PTL DEF Spec
<1> QED
  BY <1>1, PTL DEF TypeInv

(***************************************************************************)
(* Where the bytes of a result come from.  A temporary file is created     *)
(* under the name of an ID and keeps to it: whoever writes to the file,    *)
(* reads it or has left bytes in it has that ID.                           *)
(***************************************************************************)

Provenance ==
    /\ \A i \in Ids : path[i] # None => id[path[i]] = i
    /\ \A f \in Jobs : \A k \in bytes[f] : id[k] = id[f] /\ id[k] # None
    /\ \A j \in Jobs : file[j] # None => id[file[j]] = id[j] /\ id[j] # None
    /\ \A j \in Jobs : \A k \in read[j] : id[k] = id[j] /\ id[k] # None
    /\ \A i \in Ids : counters[i] # None => \A k \in counters[i] : id[k] = i
    /\ \A i \in Ids : history[i] # None => \A k \in history[i] : id[k] = i

\* No step of a goroutine mixes the dumps of two IDs.
LEMMA RunJobProvenance ==
  ASSUME TypeInv, Provenance, NEW j \in Jobs, RunJob(j)
  PROVE  Provenance'
<1> USE JobAssumptions DEF Provenance, TypeInv, TypeOK, process, stores, disk, Step, Show, Dumps
<1>id. pc[j] # "idle" => id[j] \in Ids
  OBVIOUS
<1>1. CASE StoreJob(j)
  BY <1>1 DEF StoreJob
<1>2. CASE CheckFail(j) \/ CheckOk(j) \/ CopyFail(j) \/ CopyEnd(j) \/ OpenFail(j)
  BY <1>2 DEF CheckFail, CheckOk, CopyFail, CopyEnd, OpenFail
<1>3. CASE CopyStart(j)
  <2>1. Target(j) \in Jobs /\ id[Target(j)] = id[j] /\ id[j] \in Ids
    BY <1>3, <1>id DEF CopyStart, CopyOver, Target
  <2>2. \A k \in Copying(Target(j)) \cup {j} : k \in Jobs /\ id[k] = id[j]
    BY <2>1 DEF Copying
  <2> QED
    BY <1>3, <2>1, <2>2 DEF CopyStart, CopyOver
<1>4. CASE Open(j)
  BY <1>4, <1>id DEF Open
<1>5. CASE Publish(j) \/ Save(j)
  BY <1>5, <1>id DEF Publish, Save
<1>6. CASE SaveFail(j) \/ Finish(j)
  BY <1>6 DEF SaveFail, Finish
<1>7. CASE Cleanup(j)
  BY <1>7, <1>id DEF Cleanup, Leave
<1> QED
  BY <1>1, <1>2, <1>3, <1>4, <1>5, <1>6, <1>7 DEF RunJob

\* Neither does any other step.
LEMMA NextProvenance ==
  ASSUME TypeInv, Provenance, [Next]_vars
  PROVE  Provenance'
<1> USE JobAssumptions DEF Provenance, TypeInv, TypeOK, process, stores, disk, Dumps
<1>1. ASSUME NEW j \in Jobs, RunJob(j)
      PROVE  Provenance'
  BY <1>1, RunJobProvenance
<1>2. ASSUME NEW j \in Jobs, NEW p \in Prefixes, GetNextID(j, p)
      PROVE  Provenance'
  <2>1. id[j] = None /\ \A k \in Jobs \ {j} : id'[k] = id[k]
    BY <1>2 DEF GetNextID, Step
  <2> QED
    BY <1>2, <2>1 DEF GetNextID
<1>3. ASSUME NEW i \in Ids, Poll(i)
      PROVE  Provenance'
  BY <1>3 DEF Poll
<1>4. CASE Crash
  BY <1>4 DEF Crash
<1>5. CASE Restart
  BY <1>5 DEF Restart, Start, Saved
<1>6. CASE NoMoreRequests \/ UNCHANGED vars
  BY <1>6 DEF NoMoreRequests, vars
<1> QED
  BY <1>1, <1>2, <1>3, <1>4, <1>5, <1>6 DEF Next

(* No result, in memory or in the table, is made of another pod's dump,    *)
(* however imports overlap and whatever fails.                             *)
THEOREM PodsIsolated == Spec => []PodIsolation
<1>1. Init => TypeInv /\ Provenance
  BY InitType, JobAssumptions DEF Init, Provenance
<1>2. TypeInv /\ Provenance /\ [Next]_vars => TypeInv' /\ Provenance'
  BY NextType, NextProvenance
<1>3. Provenance => PodIsolation
  <2> SUFFICES ASSUME Provenance,
                      NEW i \in Ids, NEW r \in {counters[i], history[i]} \ {None}, NEW j \in r
               PROVE  id[j] = i
    BY DEF PodIsolation
  <2>1. CASE r = counters[i]
    BY <2>1 DEF Provenance
  <2>2. CASE r = history[i]
    BY <2>2 DEF Provenance
  <2> QED
    BY <2>1, <2>2
<1> QED
  BY <1>1, <1>2, <1>3, PTL DEF Spec

(***************************************************************************)
(* Temporary files.                                                        *)
(***************************************************************************)

(* Without a crash, every file in ./tmp has a job that will remove it.     *)
THEOREM NoFileLeftBehind == Spec => []NoLeftovers
<1> DEFINE Owned == TypeInv /\ NoLeftovers
<1>1. Init => Owned
  BY InitType DEF Init, NoLeftovers
<1>2. Owned /\ [Next]_vars => Owned'
  <2> SUFFICES ASSUME TypeInv, NoLeftovers, [Next]_vars
               PROVE  NoLeftovers'
    BY NextType
  <2> USE JobAssumptions DEF TypeInv, TypeOK, NoLeftovers, process, stores, disk, Step, Show
  <2>1. ASSUME NEW j \in Jobs, RunJob(j)
        PROVE  NoLeftovers'
    <3>1. CASE StoreJob(j) \/ CheckFail(j) \/ CheckOk(j)
      BY <3>1 DEF StoreJob, CheckFail, CheckOk
    <3>2. CASE CopyStart(j)
      BY <3>2 DEF CopyStart, CopyOver
    <3>3. CASE CopyFail(j) \/ CopyEnd(j) \/ OpenFail(j) \/ Open(j)
      BY <3>3 DEF CopyFail, CopyEnd, OpenFail, Open
    <3>4. CASE Publish(j) \/ SaveFail(j) \/ Save(j) \/ Finish(j)
      BY <3>4 DEF Publish, SaveFail, Save, Finish
    <3>5. CASE Cleanup(j)
      BY <3>5 DEF Cleanup, Leave
    <3> QED
      BY <2>1, <3>1, <3>2, <3>3, <3>4, <3>5 DEF RunJob
  <2>2. ASSUME NEW j \in Jobs, NEW p \in Prefixes, GetNextID(j, p)
        PROVE  NoLeftovers'
    BY <2>2 DEF GetNextID
  <2>3. CASE (\E i \in Ids : Poll(i)) \/ Restart \/ NoMoreRequests \/ UNCHANGED vars
    BY <2>3 DEF Poll, Restart, Start, NoMoreRequests, vars
  <2>4. CASE Crash
    BY <2>4 DEF Crash
  <2> QED
    BY <2>1, <2>2, <2>3, <2>4 DEF Next
<1> QED
  BY <1>1, <1>2, PTL DEF Spec

(***************************************************************************)
(* What "done" promises.  The record of an ID says done only after the     *)
(* row is in the table, the counter is in memory before the row is, and    *)
(* rows are never deleted.                                                 *)
(***************************************************************************)

\* The record a poll of i reads is that of a job with the ID i.
RecordOfID == \A i \in Ids : jobs[i] # None => id[jobs[i]] = i

\* A job that shows done has its row.
DoneIsSaved == \A j \in Jobs : /\ state[j] = "done" => history[id[j]] # None
                               /\ state[j] # None => id[j] # None

\* A running job that has passed counters.Set has a result in memory, and one
\* that has passed SaveAnalysis has a row.
Published == \A j \in Jobs : /\ pc[j] \in {"published", "saved"} => counters[id[j]] # None
                             /\ pc[j] = "saved" => history[id[j]] # None

Promise == /\ RecordOfID
           /\ DoneIsSaved
           /\ Published
           /\ \A i \in Ids : up /\ history[i] # None => counters[i] # None
           /\ \A i \in told : history[i] # None

\* A goroutine shows "done" only after it has published and saved.
LEMMA RunJobPromise ==
  ASSUME TypeInv, Promise, NEW j \in Jobs, RunJob(j)
  PROVE  Promise'
<1> USE JobAssumptions DEF Promise, RecordOfID, DoneIsSaved, Published, TypeInv, TypeOK,
                           process, stores, disk, Step, Show
<1>id. pc[j] # "idle" => id[j] \in Ids
  OBVIOUS
<1>1. CASE StoreJob(j)
  BY <1>1, <1>id DEF StoreJob
<1>2. CASE CheckFail(j) \/ CheckOk(j) \/ CopyFail(j) \/ CopyEnd(j) \/ OpenFail(j)
  BY <1>2, <1>id DEF CheckFail, CheckOk, CopyFail, CopyEnd, OpenFail
<1>3. CASE CopyStart(j) \/ Open(j)
  BY <1>3, <1>id DEF CopyStart, CopyOver, Open
<1>4. CASE Publish(j)
  BY <1>4, <1>id DEF Publish
<1>5. CASE Save(j)
  BY <1>5, <1>id DEF Save
<1>6. CASE SaveFail(j) \/ Finish(j)
  BY <1>6, <1>id DEF SaveFail, Finish
<1>7. CASE Cleanup(j)
  BY <1>7, <1>id DEF Cleanup, Leave
<1> QED
  BY <1>1, <1>2, <1>3, <1>4, <1>5, <1>6, <1>7 DEF RunJob

\* No other step takes a promised result away.
LEMMA NextPromise ==
  ASSUME "load" \notin Faults, TypeInv, Promise, [Next]_vars
  PROVE  Promise'
<1> USE JobAssumptions DEF Promise, RecordOfID, DoneIsSaved, Published, TypeInv, TypeOK,
                           process, stores, disk, States
<1>1. ASSUME NEW j \in Jobs, RunJob(j)
      PROVE  Promise'
  BY <1>1, RunJobPromise
<1>2. ASSUME NEW j \in Jobs, NEW p \in Prefixes, GetNextID(j, p)
      PROVE  Promise'
  <2>1. id[j] = None /\ \A k \in Jobs \ {j} : id'[k] = id[k] /\ pc'[k] = pc[k]
    BY <1>2 DEF GetNextID, Step
  <2>2. pc'[j] = "named" /\ state[j] = None /\ \A i \in Ids : jobs[i] # j
    BY <1>2, <2>1 DEF GetNextID, Step
  <2> QED
    BY <1>2, <2>1, <2>2 DEF GetNextID
<1>3. ASSUME NEW i \in Ids, Poll(i)
      PROVE  Promise'
  BY <1>3 DEF Poll
<1>4. CASE Crash
  BY <1>4 DEF Crash
<1>5. CASE Restart
  BY <1>5 DEF Restart, Start, Saved, Quiet
<1>6. CASE NoMoreRequests \/ UNCHANGED vars
  BY <1>6 DEF NoMoreRequests, vars
<1> QED
  BY <1>1, <1>2, <1>3, <1>4, <1>5, <1>6 DEF Next

(* When a restart reads the whole table, an ID that a client has seen done *)
(* can be opened for ever after, whatever overlaps, fails or crashes.      *)
THEOREM DoneCanBeOpened ==
  ASSUME "load" \notin Faults
  PROVE  Spec => []DoneLoadable
<1>1. Init => TypeInv /\ Promise
  BY InitType, JobAssumptions
  DEF Init, Promise, RecordOfID, DoneIsSaved, Published, States
<1>2. TypeInv /\ Promise /\ [Next]_vars => TypeInv' /\ Promise'
  BY NextType, NextPromise
<1>3. TypeInv /\ Promise => DoneLoadable
  BY DEF TypeInv, TypeOK, Promise, DoneLoadable
<1> QED
  BY <1>1, <1>2, <1>3, PTL DEF Spec

(***************************************************************************)
(* Imports of a pod one at a time.  The key is Alone: of the jobs with one *)
(* ID at most one runs, and the number of a running job is free in the     *)
(* table until that job itself saves.  Everything else follows from it.    *)
(***************************************************************************)

Polite == OneAtATime /\ "id" \notin Faults

\* At most one job of a pod runs, and it is the one its record describes.
Alone == \A j, k \in Jobs : Busy(j) /\ Busy(k) /\ id[j][1] = id[k][1] => j = k

Unsaved == \A j \in Jobs : Busy(j) /\ pc[j] # "saved" => history[id[j]] = None

\* The file that a job downloads, opens and parses holds its own download only.
OwnFile ==
    \A j \in Jobs :
        /\ pc[j] = "copying" => /\ file[j] # None
                                /\ bytes[file[j]] = {j}
                                /\ path[id[j]] \in {file[j], None}
        /\ pc[j] = "copied" /\ path[id[j]] # None => bytes[path[id[j]]] = {j}
        /\ pc[j] \in {"parsing", "published", "saved"} => read[j] = {j}
        /\ pc[j] = "published" => counters[id[j]] = {j}
        /\ pc[j] = "saved" => history[id[j]] = {j}

\* A job that is returning shows its end, and done means it has saved.
ShownEnd == \A j \in Jobs : /\ pc[j] = "returning" => state[j] \in {"done", "error"}
                            /\ state[j] = "done" => history[id[j]] # None
                            /\ state[j] # None => id[j] # None

Exclusive == Alone /\ Unsaved /\ OwnFile /\ ShownEnd /\ RecordOfID
             /\ OwnDump /\ MemDiskAgree /\ StatusIsOwn

\* Two running jobs with one ID are the same.
LEMMA AloneById ==
  ASSUME TypeInv, Alone, NEW j \in Jobs, NEW k \in Jobs, Busy(j), Busy(k), id[j] = id[k]
  PROVE  j = k
  BY DEF Alone

\* Under polite clients a goroutine keeps its ID, file and rows to itself.
LEMMA RunJobExclusive ==
  ASSUME TypeInv, Provenance, Exclusive, NEW j \in Jobs, RunJob(j)
  PROVE  Exclusive'
<1> USE JobAssumptions DEF Exclusive, TypeInv, TypeOK, process, stores, disk, Step, Show
<1>id. pc[j] # "idle" => id[j] \in Ids
  OBVIOUS
<1>b. pc[j] \notin {"idle", "returning", "exited"} => Busy(j)
  BY DEF Busy, Locations
<1>o. Busy(j) => \A k \in Jobs \ {j} : Busy(k) => id[k] # id[j]
  BY AloneById
<1>1. CASE StoreJob(j)
  BY <1>1, <1>id, <1>b, <1>o DEF StoreJob, Alone, Unsaved, OwnFile, ShownEnd, RecordOfID,
        OwnDump, MemDiskAgree, StatusIsOwn, Busy
<1>2. CASE CheckFail(j) \/ CheckOk(j) \/ CopyFail(j) \/ OpenFail(j)
  BY <1>2, <1>id, <1>b, <1>o DEF CheckFail, CheckOk, CopyFail, OpenFail,
        Alone, Unsaved, OwnFile, ShownEnd, RecordOfID, OwnDump, MemDiskAgree, StatusIsOwn, Busy
<1>3. CASE CopyEnd(j)
  BY <1>3, <1>id, <1>b, <1>o DEF CopyEnd,
        Alone, Unsaved, OwnFile, ShownEnd, RecordOfID, OwnDump, MemDiskAgree, StatusIsOwn, Busy
<1>4. CASE CopyStart(j)
  <2>1. Busy(j) /\ id[j] \in Ids /\ pc[j] = "downloading"
    BY <1>4, <1>id, <1>b DEF CopyStart, CopyOver
  <2>2. Target(j) \in Jobs /\ id[Target(j)] = id[j]
    BY <2>1 DEF Target, Provenance
  <2>3. \A k \in Jobs \ {j} : Busy(k) => file[k] # Target(j) /\ path[id[k]] # Target(j)
    <3> SUFFICES ASSUME NEW k \in Jobs \ {j}, Busy(k)
                 PROVE  file[k] # Target(j) /\ path[id[k]] # Target(j)
      OBVIOUS
    <3>1. id[k] \in Ids /\ id[k] # id[j]
      BY <1>o, <2>1 DEF Busy
    <3> QED
      BY <2>2, <3>1 DEF Provenance
  <2>4. Copying(Target(j)) = {}
    BY <2>1, <2>3 DEF Copying, Busy
  <2>5. read' = read
    BY <1>4, <2>1, <2>3 DEF CopyStart, CopyOver, Busy
  <2>6. bytes' = [bytes EXCEPT ![Target(j)] = {j}]
    BY <1>4, <2>4 DEF CopyStart, CopyOver
  <2>7. OwnFile'
    BY <1>4, <2>1, <2>2, <2>3, <2>5, <2>6, <1>o DEF CopyStart, CopyOver, OwnFile, Busy
  <2> QED
    BY <1>4, <2>1, <2>7 DEF CopyStart, CopyOver,
        Alone, Unsaved, ShownEnd, RecordOfID, OwnDump, MemDiskAgree, StatusIsOwn, Busy
<1>5. CASE Open(j)
  BY <1>5, <1>id, <1>b, <1>o DEF Open,
        Alone, Unsaved, OwnFile, ShownEnd, RecordOfID, OwnDump, MemDiskAgree, StatusIsOwn, Busy
<1>6. CASE Publish(j)
  BY <1>6, <1>id, <1>b, <1>o DEF Publish,
        Alone, Unsaved, OwnFile, ShownEnd, RecordOfID, OwnDump, MemDiskAgree, StatusIsOwn, Busy
<1>7. CASE Save(j)
  <2>1. Busy(j) /\ id[j] \in Ids /\ read[j] = {j} /\ counters[id[j]] = {j}
    BY <1>7, <1>id, <1>b DEF Save, OwnFile
  <2>2. history' = [history EXCEPT ![id[j]] = {j}]
    BY <1>7, <2>1 DEF Save
  <2>3. Alone' /\ Unsaved' /\ StatusIsOwn' /\ RecordOfID'
    BY <1>7, <1>o, <2>1, <2>2 DEF Save, Alone, Unsaved, StatusIsOwn, RecordOfID, Busy
  <2>4. OwnFile'
    BY <1>7, <1>o, <2>1, <2>2 DEF Save, OwnFile, Busy
  <2>5. {j} # None
    BY DEF Dumps
  <2>6. ShownEnd'
    BY <1>7, <2>1, <2>2, <2>5 DEF Save, ShownEnd
  <2>7. OwnDump' /\ MemDiskAgree'
    BY <1>7, <2>1, <2>2 DEF Save, OwnDump, MemDiskAgree
  <2> QED
    BY <2>3, <2>4, <2>6, <2>7
<1>8. CASE SaveFail(j)
  BY <1>8, <1>id, <1>b, <1>o DEF SaveFail, States,
        Alone, Unsaved, OwnFile, ShownEnd, RecordOfID, OwnDump, MemDiskAgree, StatusIsOwn, Busy
<1>10. CASE Finish(j)
  <2>1. id[j] \in Ids /\ history[id[j]] = {j} /\ {j} # None
    BY <1>10, <1>id DEF Finish, OwnFile, Dumps
  <2> QED
    BY <1>10, <1>b, <1>o, <2>1 DEF Finish, States,
        Alone, Unsaved, OwnFile, ShownEnd, RecordOfID, OwnDump, MemDiskAgree, StatusIsOwn, Busy
<1>9. CASE Cleanup(j)
  BY <1>9, <1>id, <1>b, <1>o DEF Cleanup, Leave,
        Alone, Unsaved, OwnFile, ShownEnd, RecordOfID, OwnDump, MemDiskAgree, StatusIsOwn, Busy
<1> QED
  BY <1>1, <1>2, <1>3, <1>4, <1>5, <1>6, <1>7, <1>8, <1>9, <1>10 DEF RunJob

\* The other steps respect that too: GetNextID avoids every ID in use.
LEMMA NextExclusive ==
  ASSUME Polite, TypeInv, Provenance, Exclusive, [Next]_vars
  PROVE  Exclusive'
<1> USE JobAssumptions DEF Exclusive, TypeInv, TypeOK, process, stores, disk
<1>1. ASSUME NEW j \in Jobs, RunJob(j)
      PROVE  Exclusive'
  BY <1>1, RunJobExclusive
<1>2. ASSUME NEW j \in Jobs, NEW p \in Prefixes, GetNextID(j, p)
      PROVE  Exclusive'
  <2>1. PICK n \in NextNumbers(p) : id' = [id EXCEPT ![j] = <<p, n>>]
    BY <1>2 DEF GetNextID
  <2>2. <<p, n>> \in Ids /\ history[<<p, n>>] = None
    BY <2>1 DEF NextNumbers, IsNext, Used, Ids, Polite
  <2>3. /\ id[j] = None /\ id'[j] = <<p, n>> /\ pc[j] = "idle" /\ pc'[j] = "named"
        /\ \A k \in Jobs \ {j} : id'[k] = id[k] /\ pc'[k] = pc[k]
    BY <1>2, <2>1, <2>2 DEF GetNextID, Step
  <2>4. \A k \in Jobs : Busy(k) => id[k][1] # p
    BY <1>2 DEF GetNextID, Polite
  <2>5. Alone'
    BY <2>3, <2>4 DEF Alone, Busy
  <2>6. Unsaved' /\ StatusIsOwn' /\ OwnDump' /\ MemDiskAgree'
    BY <1>2, <2>2, <2>3 DEF GetNextID, Unsaved, StatusIsOwn, OwnDump, MemDiskAgree, Busy
  <2>7. OwnFile' /\ RecordOfID'
    BY <1>2, <2>2, <2>3 DEF GetNextID, OwnFile, RecordOfID
  <2>8. state[j] = None
    BY <2>3 DEF ShownEnd
  <2>9. ShownEnd'
    BY <1>2, <2>3, <2>8 DEF GetNextID, ShownEnd, States
  <2> QED
    BY <2>5, <2>6, <2>7, <2>9
<1>3. CASE (\E i \in Ids : Poll(i)) \/ NoMoreRequests \/ UNCHANGED vars
  BY <1>3 DEF Poll, NoMoreRequests, vars, Alone, Unsaved, OwnFile, ShownEnd, RecordOfID,
              OwnDump, MemDiskAgree, StatusIsOwn, Busy
<1>4. CASE Crash
  BY <1>4 DEF Crash, Alone, Unsaved, OwnFile, ShownEnd, RecordOfID,
              OwnDump, MemDiskAgree, StatusIsOwn, Busy, States
<1>5. CASE Restart
  <2>1. \A j \in Jobs : pc[j] \in {"idle", "exited"}
    BY <1>5 DEF Restart, Start, Quiet
  <2>2. \A i \in Ids : counters'[i] \in {history[i], None}
    BY <1>5 DEF Restart, Start
  <2> QED
    BY <1>5, <2>1, <2>2 DEF Restart, Start, Alone, Unsaved, OwnFile, ShownEnd, RecordOfID,
              OwnDump, MemDiskAgree, StatusIsOwn, Busy
<1> QED
  BY <1>1, <1>2, <1>3, <1>4, <1>5 DEF Next

\* All that is known of a reachable state under polite clients.
Inv == TypeInv /\ Provenance /\ Exclusive

\* Types, provenance and exclusiveness together are inductive.
LEMMA InvHolds ==
  ASSUME Polite
  PROVE  Spec => []Inv
<1>1. Init => Inv
  BY InitType, JobAssumptions
  DEF Init, Inv, Provenance, Exclusive, Alone, Unsaved, OwnFile, ShownEnd, RecordOfID,
      OwnDump, MemDiskAgree, StatusIsOwn, Busy, States
<1>2. Inv /\ [Next]_vars => Inv'
  BY NextType, NextProvenance, NextExclusive DEF Inv
<1> QED
  BY <1>1, <1>2, PTL DEF Spec

(* Under polite clients a saved result is one download, that of the job it *)
(* is filed under, crashes and leftover files notwithstanding.             *)
THEOREM ResultsAreOwnDumps ==
  ASSUME Polite
  PROVE  Spec => []OwnDump
  BY InvHolds, PTL DEF Inv, Exclusive

(* Under polite clients the result in memory is the one in the table.      *)
THEOREM MemoryAgreesWithDisk ==
  ASSUME Polite
  PROVE  Spec => []MemDiskAgree
  BY InvHolds, PTL DEF Inv, Exclusive

(* Under polite clients the status that is polled is that of the running   *)
(* import.                                                                 *)
THEOREM StatusIsOfRunningJob ==
  ASSUME Polite
  PROVE  Spec => []StatusIsOwn
  BY InvHolds, PTL DEF Inv, Exclusive

\* The only step that writes to the table fills an empty row.
LEMMA HistoryStep ==
  ASSUME Inv, [Next]_vars
  PROVE  \/ UNCHANGED history
         \/ \E j \in Jobs : Save(j) /\ id[j] \in Ids /\ history[id[j]] = None
<1> USE DEF process, stores, disk
<1>1. ASSUME NEW j \in Jobs, Save(j)
      PROVE  id[j] \in Ids /\ history[id[j]] = None
  BY <1>1 DEF Save, Step, Inv, TypeInv, TypeOK, Exclusive, Unsaved, Busy
<1>2. ASSUME NEW j \in Jobs, RunJob(j), ~Save(j)
      PROVE  UNCHANGED history
  BY <1>2 DEF RunJob, StoreJob, CheckFail, CheckOk, CopyStart, CopyOver, CopyFail, CopyEnd,
              OpenFail, Open, Publish, SaveFail, Finish, Cleanup, Leave
<1>3. ASSUME NEW j \in Jobs, NEW p \in Prefixes, GetNextID(j, p)
      PROVE  UNCHANGED history
  BY <1>3 DEF GetNextID
<1>4. ASSUME NEW i \in Ids, Poll(i)
      PROVE  UNCHANGED history
  BY <1>4 DEF Poll
<1>5. CASE Crash \/ Restart \/ NoMoreRequests \/ UNCHANGED vars
  BY <1>5 DEF Crash, Restart, Start, NoMoreRequests, vars
<1> QED
  BY <1>1, <1>2, <1>3, <1>4, <1>5 DEF Next

(* Under polite clients, and while GetNextID can read the table, history   *)
(* is append-only: no later import changes or removes an analysis.         *)
THEOREM HistoryIsAppendOnly ==
  ASSUME Polite
  PROVE  Spec => HistoryAppendOnly
<1>1. Inv /\ [Next]_vars => [\A i \in Ids : history[i] # None => history'[i] = history[i]]_vars
  <2> SUFFICES ASSUME Inv, [Next]_vars, NEW i \in Ids, history[i] # None
               PROVE  history'[i] = history[i]
    OBVIOUS
  <2>1. CASE UNCHANGED history
    BY <2>1
  <2>2. ASSUME NEW j \in Jobs, Save(j), id[j] \in Ids, history[id[j]] = None
        PROVE  history'[i] = history[i]
    BY <2>2 DEF Save, Inv, TypeInv, TypeOK
  <2> QED
    BY <2>1, <2>2, HistoryStep
<1> QED
  BY <1>1, InvHolds, PTL DEF Spec, HistoryAppendOnly

(* Under polite clients a downloaded file is lost only to the late         *)
(* os.Remove of an import with the same ID that had failed.                *)
THEOREM FilesLostOnlyAfterFailure ==
  ASSUME Polite
  PROVE  Spec => LostFileOnlyAfterFailure
<1>1. ASSUME Inv, [Next]_vars, NEW j \in Jobs, Lost(j)
      PROVE  \E k \in Jobs \ {j} : FailedBefore(k, j)
  <2> USE JobAssumptions DEF Inv, TypeInv, TypeOK, process, stores, disk, Step, Lost, FailedBefore
  <2>1. id[j] \in Ids /\ history[id[j]] = None
    BY <1>1 DEF Exclusive, Unsaved, Busy
  <2>2. ASSUME NEW k \in Jobs, Cleanup(k)
        PROVE  k # j /\ FailedBefore(k, j)
    <3>1. pc[k] = "returning" /\ id[k] \in Ids
      BY <1>1, <2>2 DEF Cleanup, Leave
    <3>2. id[k] = id[j]
      BY <1>1, <2>1, <2>2, <3>1 DEF Cleanup, Leave
    <3>3. state[k] = "error"
      BY <1>1, <2>1, <3>1, <3>2 DEF Exclusive, ShownEnd
    <3> QED
      BY <1>1, <3>1, <3>2, <3>3
  <2>3. ASSUME NEW k \in Jobs, RunJob(k), ~Cleanup(k)
        PROVE  FALSE
    <3>1. CASE CopyStart(k)
      <4>1. id[k] \in Ids /\ path' = [path EXCEPT ![id[k]] = Target(k)]
        BY <1>1, <3>1 DEF CopyStart, CopyOver
      <4>2. Target(k) # None
        BY <1>1, <4>1, JobAssumptions DEF Target
      <4> QED
        BY <1>1, <2>1, <4>1, <4>2
    <3>2. CASE ~CopyStart(k)
      <4>1. path' = path
        BY <2>3, <3>2 DEF RunJob, StoreJob, CheckFail, CheckOk, CopyFail, CopyEnd,
              OpenFail, Open, Publish, SaveFail, Save, Finish
      <4> QED
        BY <1>1, <4>1
    <3> QED
      BY <3>1, <3>2
  <2>4. ASSUME NEW k \in Jobs, NEW p \in Prefixes, GetNextID(k, p)
        PROVE  FALSE
    BY <1>1, <2>4 DEF GetNextID
  <2>5. ASSUME NEW i \in Ids, Poll(i)
        PROVE  FALSE
    BY <1>1, <2>5 DEF Poll
  <2>6. ~ (Crash \/ Restart \/ NoMoreRequests \/ UNCHANGED vars)
    BY <1>1 DEF Crash, Restart, Start, NoMoreRequests, vars
  <2> QED
    BY <1>1, <2>2, <2>3, <2>4, <2>5, <2>6 DEF Next
<1>2. Inv /\ [Next]_vars => [\A j \in Jobs : Lost(j) => \E k \in Jobs \ {j} : FailedBefore(k, j)]_vars
  BY <1>1
<1> QED
  BY <1>2, InvHolds, PTL DEF Spec, LostFileOnlyAfterFailure

(***************************************************************************)
(* Refinement.                                                             *)
(***************************************************************************)

(* Under polite clients the jobs, with the table as the log, implement the *)
(* abstract log of results: every step is an Append, a Tell or a stutter.  *)
THEOREM JobsImplementResultLog ==
  ASSUME Polite
  PROVE  Spec => ImplementsResultLog
<1>1. Init => Log!Init
  BY DEF Init, Log!Init
<1>2. Inv /\ [Next]_vars => [Log!Next]_(Log!vars)
  <2> SUFFICES ASSUME Inv, [Next]_vars
               PROVE  [Log!Next]_(Log!vars)
    OBVIOUS
  <2> USE DEF Inv, TypeInv, TypeOK, process, stores, disk
  <2>1. ASSUME NEW j \in Jobs, Save(j), id[j] \in Ids, history[id[j]] = None
        PROVE  Log!Append(id[j], read[j]) /\ read[j] \in Dumps
    BY <2>1 DEF Save, Log!Append
  <2>2. ASSUME NEW i \in Ids, Poll(i)
        PROVE  Log!Tell(i)
    <3>1. jobs[i] \in Jobs /\ id[jobs[i]] = i /\ state[jobs[i]] = "done"
      BY <2>2 DEF Poll, Exclusive, RecordOfID
    <3>2. history[i] # None
      BY <3>1 DEF Exclusive, ShownEnd
    <3> QED
      BY <2>2, <3>2 DEF Poll, Log!Tell
  <2>3. CASE UNCHANGED <<history, told>>
    BY <2>3 DEF Log!vars
  <2>4. (\E i \in Ids : Poll(i)) \/ UNCHANGED told
    BY DEF Next, RunJob, StoreJob, CheckFail, CheckOk, CopyStart, CopyOver, CopyFail, CopyEnd,
           OpenFail, Open, Publish, SaveFail, Save, Finish, Cleanup, Leave, GetNextID,
           Crash, Restart, Start, NoMoreRequests, vars
  <2> QED
    BY <2>1, <2>2, <2>3, <2>4, HistoryStep DEF Log!Next
<1> QED
  BY <1>1, <1>2, InvHolds, PTL DEF Spec, Log!Spec, ImplementsResultLog
=============================================================================
