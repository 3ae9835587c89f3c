-------------------------- MODULE DashboardProofs --------------------------
(***************************************************************************)
(* What TLAPS proves about Dashboard, for any number of imports, polls,    *)
(* loads and faults.                                                       *)
(***************************************************************************)
EXTENDS Dashboard, WellFoundedInduction, TLAPS

Below == {p \in Nat \X Nat : p[1] < p[2]}

\* The order of the naturals is well-founded.
LEMMA BelowIsWellFounded == IsWellFoundedOn(Below, Nat)
<1>1. Below = OpToRel(<, Nat)
  BY Zenon DEF OpToRel, Below
<1> QED
  BY <1>1, NatLessThanWellFounded, Zenon

\* init() opens an instance of the list.
LEMMA FirstIsMember ==
    ASSUME NEW S \in SUBSET Nat, S # {}
    PROVE  First(S) \in S
<1>1. PICK x \in S : \A y \in S : ~(<<y, x>> \in Below)
  BY WFMin, BelowIsWellFounded, Zenon
<1>2. ASSUME NEW y \in S PROVE x <= y
  <2>1. <<y, x>> \notin Below
    BY <1>1, Zenon
  <2>2. ~(y < x)
    BY <2>1 DEF Below
  <2> QED
    BY <2>2
<1> QED
  BY <1>2, Zenon DEF First, Min

----------------------------------------------------------------------------
(* Types.  An ID that an answer names as done was published, because a     *)
(* record stands under the ID of its own import.                           *)

\* The IDs that were in the result map at some time.
Once == counters \cup gone

Known(n) ==
    /\ import[n] \in {"idle", "posted"} =>
         id[n] = None /\ run[n] = "none" /\ \A a \in Answers : poll[n][a] = 0
    /\ import[n] \in {"accepted", "polling"} \/ run[n] # "none" \/ Polled(n) => id[n] \in Ids
    /\ run[n] \in {"published", "done"} \/ poll[n]["done"] > 0 => id[n] \in Once

RecordsOwn == \A i \in Ids : record[i] # None => id[record[i]] = i

TInv == TypeOK /\ RecordsOwn /\ \A n \in Imports : Known(n)

LEMMA Constants ==
    /\ Imports \subseteq Nat /\ Ids \subseteq Nat /\ 1 \in Ids
    /\ None \notin Ids /\ None \notin Imports
BY DashboardAssumptions DEF Imports, Ids

\* TypeOK in two halves: the selection with the sidebar, and the rest.
SelectionTypes ==
    /\ currentInstance \in instances \cup {None}
    /\ loading \in BOOLEAN /\ error \in BOOLEAN /\ raced \in BOOLEAN
    /\ data \in instances \cup {None}
    /\ load \in [Ids -> Nat] /\ Loading \subseteq instances

OtherTypes ==
    /\ run \in [Imports -> {"none", "running", "published", "done", "error"}]
    /\ record \in [Ids -> Imports \cup {None}]
    /\ saved \subseteq Ids /\ counters \subseteq Ids /\ gone \subseteq Ids /\ instances \subseteq Ids
    /\ faults \in 0 .. MaxFaults
    /\ importing \in BOOLEAN
    /\ import \in [Imports -> {"idle", "ended"} \cup Waiting]
    /\ id \in [Imports -> Ids \cup {None}]
    /\ poll \in [Imports -> [Answers -> Nat]]
    /\ lost \subseteq Imports /\ late \in BOOLEAN

LEMMA TInvInit == Init => TInv
<1> SUFFICES ASSUME Init PROVE TInv
  OBVIOUS
<1> USE Constants
<1>1. saved \subseteq Ids /\ counters \subseteq Ids /\ counters \subseteq Nat
  BY DEF Init
<1>2. currentInstance \in counters \cup {None}
  BY <1>1, FirstIsMember DEF Init
<1>3. TypeOK
  <2>1. SelectionTypes
    <3>1. loading \in BOOLEAN
      BY Zenon DEF Init
    <3>2. Loading \subseteq instances /\ load \in [Ids -> Nat]
      BY <1>2 DEF Init, Loading
    <3> QED
      BY <1>2, <3>1, <3>2 DEF Init, SelectionTypes
  <2>2. OtherTypes
    <3>1. run \in [Imports -> {"none", "running", "published", "done", "error"}]
      BY DEF Init
    <3>2. poll \in [Imports -> [Answers -> Nat]] /\ faults \in 0 .. MaxFaults
      BY DashboardAssumptions DEF Init
    <3> QED
      BY <1>1, <3>1, <3>2 DEF Init, OtherTypes
  <2> QED
    BY <2>1, <2>2 DEF TypeOK, OtherTypes, SelectionTypes
<1>4. RecordsOwn /\ \A n \in Imports : Known(n)
  BY DEF Init, RecordsOwn, Known, Polled, Answers
<1> QED
  BY <1>3, <1>4 DEF TInv

\* LoadInstance keeps them, also when the instance has just been added.
LEMMA LoadTypes ==
    ASSUME TypeOK, NEW i \in Ids, i \in instances', instances \subseteq instances',
           LoadInstance(i)
    PROVE  SelectionTypes'
<1>1. load' = [load EXCEPT ![i] = @ + 1] /\ load \in [Ids -> Nat]
  BY DEF LoadInstance, TypeOK
<1>2. load' \in [Ids -> Nat]
  BY <1>1
<1>3. Loading' \subseteq instances'
  <2>1. ASSUME NEW j \in Loading' PROVE j \in Loading \cup {i}
    BY <1>1, <2>1 DEF Loading
  <2> QED
    BY <2>1 DEF TypeOK
<1>4. raced' \in BOOLEAN
  BY Zenon DEF LoadInstance
<1>5. /\ currentInstance' \in instances' \cup {None}
      /\ loading' \in BOOLEAN /\ error' \in BOOLEAN
      /\ data' \in instances' \cup {None}
  BY DEF LoadInstance
<1> QED
  BY <1>2, <1>3, <1>4, <1>5 DEF SelectionTypes

\* Steps that leave the selection and the sidebar alone.
LEMMA SelectionUntouched ==
    ASSUME TypeOK, UNCHANGED <<selection, instances>>
    PROVE  SelectionTypes'
BY DEF TypeOK, SelectionTypes, selection, Loading

\* The polls after an answer was taken away, and after a request was answered.
LEMMA PollTaken ==
    ASSUME TypeOK, NEW n \in Imports, NEW a \in Answers, poll[n][a] > 0
    PROVE  [poll EXCEPT ![n][a] = @ - 1] \in [Imports -> [Answers -> Nat]]
<1>1. poll \in [Imports -> [Answers -> Nat]]
  BY DEF TypeOK
<1>2. poll[n][a] - 1 \in Nat
  BY <1>1
<1> QED
  BY <1>1, <1>2

LEMMA PollAnswered ==
    ASSUME TypeOK, NEW n \in Imports, NEW a \in Answers, poll[n][a] > 0,
           NEW b \in Answers, a # b
    PROVE  [poll EXCEPT ![n][a] = @ - 1, ![n][b] = @ + 1] \in [Imports -> [Answers -> Nat]]
<1>1. poll \in [Imports -> [Answers -> Nat]]
  BY DEF TypeOK
<1>2. poll[n][a] - 1 \in Nat /\ poll[n][b] + 1 \in Nat
  BY <1>1
<1> QED
  BY <1>1, <1>2

\* Steps of the selection leave the other half as it is.
LEMMA RestUntouched ==
    ASSUME TInv, UNCHANGED <<server, polling, instances, faults>>
    PROVE  OtherTypes' /\ RecordsOwn' /\ \A m \in Imports : Known(m)'
<1>1. OtherTypes'
  BY DEF TInv, TypeOK, OtherTypes, server, polling
<1>2. RecordsOwn' /\ \A m \in Imports : Known(m)'
  BY DEF TInv, RecordsOwn, Known, Polled, Once, server, polling
<1> QED
  BY <1>1, <1>2

LEMMA TInvNext ==
    ASSUME TInv, [Next]_vars
    PROVE  TInv'
<1> USE Constants
<1> USE DEF TInv
<1>1. ASSUME NEW n \in Imports, StartImport(n) PROVE TInv'
  <2>1. SelectionTypes'
    BY <1>1, SelectionUntouched DEF StartImport
  <2>2. OtherTypes'
    BY <1>1 DEF StartImport, TypeOK, OtherTypes, Waiting, server
  <2>3. RecordsOwn' /\ \A m \in Imports : Known(m)'
    BY <1>1 DEF StartImport, TypeOK, RecordsOwn, Known, Polled, Once, Answers, server, polling
  <2> QED
    BY <2>1, <2>2, <2>3 DEF TypeOK, OtherTypes, SelectionTypes
<1>2. ASSUME NEW n \in Imports, ServeStart(n) PROVE TInv'
  <2>1. SelectionTypes'
    BY <1>2, SelectionUntouched DEF ServeStart
  <2>2. OtherTypes'
    BY <1>2 DEF ServeStart, TypeOK, OtherTypes, Waiting
  <2>3. RecordsOwn' /\ \A m \in Imports : Known(m)'
    BY <1>2 DEF ServeStart, TypeOK, RecordsOwn, Known, Polled, Once, Answers
  <2> QED
    BY <2>1, <2>2, <2>3 DEF TypeOK, OtherTypes, SelectionTypes
<1>3. ASSUME NEW n \in Imports, PollJob(n) PROVE TInv'
  <2>1. SelectionTypes'
    BY <1>3, SelectionUntouched DEF PollJob
  <2>2. OtherTypes'
    BY <1>3 DEF PollJob, TypeOK, OtherTypes, Waiting, server
  <2>3. RecordsOwn' /\ \A m \in Imports : Known(m)'
    BY <1>3 DEF PollJob, TypeOK, RecordsOwn, Known, Polled, Once, Answers, server, polling
  <2> QED
    BY <2>1, <2>2, <2>3 DEF TypeOK, OtherTypes, SelectionTypes
<1>4. ASSUME NEW n \in Imports, StartFailed(n) PROVE TInv'
  <2>1. SelectionTypes'
    BY <1>4, SelectionUntouched DEF StartFailed
  <2>2. OtherTypes'
    BY <1>4 DEF StartFailed, TypeOK, OtherTypes, server
  <2>3. RecordsOwn' /\ \A m \in Imports : Known(m)'
    BY <1>4 DEF StartFailed, RecordsOwn, Known, Polled, Once, server
  <2> QED
    BY <2>1, <2>2, <2>3 DEF TypeOK, OtherTypes, SelectionTypes
<1>5. ASSUME NEW n \in Imports, Tick(n) PROVE TInv'
  <2>1. SelectionTypes'
    BY <1>5, SelectionUntouched DEF Tick
  <2>2. OtherTypes'
    BY <1>5 DEF Tick, TypeOK, OtherTypes, Answers, server
  <2>3. RecordsOwn' /\ \A m \in Imports : Known(m)'
    BY <1>5 DEF Tick, RecordsOwn, Known, Polled, Once, server
  <2> QED
    BY <2>1, <2>2, <2>3 DEF TypeOK, OtherTypes, SelectionTypes
<1>6. ASSUME NEW n \in Imports, ServePoll(n) PROVE TInv'
  <2>1. SelectionTypes'
    BY <1>6, SelectionUntouched DEF ServePoll
  <2>2. OtherTypes'
    <3>1. Status(n) \in Answers /\ Status(n) # "sent" /\ "sent" \in Answers
      BY DEF Status, Answers
    <3>2. poll' \in [Imports -> [Answers -> Nat]]
      BY <1>6, <3>1, PollAnswered DEF ServePoll
    <3> QED
      BY <1>6, <3>2 DEF ServePoll, TypeOK
  <2>3. RecordsOwn' /\ \A m \in Imports : Known(m)'
    BY <1>6 DEF ServePoll, TypeOK, RecordsOwn, Known, Polled, Once, Answers, server
  <2> QED
    BY <2>1, <2>2, <2>3 DEF TypeOK, OtherTypes, SelectionTypes
<1>7. ASSUME NEW n \in Imports, NEW a \in Answers, PollAgain(n, a) PROVE TInv'
  <2>1. SelectionTypes'
    BY <1>7, SelectionUntouched DEF PollAgain
  <2>2. OtherTypes'
    <3>1. poll' \in [Imports -> [Answers -> Nat]]
      BY <1>7, PollTaken DEF PollAgain
    <3> QED
      BY <1>7 DEF PollAgain, TypeOK, OtherTypes, server
  <2>3. RecordsOwn' /\ \A m \in Imports : Known(m)'
    BY <1>7 DEF PollAgain, RecordsOwn, Known, Polled, Once, server
  <2> QED
    BY <2>1, <2>2, <2>3 DEF TypeOK, OtherTypes, SelectionTypes
<1>8. ASSUME NEW n \in Imports, PollDone(n) PROVE TInv'
  <2>1. SelectionTypes'
    <3>1. Known(n) /\ id[n] \in Ids
      BY <1>8 DEF PollDone, Known, Polled, Once, Answers
    <3> QED
      BY <1>8, <3>1, LoadTypes DEF PollDone
  <2>2. OtherTypes'
    <3>1. id[n] \in Ids /\ "done" \in Answers
      BY <1>8 DEF PollDone, Known, Polled, Answers
    <3>2. poll' \in [Imports -> [Answers -> Nat]]
      BY <1>8, <3>1, PollTaken DEF PollDone
    <3> QED
      BY <1>8, <3>1, <3>2 DEF PollDone, TypeOK, OtherTypes, server
  <2>3. RecordsOwn' /\ \A m \in Imports : Known(m)'
    BY <1>8 DEF PollDone, RecordsOwn, Known, Polled, Once, server
  <2> QED
    BY <2>1, <2>2, <2>3 DEF TypeOK, OtherTypes, SelectionTypes
<1>9. ASSUME NEW n \in Imports, PollError(n) PROVE TInv'
  <2>1. SelectionTypes'
    BY <1>9, SelectionUntouched DEF PollError
  <2>2. OtherTypes'
    <3>1. poll' \in [Imports -> [Answers -> Nat]]
      BY <1>9, PollTaken DEF PollError, Answers
    <3> QED
      BY <1>9, <3>1 DEF PollError, TypeOK, OtherTypes, server
  <2>3. RecordsOwn' /\ \A m \in Imports : Known(m)'
    BY <1>9 DEF PollError, RecordsOwn, Known, Polled, Once, server
  <2> QED
    BY <2>1, <2>2, <2>3 DEF TypeOK, OtherTypes, SelectionTypes
<1>10. ASSUME NEW n \in Imports, Publish(n) PROVE TInv'
  <2>1. SelectionTypes'
    BY <1>10, SelectionUntouched DEF Publish
  <2>2. OtherTypes'
    <3>1. id[n] \in Ids
      BY <1>10 DEF Publish, Known
    <3> QED
      BY <1>10, <3>1 DEF Publish, TypeOK, OtherTypes, polling
  <2>3. RecordsOwn' /\ \A m \in Imports : Known(m)'
    BY <1>10 DEF Publish, TypeOK, RecordsOwn, Known, Polled, Once, polling
  <2> QED
    BY <2>1, <2>2, <2>3 DEF TypeOK, OtherTypes, SelectionTypes
<1>11. ASSUME NEW n \in Imports, Done(n) PROVE TInv'
  <2>1. SelectionTypes'
    BY <1>11, SelectionUntouched DEF Done
  <2>2. OtherTypes'
    <3>1. id[n] \in Ids
      BY <1>11 DEF Done, Known
    <3> QED
      BY <1>11, <3>1 DEF Done, TypeOK, OtherTypes, polling
  <2>3. RecordsOwn' /\ \A m \in Imports : Known(m)'
    BY <1>11 DEF Done, RecordsOwn, Known, Polled, Once, polling
  <2> QED
    BY <2>1, <2>2, <2>3 DEF TypeOK, OtherTypes, SelectionTypes
<1>18. ASSUME NEW n \in Imports, SaveFail(n) \/ Fail(n) PROVE TInv'
  <2>1. SelectionTypes'
    BY <1>18, SelectionUntouched DEF SaveFail, Fail
  <2>2. OtherTypes'
    BY <1>18 DEF SaveFail, Fail, TypeOK, OtherTypes, polling
  <2>3. RecordsOwn' /\ \A m \in Imports : Known(m)'
    <3>1. RecordsOwn'
      BY <1>18 DEF SaveFail, Fail, RecordsOwn, polling
    <3>2. /\ run' = [run EXCEPT ![n] = "error"] /\ run[n] # "none"
          /\ UNCHANGED <<import, id, poll, counters, gone>>
      BY <1>18 DEF SaveFail, Fail, polling
    <3>3. run \in [Imports -> {"none", "running", "published", "done", "error"}]
      BY DEF TypeOK
    <3>4. ASSUME NEW m \in Imports PROVE Known(m)'
      <4>1. Known(m) /\ run'[m] \in {run[m], "error"} /\ (run'[m] = "none" <=> run[m] = "none")
        BY <3>2, <3>3
      <4> QED
        BY <3>2, <4>1 DEF Known, Polled, Once
    <3> QED
      BY <3>1, <3>4
  <2> QED
    BY <2>1, <2>2, <2>3 DEF TypeOK, OtherTypes, SelectionTypes
<1>12. ASSUME NEW i \in Ids, Select(i) PROVE TInv'
  <2>1. SelectionTypes'
    BY <1>12, LoadTypes DEF Select
  <2>2. OtherTypes' /\ RecordsOwn' /\ \A m \in Imports : Known(m)'
    BY <1>12, RestUntouched DEF Select
  <2> QED
    BY <2>1, <2>2 DEF TypeOK, OtherTypes, SelectionTypes
<1>13. ASSUME NEW i \in Ids, Loaded(i) PROVE TInv'
  <2>1. SelectionTypes'
    <3>1. load' \in [Ids -> Nat]
      BY <1>13 DEF Loaded, TypeOK
    <3>2. Loading' \subseteq Loading
      BY <1>13 DEF Loaded, TypeOK, Loading
    <3>3. i \in instances
      BY <1>13 DEF Loaded, TypeOK, Loading
    <3> QED
      BY <1>13, <3>1, <3>2, <3>3 DEF Loaded, TypeOK, SelectionTypes
  <2>2. OtherTypes' /\ RecordsOwn' /\ \A m \in Imports : Known(m)'
    BY <1>13, RestUntouched DEF Loaded
  <2> QED
    BY <2>1, <2>2 DEF TypeOK, OtherTypes, SelectionTypes
<1>14. ASSUME NEW i \in Ids, LoadFailed(i) PROVE TInv'
  <2>1. SelectionTypes'
    <3>1. load' \in [Ids -> Nat]
      BY <1>14 DEF LoadFailed, TypeOK
    <3>2. Loading' \subseteq Loading
      BY <1>14 DEF LoadFailed, TypeOK, Loading
    <3>3. i \in instances
      BY <1>14 DEF LoadFailed, TypeOK, Loading
    <3> QED
      BY <1>14, <3>1, <3>2 DEF LoadFailed, TypeOK, SelectionTypes
  <2>2. OtherTypes' /\ RecordsOwn' /\ \A m \in Imports : Known(m)'
    BY <1>14, RestUntouched DEF LoadFailed
  <2> QED
    BY <2>1, <2>2 DEF TypeOK, OtherTypes, SelectionTypes
<1>15. ASSUME Reload PROVE TInv'
  <2>1. SelectionTypes'
    <3>1. currentInstance' \in counters \cup {None}
      BY <1>15, FirstIsMember DEF Reload, TypeOK
    <3>2. loading' \in BOOLEAN
      BY <1>15, Zenon DEF Reload
    <3>3. load' = [i \in Ids |-> IF i = currentInstance' THEN 1 ELSE 0] /\ instances' = counters
      BY <1>15 DEF Reload
    <3>4. load' \in [Ids -> Nat] /\ Loading' \subseteq instances'
      BY <3>1, <3>3 DEF Loading
    <3> QED
      BY <1>15, <3>1, <3>4 DEF Reload, SelectionTypes
  <2>2. OtherTypes'
    <3>1. import' \in [Imports -> {"idle", "ended"} \cup Waiting]
      BY <1>15 DEF Reload, TypeOK
    <3>2. lost' \subseteq Imports
      BY <1>15 DEF Reload, TypeOK, Followed
    <3>3. faults' \in 0 .. MaxFaults
      BY <1>15, DashboardAssumptions DEF Reload, TypeOK
    <3>4. poll' \in [Imports -> [Answers -> Nat]]
      BY <1>15 DEF Reload
    <3> QED
      BY <1>15, <3>2, <3>3 DEF Reload, TypeOK, OtherTypes, server
  <2>3. RecordsOwn' /\ \A m \in Imports : Known(m)'
    BY <1>15 DEF Reload, RecordsOwn, Known, Polled, Once, Answers, server
  <2> QED
    BY <2>1, <2>2, <2>3 DEF TypeOK, OtherTypes, SelectionTypes
<1>16. ASSUME Restart PROVE TInv'
  <2>1. SelectionTypes'
    BY <1>16, SelectionUntouched DEF Restart
  <2>2. OtherTypes'
    <3>1. faults' \in 0 .. MaxFaults
      BY <1>16, DashboardAssumptions DEF Restart, TypeOK
    <3> QED
      BY <1>16, <3>1 DEF Restart, TypeOK, OtherTypes, polling
  <2>3. RecordsOwn' /\ \A m \in Imports : Known(m)'
    BY <1>16 DEF Restart, RecordsOwn, Known, Polled, Once, polling
  <2> QED
    BY <2>1, <2>2, <2>3 DEF TypeOK, OtherTypes, SelectionTypes
<1>17. CASE UNCHANGED vars
  <2>1. SelectionTypes'
    BY <1>17, SelectionUntouched DEF vars
  <2>2. OtherTypes' /\ RecordsOwn' /\ \A m \in Imports : Known(m)'
    BY <1>17, RestUntouched DEF vars
  <2> QED
    BY <2>1, <2>2 DEF TypeOK, OtherTypes, SelectionTypes
<1> QED
  BY <1>1, <1>2, <1>3, <1>4, <1>5, <1>6, <1>7, <1>8, <1>9, <1>10, <1>11, <1>12, <1>13,
     <1>14, <1>15, <1>16, <1>17, <1>18 DEF Next, Import, Answer, Load, RunJob, Rest, Answers

----------------------------------------------------------------------------
(* The list.  IDs only move from the map to what a restart took and back,  *)
(* and what the page adds to its list by itself was published.             *)

LEMMA ListedNext ==
    ASSUME TInv, ListedCanBeOpened, [Next]_vars
    PROVE  ListedCanBeOpened'
<1>0. instances \subseteq Once
  BY DEF ListedCanBeOpened, Once
<1>1. ASSUME UNCHANGED <<server, instances>> PROVE instances' \subseteq Once'
  BY <1>0, <1>1 DEF Once, server
<1>2. ASSUME NEW n \in Imports, PollDone(n) PROVE instances' \subseteq Once'
  <2>1. id[n] \in Once
    BY <1>2 DEF PollDone, TInv, Known
  <2> QED
    BY <1>0, <1>2, <2>1 DEF PollDone, Once, server
<1>3. ASSUME NEW n \in Imports, ServeStart(n) \/ RunJob(n) PROVE instances' \subseteq Once'
  <2>1. Once \subseteq Once' /\ instances' = instances
    BY <1>3 DEF ServeStart, RunJob, Publish, Done, SaveFail, Fail, Once
  <2> QED
    BY <1>0, <2>1
<1>4. ASSUME Restart PROVE instances' \subseteq Once'
  BY <1>0, <1>4 DEF Restart, Once
<1>5. ASSUME Reload PROVE instances' \subseteq Once'
  BY <1>5 DEF Reload, Once, server
<1>6. ASSUME NEW n \in Imports,
             \/ StartImport(n) \/ PollJob(n) \/ StartFailed(n) \/ Tick(n) \/ ServePoll(n)
             \/ PollAgain(n, "sent") \/ PollAgain(n, "wait") \/ PollError(n)
      PROVE  UNCHANGED <<server, instances>>
  BY <1>6 DEF StartImport, PollJob, StartFailed, Tick, ServePoll, PollAgain, PollError
<1>7. ASSUME NEW i \in Ids, Select(i) \/ Load(i) PROVE UNCHANGED <<server, instances>>
  BY <1>7 DEF Select, Load, Loaded, LoadFailed
<1>8. ASSUME UNCHANGED vars PROVE UNCHANGED <<server, instances>>
  BY <1>8 DEF vars
<1>9. instances' \subseteq Once'
  BY <1>1, <1>2, <1>3, <1>4, <1>5, <1>6, <1>7, <1>8 DEF Next, Import, Answer, Rest
<1> QED
  BY <1>9 DEF ListedCanBeOpened, Once

----------------------------------------------------------------------------
(* One import at a time.  While polls do not overlap, one is out at most and  *)
(* only for the import the page follows, so an end that arrives is the end *)
(* of that import and enables the button at the right time.                *)

OnePoll(n) ==
    /\ \A a \in Answers : poll[n][a] > 0 => import[n] = "polling" /\ poll[n][a] = 1
    /\ \A a, b \in Answers : poll[n][a] > 0 /\ poll[n][b] > 0 => a = b
    /\ poll[n]["done"] > 0 \/ poll[n]["error"] > 0 => ~Running(n)
    /\ import[n] \in {"accepted", "polling"} /\ Running(n) => record[id[n]] = n

Alone ==
    /\ importing <=> Followed # {}
    /\ \A m, n \in Followed : m = n
    /\ \A n \in Imports : Running(n) /\ n \notin lost => n \in Followed

OneAtATime == Alone /\ \A n \in Imports : OnePoll(n)

PInv == late \/ OneAtATime

LEMMA PInvInit == Init => PInv
<1> SUFFICES ASSUME Init PROVE PInv
  OBVIOUS
<1>1. Followed = {}
  BY DEF Init, Followed, Waiting
<1>2. Alone
  BY <1>1 DEF Init, Alone, Running
<1>3. \A n \in Imports : OnePoll(n)
  BY DEF Init, OnePoll, Answers
<1> QED
  BY <1>2, <1>3 DEF PInv, OneAtATime

\* Steps of the selection.
LEMMA PollsUntouched ==
    ASSUME OneAtATime, UNCHANGED <<server, polling>>
    PROVE  OneAtATime'
<1>1. Alone'
  BY DEF OneAtATime, Alone, Followed, Running, server, polling
<1>2. \A m \in Imports : OnePoll(m)'
  BY DEF OneAtATime, OnePoll, Running, server, polling
<1> QED
  BY <1>1, <1>2 DEF OneAtATime

LEMMA PInvNext ==
    ASSUME TInv, PInv, [Next]_vars
    PROVE  PInv'
<1> SUFFICES ASSUME ~late' PROVE OneAtATime'
  BY Zenon DEF PInv
<1> USE Constants
<1> USE DEF Running
<1>0. ASSUME ~late PROVE OneAtATime
  BY <1>0, Zenon DEF PInv
<1>T. /\ TypeOK /\ \A m \in Imports : Known(m)
  BY DEF TInv
<1>1. ASSUME NEW n \in Imports, StartImport(n) PROVE OneAtATime'
  <2>0. Alone /\ \A m \in Imports : OnePoll(m)
    BY <1>1, <1>0 DEF StartImport, OneAtATime
  <2>1. Alone'
    BY <1>1, <2>0, <1>T DEF StartImport, Alone, Followed, Waiting, TypeOK, server
  <2>2. ASSUME NEW m \in Imports PROVE OnePoll(m)'
    <3>1. /\ UNCHANGED <<run, record, id, poll>>
          /\ import' = [import EXCEPT ![n] = "posted"] /\ import[n] = "idle"
      BY <1>1 DEF StartImport, server
    <3>2. import \in [Imports -> {"idle", "ended"} \cup Waiting] /\ OnePoll(m)
      BY <2>0, <1>T DEF TypeOK
    <3>3. CASE m = n
      BY <3>1, <3>2, <3>3 DEF OnePoll
    <3>4. CASE m # n
      BY <3>1, <3>2, <3>4 DEF OnePoll
    <3> QED
      BY <3>3, <3>4
  <2> QED
    BY <2>1, <2>2 DEF OneAtATime
<1>2. ASSUME NEW n \in Imports, ServeStart(n) PROVE OneAtATime'
  <2>0. Alone /\ \A m \in Imports : OnePoll(m)
    BY <1>2, <1>0 DEF ServeStart, OneAtATime
  <2>1. Alone'
    BY <1>2, <2>0 DEF ServeStart, Alone, Followed, Waiting
  <2>2. \A m \in Imports : OnePoll(m)'
    BY <1>2, <2>0, <1>T DEF ServeStart, OnePoll, Alone, Followed, TypeOK, Answers
  <2> QED
    BY <2>1, <2>2 DEF OneAtATime
<1>3. ASSUME NEW n \in Imports, PollJob(n) PROVE OneAtATime'
  <2>0. Alone /\ \A m \in Imports : OnePoll(m)
    BY <1>3, <1>0 DEF PollJob, OneAtATime
  <2>1. Alone'
    BY <1>3, <2>0 DEF PollJob, Alone, Followed, Waiting, server
  <2>2. \A m \in Imports : OnePoll(m)'
    BY <1>3, <2>0 DEF PollJob, OnePoll, server
  <2> QED
    BY <2>1, <2>2 DEF OneAtATime
<1>4. ASSUME NEW n \in Imports, StartFailed(n) PROVE OneAtATime'
  <2>0. Alone /\ \A m \in Imports : OnePoll(m)
    BY <1>4, <1>0 DEF StartFailed, OneAtATime
  <2>1. Alone'
    <3>1. Followed = {n}
      BY <1>4, <2>0 DEF StartFailed, Alone, Followed, Waiting
    <3>2. \A m \in Imports : import'[m] \notin Waiting
      BY <1>4, <3>1, <1>T DEF StartFailed, Followed, Waiting, TypeOK
    <3>3. \A m \in Imports : Running(m)' => m \in lost'
      BY <1>4, <2>0, <3>1, <1>T DEF StartFailed, Alone, Known, server
    <3>4. ~importing'
      BY <1>4, Zenon DEF StartFailed
    <3> QED
      BY <3>2, <3>3, <3>4 DEF Alone, Followed
  <2>2. \A m \in Imports : OnePoll(m)'
    BY <1>4, <2>0, <1>T DEF StartFailed, OnePoll, TypeOK, Answers, server
  <2> QED
    BY <2>1, <2>2 DEF OneAtATime
<1>5. ASSUME NEW n \in Imports, Tick(n) PROVE OneAtATime'
  <2>0. Alone /\ \A m \in Imports : OnePoll(m)
    BY <1>5, <1>0 DEF Tick, OneAtATime
  <2>1. Alone'
    BY <1>5, <2>0 DEF Tick, Alone, Followed, server
  <2>2. \A m \in Imports : OnePoll(m)'
    BY <1>5, <2>0, <1>T DEF Tick, OnePoll, Alone, Followed, TypeOK, Polled, server
  <2> QED
    BY <2>1, <2>2 DEF OneAtATime
<1>6. ASSUME NEW n \in Imports, ServePoll(n) PROVE OneAtATime'
  <2>0. Alone /\ \A m \in Imports : OnePoll(m)
    BY <1>6, <1>0 DEF ServePoll, OneAtATime
  <2>1. Alone'
    BY <1>6, <2>0 DEF ServePoll, Alone, Followed, server
  <2>2. \A m \in Imports : OnePoll(m)'
    BY <1>6, <2>0, <1>T DEF ServePoll, OnePoll, TypeOK, Answers, server
  <2> QED
    BY <2>1, <2>2 DEF OneAtATime
<1>7. ASSUME NEW n \in Imports, NEW a \in Answers, PollAgain(n, a) PROVE OneAtATime'
  <2>0. Alone /\ \A m \in Imports : OnePoll(m)
    BY <1>7, <1>0 DEF PollAgain, OneAtATime
  <2>1. Alone'
    BY <1>7, <2>0 DEF PollAgain, Alone, Followed, server
  <2>2. \A m \in Imports : OnePoll(m)'
    BY <1>7, <2>0 DEF PollAgain, OnePoll, server
  <2> QED
    BY <2>1, <2>2 DEF OneAtATime
<1>8. ASSUME NEW n \in Imports, PollDone(n) PROVE OneAtATime'
  <2>0. Alone /\ \A m \in Imports : OnePoll(m)
    BY <1>8, <1>0 DEF PollDone, OneAtATime
  <2>1. Alone'
    <3>1. Followed = {n}
      BY <1>8, <2>0 DEF PollDone, Alone, OnePoll, Followed, Waiting, Answers
    <3>2. \A m \in Imports : import'[m] \notin Waiting
      BY <1>8, <3>1, <1>T DEF PollDone, Followed, Waiting, TypeOK
    <3>3. \A m \in Imports : Running(m)' => m \in lost'
      BY <1>8, <2>0, <3>1 DEF PollDone, Alone, OnePoll, server
    <3>4. ~importing'
      BY <1>8, Zenon DEF PollDone
    <3> QED
      BY <3>2, <3>3, <3>4 DEF Alone, Followed
  <2>2. \A m \in Imports : OnePoll(m)'
    BY <1>8, <2>0, <1>T DEF PollDone, OnePoll, TypeOK, Answers, server
  <2> QED
    BY <2>1, <2>2 DEF OneAtATime
<1>9. ASSUME NEW n \in Imports, PollError(n) PROVE OneAtATime'
  <2>0. Alone /\ \A m \in Imports : OnePoll(m)
    BY <1>9, <1>0 DEF PollError, OneAtATime
  <2>1. Alone'
    <3>1. Followed = {n}
      BY <1>9, <2>0 DEF PollError, Alone, OnePoll, Followed, Waiting, Answers
    <3>2. \A m \in Imports : import'[m] \notin Waiting
      BY <1>9, <3>1, <1>T DEF PollError, Followed, Waiting, TypeOK
    <3>3. \A m \in Imports : Running(m)' => m \in lost'
      BY <1>9, <2>0, <3>1 DEF PollError, Alone, OnePoll, server
    <3>4. ~importing'
      BY <1>9, Zenon DEF PollError
    <3> QED
      BY <3>2, <3>3, <3>4 DEF Alone, Followed
  <2>2. \A m \in Imports : OnePoll(m)'
    BY <1>9, <2>0, <1>T DEF PollError, OnePoll, TypeOK, Answers, server
  <2> QED
    BY <2>1, <2>2 DEF OneAtATime
<1>10. ASSUME NEW n \in Imports, RunJob(n) PROVE OneAtATime'
  <2>0. Alone /\ \A m \in Imports : OnePoll(m)
    BY <1>10, <1>0 DEF RunJob, Publish, Done, SaveFail, Fail, OneAtATime, polling
  <2>1. /\ UNCHANGED <<polling, record>>
        /\ \A m \in Imports : Running(m)' => Running(m)
    BY <1>10, <1>T DEF RunJob, Publish, Done, SaveFail, Fail, Running, TypeOK
  <2>2. Alone'
    BY <2>0, <2>1 DEF Alone, Followed, polling
  <2>3. \A m \in Imports : OnePoll(m)'
    BY <2>0, <2>1 DEF OnePoll, polling
  <2> QED
    BY <2>2, <2>3 DEF OneAtATime
<1>12. ASSUME NEW i \in Ids, Select(i) \/ Load(i) PROVE OneAtATime'
  <2>1. UNCHANGED <<server, polling>>
    BY <1>12 DEF Select, Load, Loaded, LoadFailed
  <2> QED
    BY <1>0, <2>1, PollsUntouched DEF polling, OneAtATime
<1>13. ASSUME Reload PROVE OneAtATime'
  <2>0. Alone /\ \A m \in Imports : OnePoll(m)
    BY <1>13, <1>0 DEF Reload, OneAtATime
  <2>1. Alone'
    BY <1>13, <2>0, <1>T DEF Reload, Alone, Followed, Waiting, server, Known
  <2>2. \A m \in Imports : OnePoll(m)'
    BY <1>13, <2>0 DEF Reload, OnePoll, Answers, server
  <2> QED
    BY <2>1, <2>2 DEF OneAtATime
<1>14. ASSUME Restart PROVE OneAtATime'
  <2>0. Alone /\ \A m \in Imports : OnePoll(m)
    BY <1>14, <1>0 DEF Restart, OneAtATime, polling
  <2>1. Alone'
    BY <1>14, <2>0 DEF Restart, Alone, Followed, polling
  <2>2. \A m \in Imports : OnePoll(m)'
    BY <1>14, <2>0 DEF Restart, OnePoll, polling
  <2> QED
    BY <2>1, <2>2 DEF OneAtATime
<1>15. CASE UNCHANGED vars
  BY <1>0, <1>15, PollsUntouched DEF vars, polling
<1> QED
  BY <1>1, <1>2, <1>3, <1>4, <1>5, <1>6, <1>7, <1>8, <1>9, <1>10, <1>12, <1>13,
     <1>14, <1>15 DEF Next, Import, Answer, Load, Rest, Answers

----------------------------------------------------------------------------
(* The selection.  PageMatchesSelection is inductive given the types.       *)

Matches ==
    /\ data \in {None, currentInstance}
    /\ \A i \in Loading : i = currentInstance /\ load[i] = 1
    /\ loading <=> Loading # {}
    /\ ~(loading /\ error) /\ (loading \/ error => data = None)

LEMMA MatchesInit == Init => PageMatchesSelection
<1> SUFFICES ASSUME Init PROVE Matches
  BY DEF PageMatchesSelection, Matches
<1>1. counters \subseteq Nat /\ counters \subseteq Ids
  BY Constants DEF Init
<1>2. \A i \in Loading : i = currentInstance /\ load[i] = 1
  BY DEF Init, Loading
<1>3. CASE counters = {}
  <2>1. Loading = {}
    BY <1>3, Constants DEF Init, Loading
  <2> QED
    BY <1>2, <1>3, <2>1 DEF Init, Matches
<1>4. CASE counters # {}
  <2>1. currentInstance \in Ids /\ load[currentInstance] = 1
    BY <1>1, <1>4, FirstIsMember DEF Init
  <2>2. Loading # {}
    BY <2>1 DEF Loading
  <2> QED
    BY <1>2, <1>4, <2>2 DEF Init, Matches
<1> QED
  BY <1>3, <1>4

\* A selection while nothing is loaded.
LEMMA LoadMatches ==
    ASSUME TypeOK, NEW i \in Ids, LoadInstance(i), ~raced'
    PROVE  Matches'
<1>1. Loading = {}
  BY Zenon DEF LoadInstance
<1>2. \A j \in Ids : load'[j] = IF j = i THEN 1 ELSE 0
  BY <1>1 DEF Loading, LoadInstance, TypeOK
<1>3. Loading' = {i}
  BY <1>2 DEF Loading
<1> QED
  BY <1>2, <1>3 DEF LoadInstance, Matches

LEMMA MatchesNext ==
    ASSUME TInv, PageMatchesSelection, [Next]_vars
    PROVE  PageMatchesSelection'
<1> SUFFICES ASSUME ~raced' PROVE Matches'
  BY Zenon DEF PageMatchesSelection, Matches
<1> USE Constants
<1>0. ASSUME ~raced PROVE Matches
  BY <1>0, Zenon DEF PageMatchesSelection, Matches
<1>T. TypeOK
  BY DEF TInv
<1>1. ASSUME UNCHANGED selection PROVE Matches'
  <2>1. Matches
    BY <1>1, <1>0 DEF selection
  <2> QED
    BY <1>1, <2>1 DEF selection, Matches, Loading
<1>2. ASSUME NEW n \in Imports, PollDone(n) PROVE Matches'
  <2>1. id[n] \in Ids
    BY <1>2 DEF PollDone, TInv, Known, Polled, Answers
  <2> QED
    BY <1>2, <1>T, <2>1, LoadMatches DEF PollDone
<1>3. ASSUME NEW i \in Ids, Select(i) PROVE Matches'
  BY <1>3, <1>T, LoadMatches DEF Select
<1>4. ASSUME NEW i \in Ids, Loaded(i) \/ LoadFailed(i) PROVE Matches'
  <2>1. Matches
    BY <1>4, <1>0 DEF Loaded, LoadFailed
  <2>2. load[i] = 1 /\ i = currentInstance
    BY <1>4, <2>1 DEF Loaded, LoadFailed, Matches, Loading
  <2>3. \A j \in Ids : ~(load'[j] > 0)
    BY <1>4, <1>T, <2>1 DEF Loaded, LoadFailed, Matches, Loading, TypeOK
  <2>4. Loading' = {}
    BY <2>3 DEF Loading
  <2>5. loading /\ ~error /\ data = None
    BY <1>4, <2>1 DEF Loaded, LoadFailed, Matches, Loading
  <2> QED
    BY <1>4, <2>2, <2>4, <2>5 DEF Loaded, LoadFailed, Matches
<1>5. ASSUME Reload PROVE Matches'
  <2>1. load' = [i \in Ids |-> IF i = currentInstance' THEN 1 ELSE 0]
    BY <1>5 DEF Reload
  <2>2. \A i \in Loading' : i = currentInstance' /\ load'[i] = 1
    BY <2>1 DEF Loading
  <2>3. CASE counters = {}
    <3>1. Loading' = {}
      BY <1>5, <2>1, <2>3 DEF Reload, Loading
    <3> QED
      BY <1>5, <2>3, <3>1 DEF Reload, Matches
  <2>4. CASE counters # {}
    <3>1. currentInstance' \in Ids /\ load'[currentInstance'] = 1
      BY <1>5, <1>T, <2>4, FirstIsMember DEF Reload, TypeOK
    <3>2. Loading' # {}
      BY <3>1 DEF Loading
    <3> QED
      BY <1>5, <2>2, <2>4, <3>2 DEF Reload, Matches
  <2> QED
    BY <2>3, <2>4
<1>6. ASSUME NEW n \in Imports,
             \/ StartImport(n) \/ Import(n) \/ Tick(n) \/ ServePoll(n)
             \/ PollAgain(n, "sent") \/ PollAgain(n, "wait") \/ PollError(n)
             \/ RunJob(n)
      PROVE  UNCHANGED selection
  BY <1>6 DEF StartImport, Import, ServeStart, PollJob, StartFailed, Tick, ServePoll,
     PollAgain, PollError, RunJob, Publish, Done, SaveFail, Fail
<1>7. ASSUME Restart \/ UNCHANGED vars PROVE UNCHANGED selection
  BY <1>7 DEF Restart, vars
<1> QED
  BY <1>1, <1>2, <1>3, <1>4, <1>5, <1>6, <1>7 DEF Next, Answer, Load, Rest

----------------------------------------------------------------------------
(* Theorems.                                                               *)

(* The types, whatever is lost, late, restarted or saved in vain.           *)
THEOREM TypeCorrect == Spec => []TypeOK
<1>1. Spec => []TInv
  BY TInvInit, TInvNext, PTL DEF Spec
<1>2. TInv => TypeOK
  BY DEF TInv
<1> QED
  BY <1>1, <1>2, PTL

(* What the page lists is in the result map, also without a row, unless a  *)
(* restart took it from there.                                             *)
THEOREM ListedIsServed == Spec => []ListedCanBeOpened
<1>1. Init => ListedCanBeOpened
  BY DEF Init, ListedCanBeOpened
<1>2. TInv /\ ListedCanBeOpened /\ [Next]_vars => TInv' /\ ListedCanBeOpened'
  BY TInvNext, ListedNext
<1> QED
  BY <1>1, <1>2, TInvInit, PTL DEF Spec

(* One import at a time, for any number of imports, restarts and reloads,  *)
(* as long as no poll is sent before the last one has been answered.       *)
THEOREM ImportsOneAtATime == Spec => []OneImport
<1>1. Spec => [](TInv /\ PInv)
  <2>1. Init => TInv /\ PInv
    BY TInvInit, PInvInit
  <2>2. TInv /\ PInv /\ [Next]_vars => TInv' /\ PInv'
    BY TInvNext, PInvNext
  <2> QED
    BY <2>1, <2>2, PTL DEF Spec
<1>2. PInv => OneImport
  BY Zenon DEF PInv, OneAtATime, Alone, OneImport
<1> QED
  BY <1>1, <1>2, PTL

(* What is shown is what is selected, for any number of instances, as long *)
(* as a selection waits for the one before it to be loaded.                *)
THEOREM SelectionIsShown == Spec => []PageMatchesSelection
<1>1. TInv /\ PageMatchesSelection /\ [Next]_vars => TInv' /\ PageMatchesSelection'
  BY TInvNext, MatchesNext
<1>2. Init => TInv /\ PageMatchesSelection
  BY TInvInit, MatchesInit
<1> QED
  BY <1>1, <1>2, PTL DEF Spec
=============================================================================
