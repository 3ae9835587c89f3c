----------------------------- MODULE ResultLog -----------------------------
(***************************************************************************)
(* What the analyzer promises a user about analysis results ("History      *)
(* Tracking: compare analyses over time"): a log with one entry per        *)
(* analysis ID.  An entry is written once and never changes, and a client  *)
(* is told that an analysis is done only once its entry is in the log.     *)
(*                                                                         *)
(* The module says nothing about jobs, files, memory or restarts:          *)
(* ImportJobs is shown to implement it.                                    *)
(***************************************************************************)
CONSTANTS Ids,        \* analysis IDs, ns_pod_date_NN in the code
          Results,    \* what can be stored for an ID
          None        \* "no row"

VARIABLES log,        \* log[i]: the entry of i, or None
          told        \* the IDs a client has been told are done

vars == <<log, told>>

Init == /\ log = [i \in Ids |-> None]
        /\ told = {}

\* An analysis that was not in the log is added to it.
Append(i, r) == /\ log[i] = None
                /\ log' = [log EXCEPT ![i] = r]
                /\ UNCHANGED told

\* A client is told that i is done: only when its entry can be read.
Tell(i) == /\ log[i] # None
           /\ told' = told \cup {i}
           /\ UNCHANGED log

Next == \E i \in Ids : Tell(i) \/ \E r \in Results : Append(i, r)

Spec == Init /\ [][Next]_vars
=============================================================================
