------------------------------ MODULE Analysis -----------------------------
(***************************************************************************)
(* What the parsing phase of an import promises to everybody else: after a *)
(* while a result appears, all at once; it covers the dump from its first  *)
(* object on, and all of it unless the dump could not be read; it does not *)
(* change afterwards; then the end of the job is shown.                    *)
(*                                                                         *)
(* ImportJobs uses this phase as its step Publish; Pipeline, with its      *)
(* three goroutines and a channel, implements it.                          *)
(***************************************************************************)
EXTENDS Naturals

CONSTANTS N,           \* objects in the dump
          NoResult

VARIABLES result,      \* the objects counted in the visible result, or NoResult
          damaged,     \* the dump turned out to be unreadable at some point
          outcome      \* "running", "done" or "error"

vars == <<result, damaged, outcome>>

Init == result = NoResult /\ damaged = FALSE /\ outcome = "running"

\* Reading the dump fails.
Damage == /\ result = NoResult
          /\ damaged' = TRUE
          /\ UNCHANGED <<result, outcome>>

\* The result is published: a prefix of the dump, proper only if it is damaged.
Publish == /\ result = NoResult
           /\ \E k \in 0 .. N : (k = N \/ damaged) /\ result' = 1 .. k
           /\ UNCHANGED <<damaged, outcome>>

\* The end is shown, an error when the result could not be saved.
Report == /\ result # NoResult
          /\ outcome = "running"
          /\ outcome' \in {"done", "error"}
          /\ UNCHANGED <<result, damaged>>

Next == Damage \/ Publish \/ Report

Spec == Init /\ [][Next]_vars

\* A result appears, and an end after it.
FairSpec == Spec /\ WF_vars(Publish) /\ WF_vars(Report)
=============================================================================
