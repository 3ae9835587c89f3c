----------------------------- MODULE Pipeline ------------------------------
(***************************************************************************)
(* The parsing phase of one import at the granularity of its goroutines    *)
(* (server/job.go, from os.Open to the return of runJob):                  *)
(*   - the decoder goroutine: stat the file, wrap it in a progress bar,    *)
(*     start the poller, DecodeWithHDT, finish the bar, Progress = 100;    *)
(*   - the channel decoder.Entries, with a fixed capacity;                 *)
(*   - runJob itself: Counter.Count ranges over the channel, then the      *)
(*     result is published and saved, the end is shown, the file closed;   *)
(*   - the poller, which copies the bar's position to job.Progress.        *)
(* Nobody waits for the decoder goroutine or for the poller.               *)
(*                                                                         *)
(* The dump has N objects, numbered in file order, and a trailer; reading  *)
(* is measured in these N + 1 pieces and runs ahead of parsing as far as   *)
(* the parser's buffer lets it.                                            *)
(***************************************************************************)
EXTENDS Integers, Sequences

CONSTANTS N,          \* objects in the dump
          Capacity,   \* of the channel (100000 in decoder.NewDecoder)
          None

ASSUME PipelineAssumptions ==
    /\ N \in Nat
    /\ Capacity \in Nat \ {0}
    /\ \A k \in 0 .. N : 1 .. k # None

Total == N + 1        \* fInfo.Size()

VARIABLES
    dpc,        \* where the decoder goroutine is
    tracked,    \* f.Stat succeeded: there are a bar and a poller
    position,   \* bar.State().CurrentBytes: what has been read of the file
    finished,   \* bar.IsFinished()
    sent,       \* objects put in the channel so far
    entries,    \* decoder.Entries
    closed,     \* the channel is closed
    failed,     \* Parse has returned an error, which nobody looks at
    rpc,        \* where runJob is
    counted,    \* counter.TotalCount
    seen,       \* the objects that the counter has counted
    outcome,    \* job.State: "running" stands for every state before the end
    open,       \* f is open
    ppc,        \* where the poller is
    sample,     \* the poller's local `current`
    progress    \* job.Progress, 100 being Total

vars == <<dpc, tracked, position, finished, sent, entries, closed, failed,
          rpc, counted, seen, outcome, open, ppc, sample, progress>>

bar     == <<position, finished>>
channel == <<sent, entries, closed>>
runJob  == <<rpc, counted, seen, outcome, open>>
poller  == <<ppc, sample>>

Init ==
    /\ dpc = "stat"
    /\ tracked = FALSE
    /\ position = 0
    /\ finished = FALSE
    /\ sent = 0
    /\ entries = <<>>
    /\ closed = FALSE
    /\ failed = FALSE
    /\ rpc = "count"
    /\ counted = 0
    /\ seen = {}
    /\ outcome = "running"
    /\ open = TRUE
    /\ ppc = "none"
    /\ sample = 0
    /\ progress = 0

----------------------------------------------------------------------------
(* The decoder goroutine.                                                  *)

\* f.Stat succeeds: a bar for Total bytes, and the poller is started.
StatOk ==
    /\ dpc = "stat"
    /\ dpc' = "parse"
    /\ tracked' = TRUE
    /\ ppc' = "check"
    /\ UNCHANGED <<bar, channel, failed, runJob, sample, progress>>

\* f.Stat fails: the file is parsed without a bar.
StatFail ==
    /\ dpc = "stat"
    /\ dpc' = "parse"
    /\ UNCHANGED <<tracked, bar, channel, failed, runJob, poller, progress>>

\* The parser reads on; the bar counts it and may finish itself when it is full.
Read ==
    /\ dpc = "parse"
    /\ open
    /\ position < Total
    /\ position' = position + 1
    /\ finished' \in {finished, tracked /\ position' = Total}
    /\ UNCHANGED <<dpc, tracked, channel, failed, runJob, poller, progress>>

\* The parser's callback: d.Entries <- &entryCopy waits for room.
SendTo(queue) ==
    /\ dpc = "parse"
    /\ sent < N
    /\ sent < position
    /\ sent' = sent + 1
    /\ entries' = queue
    /\ UNCHANGED <<dpc, tracked, bar, closed, failed, runJob, poller, progress>>

SendUnbounded == SendTo(Append(entries, sent + 1))

SendSharedPointer == /\ Len(entries) < Capacity
                     /\ SendTo([i \in 1 .. Len(entries) + 1 |-> sent + 1])

Send == /\ Len(entries) < Capacity
        /\ SendTo(Append(entries, sent + 1))

\* Parse returns nil after the last object and the trailer.
ParseEnd ==
    /\ dpc = "parse"
    /\ sent = N
    /\ position = Total
    /\ dpc' = "close"
    /\ UNCHANGED <<tracked, bar, channel, failed, runJob, poller, progress>>

\* Parse returns an error: a damaged or truncated dump, or a failing read.
ParseFail ==
    /\ dpc = "parse"
    /\ dpc' = "close"
    /\ failed' = TRUE
    /\ UNCHANGED <<tracked, bar, channel, runJob, poller, progress>>

\* close(d.Entries) on both paths; without a bar that is all.
CloseWith(c) ==
    /\ dpc = "close"
    /\ dpc' = IF tracked THEN "finish" ELSE "end"
    /\ closed' = c
    /\ UNCHANGED <<tracked, bar, sent, entries, failed, runJob, poller, progress>>

CloseOnSuccess == CloseWith(~failed)

Close == CloseWith(TRUE)

\* bar.Finish().
FinishBarWith(f) ==
    /\ dpc = "finish"
    /\ dpc' = "full"
    /\ finished' = f
    /\ position' = Total
    /\ UNCHANGED <<tracked, channel, failed, runJob, poller, progress>>

FinishBarSilently == FinishBarWith(finished)

FinishBar == FinishBarWith(TRUE)

\* job.Progress = 100 // Ensure 100% on finish
FullProgress ==
    /\ dpc = "full"
    /\ dpc' = "end"
    /\ progress' = Total
    /\ UNCHANGED <<tracked, bar, channel, failed, runJob, poller>>

----------------------------------------------------------------------------
(* The poller.                                                             *)

\* IsFinished, which ends the loop, else State.
PollerSample ==
    /\ ppc = "check"
    /\ IF finished THEN ppc' = "end" /\ UNCHANGED sample
                   ELSE ppc' = "write" /\ sample' = position
    /\ UNCHANGED <<dpc, tracked, bar, channel, failed, runJob, progress>>

\* job.Progress = ..., then the 500 ms sleep.
PollerWrite ==
    /\ ppc = "write"
    /\ ppc' = "check"
    /\ progress' = sample
    /\ UNCHANGED <<dpc, tracked, bar, channel, failed, runJob, sample>>

----------------------------------------------------------------------------
(* runJob.                                                                 *)

\* for e := range in: c.count(e).
CountEntry ==
    /\ rpc = "count"
    /\ entries # <<>>
    /\ entries' = Tail(entries)
    /\ counted' = counted + 1
    /\ seen' = seen \cup {Head(entries)}
    /\ UNCHANGED <<dpc, tracked, bar, sent, closed, failed, rpc, outcome, open, poller, progress>>

\* The range loop ends on a closed channel, once it is empty.
CountEndIf(ready) ==
    /\ rpc = "count"
    /\ ready
    /\ rpc' = "publish"
    /\ UNCHANGED <<dpc, tracked, bar, channel, failed, counted, seen, outcome, open, poller, progress>>

CountEndOnClosed == CountEndIf(closed)

CountEndWhenEmpty == CountEndIf(entries = <<>>)

CountEnd == CountEndIf(closed /\ entries = <<>>)

RunJobStep(from, to) ==
    /\ rpc = from
    /\ rpc' = to
    /\ UNCHANGED <<dpc, tracked, bar, channel, failed, counted, seen, poller, progress>>

\* counters.Set: the result is visible from here on.
Publish == RunJobStep("publish", "save") /\ UNCHANGED <<open, outcome>>

\* SaveAnalysis, then the end is shown.
SaveAndReport == /\ RunJobStep("save", "returning")
                 /\ outcome' \in {"done", "error"}
                 /\ UNCHANGED open

\* The deferred f.Close.
CloseFile == /\ RunJobStep("returning", "end")
             /\ open' = FALSE
             /\ UNCHANGED outcome

----------------------------------------------------------------------------
Terminated == dpc = "end" /\ rpc = "end" /\ ppc \in {"none", "end"}

\* All goroutines have returned.
Stop == Terminated /\ UNCHANGED vars

Decoder == StatOk \/ StatFail \/ Read \/ Send \/ ParseEnd \/ ParseFail
           \/ Close \/ FinishBar \/ FullProgress
Poller  == PollerSample \/ PollerWrite
RunJob  == CountEntry \/ CountEnd \/ Publish \/ SaveAndReport \/ CloseFile

Next == Decoder \/ Poller \/ RunJob \/ Stop

Spec == Init /\ [][Next]_vars

\* The Go scheduler runs each of the three goroutines that can run.
Fairness == WF_vars(Decoder) /\ WF_vars(Poller) /\ WF_vars(RunJob)

FairSpec == Spec /\ Fairness
----------------------------------------------------------------------------
(* Properties.                                                             *)

\* Every variable has its type; the channel holds at most Capacity entries.
TypeOK ==
    /\ dpc \in {"stat", "parse", "close", "finish", "full", "end"}
    /\ tracked \in BOOLEAN
    /\ position \in 0 .. Total
    /\ finished \in BOOLEAN
    /\ sent \in 0 .. N
    /\ entries \in Seq(1 .. N) /\ Len(entries) <= Capacity
    /\ closed \in BOOLEAN
    /\ failed \in BOOLEAN
    /\ rpc \in {"count", "publish", "save", "returning", "end"}
    /\ counted \in 0 .. N
    /\ seen \subseteq 1 .. N
    /\ outcome \in {"running", "done", "error"}
    /\ open \in BOOLEAN
    /\ ppc \in {"none", "check", "write", "end"}
    /\ sample \in 0 .. Total
    /\ progress \in 0 .. Total

(* Each object the parser has delivered is counted or still in the         *)
(* channel, in file order and exactly once.                                *)
ExactlyOnce ==
    /\ seen = 1 .. counted
    /\ entries = [i \in 1 .. sent - counted |-> counted + i]

(* When Count has returned, every object of the dump has been counted,     *)
(* unless the parser gave up: nothing is lost between the goroutines.      *)
CompleteUnlessFailed ==
    rpc # "count" => seen = 1 .. sent /\ (sent = N \/ failed)

(* runJob closes the file, and later removes it, without waiting for the   *)
(* decoder goroutine; still that goroutine has read its last byte by then. *)
OpenWhileParsing == dpc \in {"stat", "parse"} => open

(* Neither side of the channel can be left waiting for the other: while    *)
(* the parser may still send, the counter is receiving, and while the      *)
(* counter waits on an empty channel, the decoder goroutine has not yet    *)
(* passed close.  The capacity plays no part.                              *)
NoStandstill ==
    /\ dpc \in {"stat", "parse", "close"} => rpc = "count"
    /\ rpc = "count" /\ ~closed => dpc \in {"stat", "parse", "close"}

(* All three goroutines return: whatever the capacity, neither the sender  *)
(* nor the receiver is stuck, also when parsing fails half-way, and the    *)
(* poller sees the bar finish.                                             *)
AllReturn == <>Terminated

(* "Ensure 100% on finish" (job.go:168): when the decoder goroutine of a   *)
(* tracked import has finished, the import shows 100%.                     *)
FullAtTheEnd == dpc = "end" /\ tracked => progress = Total

(* "Analysis Complete" (job.go:191): a job that ends in state done has     *)
(* counted the whole dump.                                                 *)
DoneIsComplete == outcome = "done" => seen = 1 .. N

(* The phase as the rest of the server sees it: one result that appears at *)
(* once, is whole unless the dump is damaged, never changes, and is        *)
(* followed by an end.                                                     *)
Result == INSTANCE Analysis WITH
              NoResult <- None,
              damaged  <- failed,
              result   <- IF rpc \in {"count", "publish"} THEN None ELSE seen

ImplementsAnalysis == Result!FairSpec
=============================================================================
