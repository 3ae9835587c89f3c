--------------------------- MODULE PipelineProofs --------------------------
(***************************************************************************)
(* Proofs about Pipeline, for every dump and every channel capacity.       *)
(*                                                                         *)
(* The invariant ties the three program counters together: the channel is  *)
(* closed exactly when the decoder goroutine is past close, runJob is past *)
(* Count only when the channel is closed and drained, and between the two  *)
(* the channel holds the numbers counted + 1 .. sent in order.             *)
(***************************************************************************)
EXTENDS Pipeline, SequenceTheorems, TLAPS

\* What the channel holds when a objects were received and b were sent.
Queue(a, b) == [i \in 1 .. b - a |-> a + i]

\* A queue is a sequence, as long as the difference of the counts.
LEMMA QueueSeq ==
  ASSUME NEW a \in Nat, NEW b \in Nat, a <= b
  PROVE  Queue(a, b) \in Seq(Nat) /\ Len(Queue(a, b)) = b - a
  BY DEF Queue

\* Sending the next object makes the queue one longer.
LEMMA QueueAppend ==
  ASSUME NEW a \in Nat, NEW b \in Nat, a <= b
  PROVE  Append(Queue(a, b), b + 1) = Queue(a, b + 1)
<1>1. Queue(a, b) \in Seq(Nat) /\ Len(Queue(a, b)) = b - a
  BY QueueSeq
<1>2. Queue(a, b + 1) \in Seq(Nat) /\ Len(Queue(a, b + 1)) = b + 1 - a
  BY QueueSeq
<1>3. Append(Queue(a, b), b + 1) \in Seq(Nat) /\ Len(Append(Queue(a, b), b + 1)) = b + 1 - a
  BY <1>1
<1>4. \A i \in 1 .. b + 1 - a : Append(Queue(a, b), b + 1)[i] = Queue(a, b + 1)[i]
  BY <1>1 DEF Queue
<1> QED
  BY <1>2, <1>3, <1>4, SeqEqual

\* Receiving takes the oldest object.
LEMMA QueueTail ==
  ASSUME NEW a \in Nat, NEW b \in Nat, a < b
  PROVE  Head(Queue(a, b)) = a + 1 /\ Tail(Queue(a, b)) = Queue(a + 1, b)
<1>1. Queue(a, b) \in Seq(Nat) /\ Len(Queue(a, b)) = b - a /\ Queue(a, b) # <<>>
  BY QueueSeq
<1>2. Queue(a + 1, b) \in Seq(Nat) /\ Len(Queue(a + 1, b)) = b - (a + 1)
  BY QueueSeq
<1>3. Tail(Queue(a, b)) \in Seq(Nat) /\ Len(Tail(Queue(a, b))) = b - (a + 1)
  BY <1>1
<1>4. \A i \in 1 .. b - (a + 1) : Tail(Queue(a, b))[i] = Queue(a + 1, b)[i]
  BY <1>1 DEF Queue
<1>5. Head(Queue(a, b)) = a + 1
  BY <1>1 DEF Queue
<1> QED
  BY <1>2, <1>3, <1>4, <1>5, SeqEqual

\* Nothing waits exactly when all that was sent has been received.
LEMMA QueueEmpty ==
  ASSUME NEW a \in Nat, NEW b \in Nat, a <= b
  PROVE  Queue(a, b) = <<>> <=> a = b
<1>1. Queue(a, b) \in Seq(Nat) /\ Len(Queue(a, b)) = b - a
  BY QueueSeq
<1>2. Queue(a, b) = <<>> <=> Len(Queue(a, b)) = 0
  BY <1>1, EmptySeq
<1> QED
  BY <1>1, <1>2

----------------------------------------------------------------------------
\* The three goroutines and the channel between them.
Coupling ==
    /\ counted <= sent
    /\ seen = 1 .. counted
    /\ entries = Queue(counted, sent)
    /\ closed <=> dpc \in {"finish", "full", "end"}
    /\ dpc \notin {"stat", "parse"} => sent = N \/ failed
    /\ rpc # "count" => closed /\ entries = <<>>
    /\ open <=> rpc # "end"
    /\ outcome = "running" <=> rpc \in {"count", "publish", "save"}
    /\ failed => dpc \notin {"stat", "parse"}

Inv == TypeOK /\ Coupling

\* Inv holds initially ...
LEMMA InitInv == Init => Inv
<1> SUFFICES ASSUME Init PROVE Inv
  OBVIOUS
<1>1. Queue(0, 0) = <<>> /\ 1 .. 0 = {}
  BY QueueEmpty
<1>2. entries = Queue(counted, sent)
  BY <1>1 DEF Init
<1>3. entries \in Seq(1 .. N) /\ Len(entries) = 0
  BY EmptySeq DEF Init
<1>4. /\ dpc = "stat" /\ rpc = "count" /\ ppc = "none" /\ outcome = "running"
      /\ tracked = FALSE /\ finished = FALSE /\ closed = FALSE /\ failed = FALSE /\ open = TRUE
      /\ position = 0 /\ sent = 0 /\ counted = 0 /\ sample = 0 /\ progress = 0 /\ seen = {}
  BY DEF Init
<1>5. TypeOK
  <2>1. /\ position \in 0 .. Total /\ sample \in 0 .. Total /\ progress \in 0 .. Total
        /\ sent \in 0 .. N /\ counted \in 0 .. N /\ Len(entries) <= Capacity
    BY <1>3, <1>4, PipelineAssumptions DEF Total
  <2> QED
    BY <1>3, <1>4, <2>1 DEF TypeOK
<1>6. Coupling
  BY <1>1, <1>2 DEF Init, Coupling
<1> QED
  BY <1>5, <1>6 DEF Inv

\* ... and every step of every goroutine keeps it.
LEMMA NextInv ==
  ASSUME Inv, [Next]_vars
  PROVE  Inv'
<1> USE PipelineAssumptions
    DEF Inv, TypeOK, Coupling, Total, bar, channel, runJob, poller
<1>1. CASE StatOk \/ StatFail
  <2>1. TypeOK'
    BY <1>1 DEF StatOk, StatFail
  <2>2. Coupling'
    BY <1>1 DEF StatOk, StatFail
  <2> QED
    BY <2>1, <2>2
<1>2. CASE Read
  BY <1>2 DEF Read
<1>3. CASE Send
  <2>1. entries' = Append(entries, sent + 1) /\ sent' = sent + 1 /\ dpc = "parse"
    BY <1>3 DEF Send, SendTo
  <2>2. entries' = Queue(counted, sent')
    <3>1. counted \in Nat /\ sent \in Nat /\ counted <= sent
      OBVIOUS
    <3>2. Append(Queue(counted, sent), sent + 1) = Queue(counted, sent + 1)
      BY <3>1, QueueAppend
    <3> QED
      BY <2>1, <3>2
  <2>3. entries' \in Seq(1 .. N) /\ Len(entries') <= Capacity
    <3>1. sent + 1 \in 1 .. N /\ Len(entries) < Capacity
      BY <1>3 DEF Send, SendTo
    <3> QED
      BY <2>1, <3>1, AppendProperties
  <2> QED
    BY <1>3, <2>1, <2>2, <2>3 DEF Send, SendTo
<1>4. CASE ParseEnd \/ ParseFail
  <2>1. TypeOK'
    BY <1>4 DEF ParseEnd, ParseFail
  <2>2. Coupling'
    BY <1>4 DEF ParseEnd, ParseFail
  <2> QED
    BY <2>1, <2>2
<1>5. CASE Close
  BY <1>5 DEF Close, CloseWith
<1>6. CASE FinishBar \/ FullProgress
  <2>1. TypeOK'
    <3>1. CASE FinishBar
      BY <3>1 DEF FinishBar, FinishBarWith
    <3>2. CASE FullProgress
      BY <3>2 DEF FullProgress
    <3> QED
      BY <1>6, <3>1, <3>2
  <2>2. Coupling'
    <3>1. CASE FinishBar
      BY <3>1 DEF FinishBar, FinishBarWith
    <3>2. CASE FullProgress
      BY <3>2 DEF FullProgress
    <3> QED
      BY <1>6, <3>1, <3>2
  <2> QED
    BY <2>1, <2>2
<1>7. CASE PollerSample \/ PollerWrite
  BY <1>7 DEF PollerSample, PollerWrite
<1>8. CASE CountEntry
  <2>1. counted < sent
    BY <1>8, QueueEmpty DEF CountEntry
  <2>2. Head(entries) = counted + 1 /\ entries' = Queue(counted + 1, sent)
    BY <1>8, <2>1, QueueTail DEF CountEntry
  <2>3. seen' = 1 .. counted'
    BY <1>8, <2>1, <2>2 DEF CountEntry
  <2>4. entries' \in Seq(1 .. N) /\ Len(entries') <= Capacity
    BY <1>8 DEF CountEntry
  <2> QED
    BY <1>8, <2>1, <2>2, <2>3, <2>4 DEF CountEntry
<1>9. CASE CountEnd
  BY <1>9 DEF CountEnd, CountEndIf
<1>10. CASE Publish \/ SaveAndReport \/ CloseFile
  BY <1>10 DEF Publish, SaveAndReport, CloseFile, RunJobStep
<1>11. CASE Stop \/ UNCHANGED vars
  BY <1>11 DEF Stop, vars
<1> QED
  BY <1>1, <1>2, <1>3, <1>4, <1>5, <1>6, <1>7, <1>8, <1>9, <1>10, <1>11
  DEF Next, Decoder, Poller, RunJob

\* Closed and drained: counted has caught up with sent.
LEMMA CompleteNow ==
  ASSUME Inv PROVE CompleteUnlessFailed
<1>1. SUFFICES ASSUME rpc # "count" PROVE seen = 1 .. sent /\ (sent = N \/ failed)
  BY DEF CompleteUnlessFailed
<1>2. counted \in Nat /\ sent \in Nat /\ counted <= sent
  BY PipelineAssumptions DEF Inv, TypeOK, Coupling
<1>3. closed /\ Queue(counted, sent) = <<>>
  BY <1>1 DEF Inv, Coupling
<1>4. counted = sent
  BY <1>2, <1>3, QueueEmpty
<1>5. sent = N \/ failed
  BY <1>3 DEF Inv, Coupling
<1> QED
  BY <1>4, <1>5 DEF Inv, Coupling

\* Inv is inductive, so it always holds.
LEMMA InvHolds == Spec => []Inv
  BY InitInv, NextInv, PTL DEF Spec

(***************************************************************************)
(* Type correctness; in particular the channel never holds more than       *)
(* Capacity entries.                                                       *)
(***************************************************************************)
THEOREM TypeCorrect == Spec => []TypeOK
<1>1. Inv => TypeOK
  BY DEF Inv
<1> QED
  BY <1>1, InvHolds, PTL

(***************************************************************************)
(* For a dump of any length and a channel of any capacity, every object    *)
(* the parser has sent is counted, or waits in the channel, exactly once   *)
(* and in file order.                                                      *)
(***************************************************************************)
THEOREM EachEntryOnce == Spec => []ExactlyOnce
<1>1. Inv => ExactlyOnce
  BY DEF Inv, Coupling, ExactlyOnce, Queue
<1> QED
  BY <1>1, InvHolds, PTL

(***************************************************************************)
(* When Count has returned it has counted all that was sent, and that is   *)
(* the whole dump unless Parse returned the error that nobody looks at.    *)
(***************************************************************************)
THEOREM CountIsComplete == Spec => []CompleteUnlessFailed
  BY CompleteNow, InvHolds, PTL

(***************************************************************************)
(* The deferred f.Close of runJob never takes the file away from the       *)
(* decoder goroutine, although runJob does not wait for it.                *)
(***************************************************************************)
THEOREM FileOpenWhileParsing == Spec => []OpenWhileParsing
<1>1. Inv => OpenWhileParsing
  BY DEF Inv, Coupling, OpenWhileParsing
<1> QED
  BY <1>1, InvHolds, PTL

(***************************************************************************)
(* For every capacity, neither end of the channel is abandoned while the   *)
(* other end still needs it.                                               *)
(***************************************************************************)
THEOREM ChannelNeverStandsStill == Spec => []NoStandstill
<1>1. Inv => NoStandstill
  BY DEF Inv, TypeOK, Coupling, NoStandstill
<1> QED
  BY <1>1, InvHolds, PTL

----------------------------------------------------------------------------
\* Nothing has been published yet in an initial state.
LEMMA InitImplements == Init => Result!Init
  BY DEF Init, Result!Init

\* Publish, SaveAndReport and ParseFail are the steps that Analysis sees.
LEMMA NextImplements ==
  ASSUME Inv, [Next]_vars
  PROVE  [Result!Next]_Result!vars
<1> USE DEF Result!vars, bar, channel, runJob, poller
<1>1. CASE StatOk \/ StatFail \/ Read \/ Send \/ ParseEnd \/ Close \/ FinishBar
           \/ FullProgress
  BY <1>1 DEF StatOk, StatFail, Read, Send, SendTo, ParseEnd, Close, CloseWith,
     FinishBar, FinishBarWith, FullProgress
<1>2. CASE ParseFail
  <2>1. rpc = "count"
    BY <1>2 DEF ParseFail, Inv, TypeOK, Coupling
  <2> QED
    BY <1>2, <2>1 DEF ParseFail, Result!Next, Result!Damage
<1>3. CASE PollerSample \/ PollerWrite
  BY <1>3 DEF PollerSample, PollerWrite
<1>4. CASE CountEntry \/ CountEnd
  BY <1>4 DEF CountEntry, CountEnd, CountEndIf
<1>5. CASE Publish
  <2>1. rpc = "publish" /\ rpc' = "save" /\ UNCHANGED <<failed, seen, outcome>>
    BY <1>5 DEF Publish, RunJobStep
  <2>2. seen = 1 .. sent /\ (sent = N \/ failed) /\ sent \in 0 .. N
    BY <2>1, CompleteNow DEF Inv, TypeOK, CompleteUnlessFailed
  <2>3. Result!Publish
    BY <2>1, <2>2 DEF Result!Publish
  <2> QED
    BY <2>3 DEF Result!Next
<1>6. CASE SaveAndReport
  <2>1. /\ rpc = "save" /\ rpc' = "returning" /\ UNCHANGED <<failed, seen>>
        /\ outcome' \in {"done", "error"}
    BY <1>6 DEF SaveAndReport, RunJobStep
  <2>2. outcome = "running"
    BY <2>1 DEF Inv, Coupling
  <2>3. seen # None
    BY PipelineAssumptions DEF Inv, TypeOK, Coupling
  <2> QED
    BY <2>1, <2>2, <2>3 DEF Result!Next, Result!Report
<1>7. CASE CloseFile
  BY <1>7 DEF CloseFile, RunJobStep
<1>8. CASE Stop \/ UNCHANGED vars
  BY <1>8 DEF Stop, vars
<1> QED
  BY <1>1, <1>2, <1>3, <1>4, <1>5, <1>6, <1>7, <1>8 DEF Next, Decoder, Poller, RunJob

(***************************************************************************)
(* The three goroutines and their channel implement the safety part of     *)
(* Analysis: the result appears in one step, covers the dump from its      *)
(* first object on and all of it unless reading failed, never changes      *)
(* afterwards, and the end is shown only after it.                         *)
(***************************************************************************)
THEOREM PipelineImplementsAnalysis == Spec => Result!Spec
<1>1. Spec => Result!Init
  BY InitImplements DEF Spec
<1> QED
  BY <1>1, InitImplements, NextImplements, InvHolds, PTL DEF Spec, Result!Spec
=============================================================================
