---------------------------- MODULE StreamingRun ----------------------------
(***************************************************************************)
(* benchmarks/streaming_runner.py: StreamingBenchmarkRunner.run with its   *)
(* pipeline and its writers.  One task takes results from the engine's     *)
(* stream, puts them into the pipeline and stops it in the end; it is the  *)
(* only producer and the only stopper of the Pipeline extended here.       *)
(*                                                                         *)
(* Results are numbered as they arrive.  A writer is the sequence of the   *)
(* results it has taken (BufferedWriter says what becomes of them); it may *)
(* fail in the middle of a batch or in close().  The stream may end or     *)
(* break anywhere, and the task may be cancelled wherever it waits.        *)
(***************************************************************************)
EXTENDS Pipeline

CONSTANTS Runner,      \* the task in run()
          WriterCount  \* the kinds of writer: JSONL and SQLite

ASSUME RunnerAssumption ==
    /\ Producers = {Runner} /\ Stoppers = {Runner}
    /\ WriterCount \in Nat \ {0}

VARIABLES
    writerCount, \* the writers it makes; without any there is no pipeline
    rpc,       \* where run() is
    counted,   \* len(latencies)
    raising,   \* an exception is on its way out through the finally block
    out,       \* the results each writer has taken
    closed,    \* how many writers have been closed
    observing, \* tracemalloc and the loop monitor are on
    cutShort   \* history: a cancellation or a failing close hit the finally block

runVars == <<writerCount, rpc, counted, raising, out, closed, observing, cutShort>>
streamVars == <<vars, runVars>>

Writers == 1..writerCount
Over == rpc \in {"returned", "raised"}

Same == UNCHANGED <<writerCount, counted>>

StreamInit ==
    /\ Init
    /\ opts = [dropOnFull |-> FALSE, onError |-> FALSE]
    /\ writerCount \in 0..WriterCount
    /\ rpc = "starting" /\ counted = 0 /\ raising = FALSE
    /\ out = [w \in Writers |-> <<>>] /\ closed = 0
    /\ observing = FALSE /\ cutShort = FALSE

\* Without URLs there is nothing to start and nothing to end.
NoUrls ==
    /\ rpc = "starting" /\ writerCount = 0 /\ rpc' = "returned"
    /\ UNCHANGED <<vars, raising, out, closed, observing, cutShort>> /\ Same

\* run() up to its loop: the observers are started, and the pipeline if any.
RunStarts ==
    /\ rpc = "starting" /\ rpc' = "pulling"
    /\ observing' = TRUE
    /\ IF writerCount = 0 THEN UNCHANGED vars ELSE Start
    /\ UNCHANGED <<raising, out, closed, cutShort>> /\ Same

Goes(place) ==
    /\ rpc' = place
    /\ UNCHANGED <<raising, out, closed, observing, cutShort>> /\ Same

-----------------------------------------------------------------------------
(* The loop. *)

\* A result arrives: it is counted, and put() finds room or waits for it.
Receive ==
    /\ rpc = "pulling"
    /\ counted < MaxPuts /\ counted' = counted + 1
    /\ \/ writerCount = 0 /\ LoopFree /\ UNCHANGED <<vars, rpc>>
       \/ writerCount > 0 /\ Put(Runner) /\ UNCHANGED rpc
       \/ writerCount > 0 /\ PutBlocks(Runner) /\ rpc' = "putting"
    /\ UNCHANGED <<writerCount, raising, out, closed, observing, cutShort>>

PutEnds ==
    /\ rpc = "putting"
    /\ PutResumes(Runner)
    /\ Goes(IF ppc'[Runner] = "idle" THEN "pulling" ELSE "putting")

\* Mutant of PutTimesOut: put() has no time-out.
PutWaits == FALSE

\* Mutant of PutTimesOut: a put that times out is not counted.
PutTimesOutUncounted ==
    /\ rpc = "putting"
    /\ PutGivesUp(Runner) /\ dropped' = dropped
    /\ Goes("pulling")

\* put() returns False after a second; nobody looks at what it returns.
PutTimesOut ==
    /\ rpc = "putting"
    /\ PutGivesUp(Runner) /\ dropped' = dropped + 1
    /\ Goes("pulling")

\* Cancelled in put().
PutCancelled ==
    /\ rpc = "putting"
    /\ PutGivesUp(Runner) /\ dropped' = dropped
    /\ rpc' = "leaving" /\ raising' = TRUE
    /\ UNCHANGED <<out, closed, observing, cutShort>> /\ Same

\* The stream ends, or breaks, or the task is cancelled while it waits for it.
StreamEnds ==
    /\ LoopFree /\ rpc = "pulling"
    /\ rpc' = "leaving" /\ raising' \in BOOLEAN
    /\ UNCHANGED <<vars, out, closed, observing, cutShort>> /\ Same

-----------------------------------------------------------------------------
(* The finally block. *)

\* pipeline.stop(drain=True)
BeginStop ==
    /\ rpc = "leaving" /\ writerCount > 0
    /\ Stop(Runner) /\ spc'[Runner] = "draining"
    /\ Goes("stopping")

NothingToStop ==
    /\ LoopFree /\ rpc = "leaving" /\ writerCount = 0
    /\ Goes("closing") /\ UNCHANGED vars

StopDone ==
    /\ rpc = "stopping"
    /\ StopReturns(Runner)
    /\ Goes("closing")

\* An exception inside the finally block skips what is left of it.
Breaks ==
    /\ rpc' = "raised" /\ raising' = TRUE
    /\ UNCHANGED <<closed, observing>> /\ Same

\* The exception that killed the consumer comes out of stop().
StopBreaks ==
    /\ rpc = "stopping"
    /\ StopRaises(Runner)
    /\ Breaks /\ UNCHANGED <<out, cutShort>>

\* Mutant of PartlyWritten: the other writers still get the batch.
WrittenElsewhere(items) ==
    \E w \in Writers, n \in 0..Len(items) :
      out' = [v \in Writers |->
                out[v] \o (IF v = w THEN SubSeq(items, 1, n) ELSE items)]

\* A batch that goes to the writers one after the other, and is interrupted.
PartlyWritten(items) ==
    \E w \in Writers, n \in 0..Len(items) :
      out' = [v \in Writers |->
                IF v < w THEN out[v] \o items
                ELSE IF v = w THEN out[v] \o SubSeq(items, 1, n) ELSE out[v]]

\* Cancelled in stop(): the consumer is cancelled with it.
StopInterrupted ==
    /\ rpc = "stopping"
    /\ StopCancelled(Runner)
    /\ Breaks /\ cutShort' = TRUE
    /\ IF cpc[task] \in InBatch THEN PartlyWritten(batch[task]) ELSE UNCHANGED out

CloseWriter ==
    /\ LoopFree /\ rpc = "closing" /\ closed < writerCount
    /\ closed' = closed + 1
    /\ UNCHANGED <<vars, rpc, raising, out, observing, cutShort>> /\ Same

CloseFails ==
    /\ LoopFree /\ rpc = "closing" /\ closed < writerCount
    /\ Breaks /\ cutShort' = TRUE
    /\ UNCHANGED <<vars, out>>

\* Mutant of Finish: one writer is closed, whatever is configured.
FinishEarly ==
    /\ LoopFree /\ rpc = "closing" /\ closed >= 1
    /\ observing' = FALSE
    /\ rpc' = IF raising THEN "raised" ELSE "returned"
    /\ UNCHANGED <<vars, raising, out, closed, cutShort>> /\ Same

Finish ==
    /\ LoopFree /\ rpc = "closing" /\ closed = writerCount
    /\ observing' = FALSE
    /\ rpc' = IF raising THEN "raised" ELSE "returned"
    /\ UNCHANGED <<vars, raising, out, closed, cutShort>> /\ Same

-----------------------------------------------------------------------------
(* The consumer, whose on_batch is write_batch of every writer in turn. *)

\* Mutant of BatchWritten: only the first writer gets the batch.
BatchWrittenOnce(k) ==
    /\ BatchEnds(k)
    /\ out' = [out EXCEPT ![1] = @ \o batch[k]]

BatchWritten(k) ==
    /\ BatchEnds(k)
    /\ out' = [w \in Writers |-> out[w] \o batch[k]]

BatchBroken(k) ==
    /\ BatchRaises(k)
    /\ PartlyWritten(batch[k])

Consume(k) ==
    \/ /\ \/ Begin(k) \/ GetItem(k) \/ WaitForItem(k) \/ GetTimesOut(k)
          \/ LeaveLoop(k) \/ DrainItem(k) \/ DrainEnds(k)
       /\ UNCHANGED runVars
    \/ /\ BatchWritten(k) \/ BatchBroken(k)
       /\ UNCHANGED <<rpc, raising, closed, observing, cutShort>> /\ Same

-----------------------------------------------------------------------------
\* What the event loop does with the runner, short of cancelling it.
RunnerStep ==
    \/ NoUrls \/ RunStarts \/ Receive \/ PutEnds \/ PutTimesOut \/ StreamEnds
    \/ BeginStop \/ NothingToStop \/ StopDone \/ StopBreaks \/ CloseWriter \/ CloseFails \/ Finish

StreamNext ==
    \/ RunnerStep \/ PutCancelled \/ StopInterrupted
    \/ \E k \in Consumers : Consume(k)

StreamSpec == StreamInit /\ [][StreamNext]_streamVars

\* As in Pipeline: the ready queue is FIFO, write_batch and close end, a wait
\* with a time-out runs out; and the engine's stream ends.
StreamFairSpec ==
    /\ StreamSpec
    /\ SF_streamVars(RunnerStep)
    /\ \A k \in Consumers : SF_streamVars(Consume(k))

-----------------------------------------------------------------------------
(* Properties. *)

\* Lines 295-312 and 365-380: what the report says can be relied on.  If run()
\* returns, and its pipeline metrics say that as many items were processed as
\* there were requests, every writer has every result once and in order.
ReportIsReliable ==
    rpc = "returned" /\ processed = counted
        => \A w \in Writers : out[w] = [i \in 1..counted |-> i]

\* Lines 251-254 and 316-317: no writer has a result twice or out of order, and
\* nothing gets to a later writer that an earlier one does not have.
WritersAgree ==
    /\ \A w \in Writers : \A i, j \in DOMAIN out[w] : i < j => out[w][i] < out[w][j]
    /\ \A v, w \in Writers : v < w =>
         {out[w][i] : i \in DOMAIN out[w]} \subseteq {out[v][i] : i \in DOMAIN out[v]}

\* Lines 312-317: when run() returns, a result that is missing from a writer was
\* dropped by a put that timed out, or was in a batch that failed.
MissingIsExplained ==
    rpc = "returned" /\ writerCount > 0 => dropped + Len(handled) = counted

\* Lines 314-330: a run that is over has closed every writer and switched its
\* observers off.  Only three things prevent that: a batch killed the consumer
\* before the stop, a close() failed, or the run was cancelled while it stopped.
CleansUp ==
    Over => \/ closed = writerCount /\ ~observing
            \/ cutShort
            \/ \E k \in Consumers : cpc[k] = "failed"

\* Every run ends: blocked puts, failed batches and dead consumers included.
RunEnds == <>Over
=============================================================================
