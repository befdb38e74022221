------------------------------ MODULE Pipeline ------------------------------
(***************************************************************************)
(* patterns/pipeline.py: ProducerConsumerPipeline, its bounded             *)
(* asyncio.Queue, and the flush of BatchedWriter on top of it.             *)
(*                                                                         *)
(* Tasks suspend where the code awaits something that is not ready: a      *)
(* putter on a full queue, the consumer in queue.get() and in on_batch, a  *)
(* stopper on the consumer task, a flusher on the event.  In between a     *)
(* task runs alone; a consumer at "head" or "drain" is the running task.   *)
(* The metrics lock is never held across an await, so never contended.     *)
(*                                                                         *)
(* Time is left open: every wait with a time-out may run out at any time,  *)
(* and batch_timeout may or may not have elapsed when an item arrives.     *)
(* Which of two waiting consumers gets an item is left open as well.       *)
(***************************************************************************)
EXTENDS Integers, Sequences, FiniteSets

LOCAL INSTANCE SequencesExt

CONSTANTS Producers,     \* the tasks that put
          Stoppers,      \* the tasks that stop the pipeline
          MaxQueueSize,  \* max_queue_size
          BatchSize,     \* batch_size
          MaxPuts,       \* bound: calls of put
          MaxStarts,     \* bound: consumers created by start
          MaxFlushes,    \* bound: calls of flush
          MaxCalls       \* bound: puts, starts and flushes together

ASSUME PipelineAssumption ==
    /\ MaxQueueSize \in Nat \ {0} /\ BatchSize \in Nat \ {0}
    /\ MaxPuts \in Nat /\ MaxStarts \in Nat /\ MaxFlushes \in Nat
    /\ MaxCalls \in Nat
    /\ IsFiniteSet(Producers) /\ IsFiniteSet(Stoppers)

VARIABLES
    opts,       \* the constructor's drop_on_full, and whether on_error is given
    queue,      \* _queue, oldest first; items are numbered by put
    putters,    \* the putters parked in queue.put() and not woken, oldest first
    ppc, pitem, \* where each producer is, and the item it is putting
    dropped,    \* _dropped_items
    shutdown,   \* _shutdown
    running,    \* _running
    task,       \* _consumer_task: the number of the newest consumer, or 0
    cpc, batch, \* where each consumer is, and the batch in its hands
    processed,  \* _items_processed
    flushEvent, \* _flush_event
    spc, joins, \* where each stopper is, and the consumer it waits for
    crossed,    \* history: a start fell between the returns of two stops
    fpc,        \* where the flusher is
    accepted,   \* history: the items in the order they entered the queue
    handled,    \* history: the items in the order batches left the consumer
    goal,       \* history: Len(accepted) when a stop told a live consumer to end
    puts, flushes \* bounds

producerVars == <<opts, queue, putters, ppc, pitem, dropped, puts, accepted>>
consumerVars == <<cpc, batch, processed, flushEvent, handled>>
controlVars  == <<shutdown, running, task, spc, joins, crossed>>
flusherVars  == <<fpc, flushes>>
vars == <<producerVars, consumerVars, controlVars, flusherVars, goal>>

Consumers == 1..MaxStarts
InBatch   == {"batch", "drainBatch", "finalBatch"}   \* awaiting on_batch
Ended     == {"done", "failed", "cancelled"}
Live(k)   == cpc[k] \notin Ended \cup {"unborn"}

\* The event loop is free: no consumer is between two suspension points.
LoopFree == \A k \in Consumers : cpc[k] \notin {"head", "drain"}

\* The bounds of the instance leave room for another call.
CallsLeft == puts + task + flushes < MaxCalls

Init ==
    /\ opts \in [dropOnFull : BOOLEAN, onError : BOOLEAN]
    /\ queue = <<>> /\ putters = <<>> /\ dropped = 0
    /\ ppc = [p \in Producers |-> "idle"] /\ pitem = [p \in Producers |-> 0]
    /\ shutdown = FALSE /\ running = FALSE /\ task = 0
    /\ cpc = [k \in Consumers |-> "unborn"]
    /\ batch = [k \in Consumers |-> <<>>]
    /\ processed = 0 /\ flushEvent = FALSE
    /\ spc = [s \in Stoppers |-> "idle"] /\ joins = [s \in Stoppers |-> 0]
    /\ crossed = FALSE /\ fpc = "idle"
    /\ accepted = <<>> /\ handled = <<>>
    /\ goal = [s \in Stoppers |-> 0]
    /\ puts = 0 /\ flushes = 0

-----------------------------------------------------------------------------
(* put *)

Full == Len(queue) >= MaxQueueSize

\* put_nowait succeeds, now or when a parked putter runs again.
Enqueue(item) ==
    /\ queue' = Append(queue, item)
    /\ accepted' = Append(accepted, item)

BeginPut(p) ==
    /\ LoopFree /\ ppc[p] = "idle" /\ ~shutdown
    /\ CallsLeft /\ puts < MaxPuts /\ puts' = puts + 1

\* put() does not look at the queue of parked putters: it may overtake them.
Put(p) ==
    /\ BeginPut(p) /\ ~Full
    /\ Enqueue(puts + 1)
    /\ UNCHANGED <<opts, putters, ppc, pitem, dropped, consumerVars, controlVars,
                   flusherVars, goal>>

PutDropped(p) ==
    /\ BeginPut(p) /\ Full /\ opts.dropOnFull
    /\ dropped' = dropped + 1
    /\ UNCHANGED <<opts, queue, putters, ppc, pitem, accepted, consumerVars,
                   controlVars, flusherVars, goal>>

PutBlocks(p) ==
    /\ BeginPut(p) /\ Full /\ ~opts.dropOnFull
    /\ putters' = Append(putters, p)
    /\ ppc' = [ppc EXCEPT ![p] = "blocked"]
    /\ pitem' = [pitem EXCEPT ![p] = puts + 1]
    /\ UNCHANGED <<opts, queue, dropped, accepted, consumerVars, controlVars,
                   flusherVars, goal>>

\* A woken putter runs again; it parks anew if somebody filled the queue.
PutResumes(p) ==
    /\ LoopFree /\ ppc[p] = "woken"
    /\ \/ /\ ~Full
          /\ Enqueue(pitem[p])
          /\ ppc' = [ppc EXCEPT ![p] = "idle"]
          /\ pitem' = [pitem EXCEPT ![p] = 0]
          /\ UNCHANGED putters
       \/ /\ Full
          /\ putters' = Append(putters, p)
          /\ ppc' = [ppc EXCEPT ![p] = "blocked"]
          /\ UNCHANGED <<queue, accepted, pitem>>
    /\ UNCHANGED <<opts, dropped, puts, consumerVars, controlVars, flusherVars,
                   goal>>

\* Mutant of PassOn: the wake-up is gone with the putter.
PassOnNothing(p) == ppc' = [ppc EXCEPT ![p] = "idle"] /\ UNCHANGED putters

\* A woken putter that leaves passes its wake-up on if there is still room.
PassOn(p) ==
    \/ /\ Full \/ putters = <<>>
       /\ ppc' = [ppc EXCEPT ![p] = "idle"]
       /\ UNCHANGED putters
    \/ /\ ~Full /\ putters # <<>>
       /\ putters' = Tail(putters)
       /\ ppc' = [ppc EXCEPT ![p] = "idle", ![Head(putters)] = "woken"]

\* The time-out of put runs out, or the putter is cancelled.
PutGivesUp(p) ==
    /\ LoopFree
    /\ \/ \E i \in DOMAIN putters :
            /\ putters[i] = p
            /\ putters' = RemoveAt(putters, i)
            /\ ppc' = [ppc EXCEPT ![p] = "idle"]
       \/ ppc[p] = "woken" /\ PassOn(p)
    /\ pitem' = [pitem EXCEPT ![p] = 0]
    /\ dropped' \in {dropped + 1, dropped}
    /\ UNCHANGED <<opts, queue, accepted, puts, consumerVars, controlVars,
                   flusherVars, goal>>

-----------------------------------------------------------------------------
(* The consumer. *)

\* The consumer's task starts to run.
Begin(k) ==
    /\ LoopFree /\ cpc[k] = "new"
    /\ cpc' = [cpc EXCEPT ![k] = "head"]
    /\ UNCHANGED <<producerVars, batch, processed, flushEvent, handled,
                   controlVars, flusherVars, goal>>

\* The oldest parked putter is woken.
WakePutter ==
    IF putters = <<>> THEN UNCHANGED <<putters, ppc>>
    ELSE /\ putters' = Tail(putters)
         /\ ppc' = [ppc EXCEPT ![Head(putters)] = "woken"]

\* Queue.get_nowait().
TakeItem(k) ==
    /\ queue # <<>>
    /\ queue' = Tail(queue)
    /\ batch' = [batch EXCEPT ![k] = Append(@, Head(queue))]
    /\ WakePutter
    /\ UNCHANGED <<opts, pitem, dropped, puts, accepted, processed, flushEvent,
                   handled, controlVars, flusherVars, goal>>

\* Mutant of AtHead: the loop does not look at _shutdown.
AtHeadAlways(k) == cpc[k] = "head"

AtHead(k) == cpc[k] = "head" /\ ~shutdown

\* An item is there, or arrives while the consumer waits in queue.get(), which
\* does not look at _shutdown.  The batch goes out when it is full or late.
GetItem(k) ==
    /\ AtHead(k) \/ (cpc[k] = "getting" /\ LoopFree)
    /\ TakeItem(k)
    /\ \/ cpc' = [cpc EXCEPT ![k] = "batch"]
       \/ Len(batch'[k]) < BatchSize /\ cpc' = [cpc EXCEPT ![k] = "head"]

\* Nothing to get: the consumer waits, unless its batch is late already.
WaitForItem(k) ==
    /\ AtHead(k) /\ queue = <<>>
    /\ \/ cpc' = [cpc EXCEPT ![k] = "getting"]
       \/ batch[k] # <<>> /\ cpc' = [cpc EXCEPT ![k] = "batch"]
    /\ UNCHANGED <<producerVars, batch, processed, flushEvent, handled,
                   controlVars, flusherVars, goal>>

\* queue.get() runs out of time, even if an item has just arrived.
GetTimesOut(k) ==
    /\ LoopFree /\ cpc[k] = "getting"
    /\ cpc' = [cpc EXCEPT ![k] = IF batch[k] = <<>> THEN "head" ELSE "batch"]
    /\ UNCHANGED <<producerVars, batch, processed, flushEvent, handled,
                   controlVars, flusherVars, goal>>

\* _shutdown is set: first the partial batch, then the queue.
LeaveLoop(k) ==
    /\ cpc[k] = "head" /\ shutdown
    /\ cpc' = [cpc EXCEPT ![k] = IF batch[k] = <<>> THEN "drain" ELSE "drainBatch"]
    /\ UNCHANGED <<producerVars, batch, processed, flushEvent, handled,
                   controlVars, flusherVars, goal>>

DrainItem(k) ==
    /\ cpc[k] = "drain"
    /\ TakeItem(k)
    /\ cpc' = [cpc EXCEPT ![k] = IF Len(batch'[k]) >= BatchSize THEN "drainBatch"
                                 ELSE "drain"]

\* Mutant of DrainEnds: the last partial batch is forgotten.
DrainEndsEarly(k) ==
    /\ cpc[k] = "drain" /\ queue = <<>>
    /\ cpc' = [cpc EXCEPT ![k] = "done"]
    /\ batch' = [batch EXCEPT ![k] = <<>>]
    /\ UNCHANGED <<producerVars, processed, flushEvent, handled, controlVars,
                   flusherVars, goal>>

\* The queue is empty: the last partial batch goes out, and the queue is not
\* looked at again.
DrainEnds(k) ==
    /\ cpc[k] = "drain" /\ queue = <<>>
    /\ cpc' = [cpc EXCEPT ![k] = IF batch[k] = <<>> THEN "done" ELSE "finalBatch"]
    /\ UNCHANGED <<producerVars, batch, processed, flushEvent, handled,
                   controlVars, flusherVars, goal>>

\* The batch leaves the consumer's hands.
BatchLeaves(k) ==
    /\ handled' = handled \o batch[k]
    /\ batch' = [batch EXCEPT ![k] = <<>>]

\* The end of _process_batch: metrics and the flush event.
Finished(k) ==
    /\ processed' = processed + Len(batch[k])
    /\ flushEvent' = (flushEvent \/ queue = <<>>)

AfterBatch(k) == IF cpc[k] = "batch" THEN "head"
                 ELSE IF cpc[k] = "drainBatch" THEN "drain" ELSE "done"

\* on_batch returns, or raises and on_error is told.
BatchEnds(k) ==
    /\ LoopFree /\ cpc[k] \in InBatch
    /\ BatchLeaves(k) /\ Finished(k)
    /\ cpc' = [cpc EXCEPT ![k] = AfterBatch(k)]
    /\ UNCHANGED <<producerVars, controlVars, flusherVars, goal>>

\* on_batch raises, and so does on_error if there is one, in the loop twice: the
\* loop dies, the drain goes on with the next batch.
BatchRaises(k) ==
    /\ LoopFree /\ cpc[k] \in InBatch
    /\ BatchLeaves(k)
    /\ cpc' = [cpc EXCEPT ![k] = IF @ = "batch" THEN "failed" ELSE AfterBatch(k)]
    /\ UNCHANGED <<processed, flushEvent, producerVars, controlVars, flusherVars,
                   goal>>

\* on_batch raises and on_error raises once: the loop goes on with the batch
\* still in its hands, and gives it to on_batch again, one item longer perhaps.
BatchKept(k) ==
    /\ LoopFree /\ cpc[k] = "batch" /\ opts.onError
    /\ cpc' = [cpc EXCEPT ![k] = "head"]
    /\ UNCHANGED <<producerVars, batch, processed, flushEvent, handled,
                   controlVars, flusherVars, goal>>

-----------------------------------------------------------------------------
(* start and stop *)

Start ==
    /\ LoopFree /\ ~running
    /\ CallsLeft /\ task < MaxStarts
    /\ shutdown' = FALSE /\ running' = TRUE
    /\ task' = task + 1
    /\ cpc' = [cpc EXCEPT ![task + 1] = "new"]
    /\ crossed' = (crossed \/ \E s \in Stoppers : spc[s] # "idle")
    /\ UNCHANGED <<spc, joins, batch, processed, flushEvent, handled,
                   producerVars, flusherVars, goal>>

\* A consumer is cancelled.  Whatever it waits for, CancelledError is the next
\* thing it sees, and the batch in its hands is gone.
CancelConsumer(k) ==
    IF Live(k) THEN /\ cpc' = [cpc EXCEPT ![k] = "cancelled"]
                    /\ BatchLeaves(k)
    ELSE UNCHANGED <<cpc, batch, handled>>

\* stop() of a running pipeline: the stopper waits for the consumer task, and
\* with drain = False it cancels that task first.
Stop(s) ==
    /\ LoopFree /\ spc[s] = "idle" /\ running
    /\ shutdown' = TRUE
    /\ joins' = [joins EXCEPT ![s] = task]
    /\ goal' = [goal EXCEPT ![s] = IF Live(task) /\ ~shutdown THEN Len(accepted)
                                 ELSE 0]
    /\ \/ spc' = [spc EXCEPT ![s] = "draining"] /\ UNCHANGED <<cpc, batch, handled>>
       \/ spc' = [spc EXCEPT ![s] = "aborting"] /\ CancelConsumer(task)
    /\ UNCHANGED <<running, task, crossed, processed, flushEvent, producerVars,
                   flusherVars>>

StopLeaves(s) ==
    /\ LoopFree
    /\ spc' = [spc EXCEPT ![s] = "idle"] /\ joins' = [joins EXCEPT ![s] = 0]
    /\ UNCHANGED <<shutdown, task, crossed, producerVars, flusherVars, goal>>

\* Mutant of Joinable: the stopper does not wait for the consumer.
JoinableAtOnce(s) == spc[s] # "idle"

Joinable(s) == spc[s] # "idle" /\ cpc[joins[s]] \in Ended

\* await of the consumer task returns; only suppress() hides a cancellation.
StopReturns(s) ==
    /\ Joinable(s)
    /\ \/ spc[s] = "draining" /\ cpc[joins[s]] \notin {"failed", "cancelled"}
       \/ spc[s] = "aborting" /\ cpc[joins[s]] # "failed"
    /\ StopLeaves(s)
    /\ running' = FALSE
    /\ UNCHANGED consumerVars

\* The consumer's exception, or its cancellation, comes out of stop().
StopRaises(s) ==
    /\ \/ spc[s] = "draining" /\ cpc[joins[s]] \in {"failed", "cancelled"}
       \/ spc[s] = "aborting" /\ cpc[joins[s]] = "failed"
    /\ StopLeaves(s)
    /\ UNCHANGED <<running, consumerVars>>

\* The stopper itself is cancelled while it awaits the task, which cancels it.
StopCancelled(s) ==
    /\ spc[s] # "idle"
    /\ StopLeaves(s)
    /\ CancelConsumer(joins[s])
    /\ UNCHANGED <<running, processed, flushEvent>>

-----------------------------------------------------------------------------
(* BatchedWriter.flush *)

Flush ==
    /\ LoopFree /\ fpc = "idle" /\ queue # <<>>
    /\ CallsLeft /\ flushes < MaxFlushes /\ flushes' = flushes + 1
    /\ fpc' = "waiting" /\ flushEvent' = FALSE
    /\ UNCHANGED <<producerVars, cpc, batch, processed, handled, controlVars,
                   goal>>

\* Mutant of FlushLoops: the comparison is off by one.
FlushLoopsAlways == Len(queue) >= 0

FlushLoops == queue # <<>>

\* The event is set, or the wait runs out, whatever the queue holds.
FlushWakes ==
    /\ LoopFree /\ fpc = "waiting"
    /\ fpc' = "woken"
    /\ UNCHANGED <<producerVars, consumerVars, controlVars, flushes, goal>>

\* The flusher runs again, when others may have filled the queue anew: the queue
\* decides.
FlushTests ==
    /\ LoopFree /\ fpc = "woken"
    /\ \/ FlushLoops /\ fpc' = "waiting" /\ flushEvent' = FALSE
       \/ ~FlushLoops /\ fpc' = "idle" /\ UNCHANGED flushEvent
    /\ UNCHANGED <<producerVars, cpc, batch, processed, handled, controlVars,
                   flushes, goal>>

-----------------------------------------------------------------------------
ConsumerStep(k) ==
    \/ Begin(k) \/ GetItem(k) \/ WaitForItem(k) \/ GetTimesOut(k)
    \/ LeaveLoop(k) \/ DrainItem(k) \/ DrainEnds(k)
    \/ BatchEnds(k) \/ BatchRaises(k) \/ BatchKept(k)

StopperStep(s) == StopReturns(s) \/ StopRaises(s)

Next ==
    \/ \E p \in Producers : \/ Put(p) \/ PutDropped(p) \/ PutBlocks(p)
                            \/ PutResumes(p) \/ PutGivesUp(p)
    \/ \E k \in Consumers : ConsumerStep(k)
    \/ Start
    \/ \E s \in Stoppers : Stop(s) \/ StopperStep(s) \/ StopCancelled(s)
    \/ Flush \/ FlushWakes \/ FlushTests

Spec == Init /\ [][Next]_vars

\* The event loop's ready queue is FIFO: a task that can run is never passed
\* over for ever, even if the consumer has the loop in between, hence SF.
\* on_batch always ends; the waits of consumer and flusher have time-outs.  (That
\* some consumer goes on is enough here.)  The flusher is not promised to run at an
\* instant at which the queue is empty.
FairSpec ==
    /\ Spec
    /\ SF_vars(\E k \in Consumers : ConsumerStep(k))
    /\ \A s \in Stoppers : SF_vars(StopperStep(s))
    /\ SF_vars(FlushWakes \/ FlushTests)

-----------------------------------------------------------------------------
(* Properties. *)

\* Every variable of the pipeline and of its tasks stays in its range.
TypeOK ==
    /\ opts \in [dropOnFull : BOOLEAN, onError : BOOLEAN]
    /\ queue \in Seq(Nat) /\ Len(queue) <= MaxQueueSize
    /\ putters \in Seq(Producers)
    /\ ppc \in [Producers -> {"idle", "blocked", "woken"}]
    /\ pitem \in [Producers -> Nat]
    /\ dropped \in Nat /\ puts \in Nat /\ processed \in Nat /\ flushes \in Nat
    /\ shutdown \in BOOLEAN /\ running \in BOOLEAN /\ flushEvent \in BOOLEAN
    /\ task \in 0..MaxStarts
    /\ cpc \in [Consumers -> {"unborn", "new", "head", "getting", "drain"}
                             \cup InBatch \cup Ended]
    /\ batch \in [Consumers -> Seq(Nat)]
    /\ opts.onError \/ \A k \in Consumers : Len(batch[k]) <= BatchSize
    /\ spc \in [Stoppers -> {"idle", "draining", "aborting"}]
    /\ joins \in [Stoppers -> 0..MaxStarts] /\ crossed \in BOOLEAN
    /\ fpc \in {"idle", "waiting", "woken"}
    /\ accepted \in Seq(Nat) /\ handled \in Seq(Nat)
    /\ goal \in [Stoppers -> Nat]

\* The batch in the hands of the newest consumer.
InHands == IF task = 0 THEN <<>> ELSE batch[task]

\* Lines 260-293: two consumers never share the queue, and there is one only while
\* is_running says so, unless a start fell between the returns of two stops (the
\* second one then clears _running under the new consumer).  The other way round,
\* is_running alone tells little; but until a stop is called it means that there is
\* a consumer, unless an exception out of on_batch has killed it.
OneConsumer ==
    /\ ~crossed => \A k \in Consumers : Live(k) => k = task /\ running
    /\ running /\ ~shutdown => Live(task) \/ cpc[task] = "failed"

\* Lines 188-258: the items leave in the order in which they got into the queue,
\* through restarts, drains, failing batches and cancelled consumers.
InOrder == ~crossed => handled \o InHands \o queue = accepted

\* Lines 188-258: every item that got into the queue is in one place, and in one
\* only, even when several consumers share the queue.
EachItemOnce ==
    \A i \in 1..puts :
      LET places(seq) == {n \in DOMAIN seq : seq[n] = i}
      IN  Cardinality(places(handled)) + Cardinality(places(queue))
            + Cardinality(UNION {{k} \X places(batch[k]) : k \in Consumers})
          = Cardinality(places(accepted))

\* Lines 127-141 and 203-214: no wake-up is lost.  While producers are parked in
\* put, each free place of the queue has a woken producer on its way to it, through
\* puts that overtake, run out of time or are cancelled.
NoPutForgotten ==
    putters # <<>> =>
        MaxQueueSize - Len(queue)
            <= Cardinality({p \in Producers : ppc[p] = "woken"})

\* Lines 233-258 and 280-283: when a stop(drain=True) that told a live consumer
\* to end returns, every item that was in the pipeline when it was called has
\* been through on_batch.  (A second stop may come when the drain has already
\* passed over a putter woken late, and promises nothing.)
StopHandlesEarlierItems ==
    [][ \A s \in Stoppers :
          spc[s] = "draining" /\ StopReturns(s) /\ ~crossed
              => Len(handled) >= goal[s] ]_vars

\* Lines 193 and 260-293: every stop comes to an end, with or without items,
\* failures and blocked putters, unless a start that fell between the returns of
\* two stops clears _shutdown under the consumer this one waits for.
StopEnds == \A s \in Stoppers : spc[s] # "idle" ~> spc[s] = "idle" \/ crossed

\* From some time on no item gets into the queue.
ItemsStop == <>[][accepted' = accepted]_accepted

\* Lines 397-408: once the producers have stopped, a flush ends, unless no consumer
\* is left to empty the queue.  While they go on it need not: whenever the flusher
\* runs the queue may have been filled again.
FlushEnds ==
    ItemsStop =>
        (fpc # "idle" ~> fpc = "idle" \/ \A k \in Consumers : ~Live(k))
=============================================================================
