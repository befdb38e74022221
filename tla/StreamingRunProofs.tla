-------------------------- MODULE StreamingRunProofs --------------------------
(***************************************************************************)
(* Theorems about StreamingRun, for any number of writers, results and     *)
(* any size of the queue and of the batches.  The run drives the pipeline  *)
(* as Pipeline lets tasks drive it, so that what is proved there holds     *)
(* here; the rest follows the results from the stream to the writers.      *)
(***************************************************************************)
EXTENDS StreamingRun, PipelineProofs

LOCAL INSTANCE SequencesExt
LOCAL INSTANCE SequenceTheorems

-----------------------------------------------------------------------------
(* The run as a user of the pipeline. *)

\* The runner puts into the pipeline and stops it.
LEMMA RunnerIsUser == Runner \in Producers /\ Runner \in Stoppers
<1>. QED
  BY RunnerAssumption DEF RunnerAssumption

\* A step of the consumer is one of the pipeline's consumer.
LEMMA ConsumeSteps ==
    ASSUME NEW k \in Consumers, Consume(k)
    PROVE  /\ ConsumerStep(k)
           /\ UNCHANGED <<writerCount, rpc, counted, raising, closed, observing, cutShort>>
<1>1. CASE BatchWritten(k) \/ BatchBroken(k)
  BY <1>1 DEF Consume, BatchWritten, BatchBroken, ConsumerStep, Same, runVars, GetItem, DrainItem
<1>2. CASE ~(BatchWritten(k) \/ BatchBroken(k))
  BY <1>2 DEF Consume, ConsumerStep, runVars
<1>. QED
  BY <1>1, <1>2

\* A step of the run is a step of the pipeline or leaves it alone.
LEMMA StreamStepMaps == [StreamNext]_streamVars => [Next]_vars
<1> SUFFICES ASSUME [StreamNext]_streamVars PROVE [Next]_vars
  OBVIOUS
<1>1. CASE NoUrls \/ NothingToStop \/ CloseWriter \/ CloseFails \/ Finish \/ StreamEnds
  BY <1>1 DEF NoUrls, NothingToStop, CloseWriter, CloseFails, Finish, StreamEnds
<1>2. CASE RunStarts
  BY <1>2 DEF RunStarts, Next
<1>3. CASE Receive
  <2>1. Put(Runner) \/ PutBlocks(Runner) \/ UNCHANGED vars
    BY <1>3 DEF Receive
  <2>. QED
    BY <2>1, RunnerIsUser DEF Next
<1>4. CASE PutEnds \/ PutTimesOut \/ PutCancelled
  <2>1. PutResumes(Runner) \/ PutGivesUp(Runner)
    BY <1>4 DEF PutEnds, PutTimesOut, PutCancelled
  <2>. QED
    BY <2>1, RunnerIsUser DEF Next
<1>5. CASE BeginStop \/ StopDone \/ StopBreaks \/ StopInterrupted
  <2>1. Stop(Runner) \/ StopperStep(Runner) \/ StopCancelled(Runner)
    BY <1>5 DEF BeginStop, StopDone, StopBreaks, StopInterrupted, StopperStep
  <2>. QED
    BY <2>1, RunnerIsUser DEF Next
<1>6. CASE \E k \in Consumers : Consume(k)
  BY <1>6, ConsumeSteps DEF Next
<1>7. CASE UNCHANGED streamVars
  BY <1>7 DEF streamVars
<1>. QED
  BY <1>1, <1>2, <1>3, <1>4, <1>5, <1>6, <1>7 DEF StreamNext, RunnerStep

\* The runner drives the pipeline as Pipeline lets its users drive it.
THEOREM RunUsesPipeline == StreamSpec => Spec
<1>1. StreamInit => Init
  BY DEF StreamInit
<1>. QED
  BY <1>1, StreamStepMaps, PTL DEF StreamSpec, Spec

PipelineInv == TypeInv /\ OnlyNewest /\ InOrder

\* What is proved of the pipeline holds under the run.
LEMMA PipelineInvStep == PipelineInv /\ [StreamNext]_streamVars => PipelineInv'
<1>. QED
  BY StreamStepMaps, TypeStep, NewestStep, OrderStep DEF PipelineInv

-----------------------------------------------------------------------------
(* Where the runner is, and what it does to the pipeline. *)

Late == {"stopping", "closing", "returned", "raised"}

RunTypes ==
    /\ rpc \in {"starting", "pulling", "putting", "leaving"} \cup Late
    /\ writerCount \in Nat /\ counted \in Nat /\ closed \in Nat
    /\ raising \in BOOLEAN /\ observing \in BOOLEAN /\ cutShort \in BOOLEAN

\* The runner waits in put or stop when the pipeline says so; it starts one
\* consumer at most, and puts nothing once it has begun to stop.
Places ==
    /\ ~crossed /\ ~opts.onError /\ ~opts.dropOnFull
    /\ rpc = "starting" \/ writerCount = 0 => task = 0 /\ puts = 0
    /\ spc[Runner] = IF rpc = "stopping" THEN "draining" ELSE "idle"
    /\ rpc = "putting" <=> ppc[Runner] # "idle"
    /\ putters = IF ppc[Runner] = "blocked" THEN <<Runner>> ELSE <<>>
    /\ shutdown => rpc \in Late

RunInv == PipelineInv /\ RunTypes /\ Places

\* A queue of one putter.
LEMMA OnePutter ==
    ASSUME NEW p
    PROVE  /\ Tail(<<p>>) = <<>> /\ Append(<<>>, p) = <<p>> /\ Head(<<p>>) = p
           /\ <<p>> # <<>>
           /\ \A i \in DOMAIN <<p>> : RemoveAt(<<p>>, i) = <<>>
<1>1. Tail(<<p>>) = <<>> /\ Append(<<>>, p) = <<p>> /\ Head(<<p>>) = p /\ <<p>> # <<>>
  OBVIOUS
<1>2. ASSUME NEW i \in DOMAIN <<p>> PROVE RemoveAt(<<p>>, i) = <<>>
  <2>1. i = 1 /\ Len(<<p>>) = 1
    OBVIOUS
  <2>2. SubSeq(<<p>>, 1, 0) = <<>> /\ SubSeq(<<p>>, 2, 1) = <<>>
    OBVIOUS
  <2>3. <<>> \o <<>> = <<>>
    OBVIOUS
  <2>. QED
    BY <2>1, <2>2, <2>3 DEF RemoveAt
<1>. QED
  BY <1>1, <1>2

\* The runner starts outside the pipeline, which it has not started.
LEMMA RunInit == StreamInit => RunInv
<1> SUFFICES ASSUME StreamInit PROVE RunInv
  OBVIOUS
<1>1. PipelineInv
  BY TypeInit, NewestInit, OrderInit DEF StreamInit, PipelineInv
<1>2. writerCount \in Nat
  BY RunnerAssumption DEF StreamInit, RunnerAssumption
<1>3. RunTypes
  BY <1>2 DEF StreamInit, RunTypes
<1>4. Places
  BY RunnerIsUser DEF StreamInit, Init, Places, Late
<1>. QED
  BY <1>1, <1>3, <1>4 DEF RunInv

\* A consumer that can step has been started.
LEMMA ConsumerStarted ==
    ASSUME RunInv, NEW k \in Consumers, Live(k)
    PROVE  task # 0 /\ k = task /\ writerCount # 0 /\ rpc # "starting"
<1>1. k = task
  BY DEF RunInv, PipelineInv, OnlyNewest, Alone, Places
<1>. QED
  BY <1>1, PipelineAssumption DEF Consumers, RunInv, Places, PipelineAssumption

\* What a step of the consumer does to those who put.
LEMMA ConsumerWakes ==
    ASSUME NEW k \in Consumers, ConsumerStep(k)
    PROVE  /\ UNCHANGED <<opts, pitem, dropped, puts, accepted, controlVars>>
           /\ \/ UNCHANGED <<queue, putters, ppc>>
              \/ queue # <<>> /\ queue' = Tail(queue) /\ WakePutter
<1>1. CASE Begin(k) \/ WaitForItem(k) \/ GetTimesOut(k) \/ LeaveLoop(k) \/ DrainEnds(k)
           \/ BatchEnds(k) \/ BatchRaises(k) \/ BatchKept(k)
  BY <1>1 DEF Begin, WaitForItem, GetTimesOut, LeaveLoop, DrainEnds, BatchEnds, BatchRaises,
              BatchKept, producerVars
<1>2. CASE GetItem(k) \/ DrainItem(k)
  BY <1>2 DEF GetItem, DrainItem, TakeItem
<1>. QED
  BY <1>1, <1>2 DEF ConsumerStep

\* The runner's own types.
LEMMA RunTypesStep == RunTypes /\ [StreamNext]_streamVars => RunTypes'
<1> SUFFICES ASSUME RunTypes, [StreamNext]_streamVars PROVE RunTypes'
  OBVIOUS
<1>. USE DEF RunTypes, Late, Same, Goes, Breaks
<1>1. CASE NoUrls \/ NothingToStop \/ CloseWriter \/ CloseFails \/ Finish \/ StreamEnds
  <2>1. CASE NoUrls
    BY <2>1 DEF NoUrls
  <2>2. CASE NothingToStop
    BY <2>2 DEF NothingToStop
  <2>3. CASE CloseWriter
    BY <2>3 DEF CloseWriter
  <2>4. CASE CloseFails
    BY <2>4 DEF CloseFails
  <2>5. CASE Finish
    BY <2>5 DEF Finish
  <2>6. CASE StreamEnds
    BY <2>6 DEF StreamEnds
  <2>. QED
    BY <1>1, <2>1, <2>2, <2>3, <2>4, <2>5, <2>6
<1>2. CASE RunStarts \/ Receive
  <2>1. CASE RunStarts
    BY <2>1 DEF RunStarts
  <2>2. CASE Receive
    BY <2>2 DEF Receive
  <2>. QED
    BY <1>2, <2>1, <2>2
<1>3. CASE PutEnds \/ PutTimesOut \/ PutCancelled
  BY <1>3 DEF PutEnds, PutTimesOut, PutCancelled
<1>4. CASE BeginStop \/ StopDone \/ StopBreaks \/ StopInterrupted
  BY <1>4 DEF BeginStop, StopDone, StopBreaks, StopInterrupted
<1>5. CASE \E k \in Consumers : Consume(k)
  BY <1>5, ConsumeSteps
<1>6. CASE UNCHANGED streamVars
  BY <1>6 DEF streamVars, runVars
<1>. QED
  BY <1>1, <1>2, <1>3, <1>4, <1>5, <1>6 DEF StreamNext, RunnerStep

\* No step takes the runner from where the pipeline sees it.
LEMMA PlacesStep == RunInv /\ [StreamNext]_streamVars => Places'
<1> SUFFICES ASSUME RunInv, [StreamNext]_streamVars PROVE Places'
  OBVIOUS
<1>0. /\ RunTypes /\ Places
      /\ spc \in [Stoppers -> {"idle", "draining", "aborting"}] /\ Runner \in Stoppers
      /\ ppc \in [Producers -> {"idle", "blocked", "woken"}] /\ Runner \in Producers
      /\ shutdown \in BOOLEAN /\ crossed \in BOOLEAN /\ task \in Nat
  BY RunnerIsUser, PipelineAssumption
     DEF RunInv, PipelineInv, TypeInv, Types, ProducerTypes, ControlTypes, PipelineAssumption
<1>. USE DEF Places, RunTypes, Late, Same, Goes, Breaks
<1>1. CASE NoUrls \/ NothingToStop \/ CloseWriter \/ CloseFails \/ Finish \/ StreamEnds
  BY <1>0, <1>1 DEF NoUrls, NothingToStop, CloseWriter, CloseFails, Finish, StreamEnds, vars,
                    producerVars, controlVars
<1>2. CASE RunStarts
  BY <1>0, <1>2, RunnerAssumption
     DEF RunStarts, Start, vars, producerVars, controlVars, RunnerAssumption
<1>3. CASE Receive
  <2>1. CASE writerCount = 0
    BY <1>0, <1>3, <2>1 DEF Receive, vars, producerVars, controlVars
  <2>2. CASE writerCount > 0 /\ Put(Runner) /\ UNCHANGED rpc
    BY <1>0, <1>3, <2>2 DEF Receive, Put, BeginPut, controlVars
  <2>3. CASE writerCount > 0 /\ PutBlocks(Runner) /\ rpc' = "putting"
    BY <1>0, <1>3, <2>3, OnePutter DEF Receive, PutBlocks, BeginPut, controlVars
  <2>. QED
    BY <1>3, <2>1, <2>2, <2>3 DEF Receive
<1>4. CASE PutEnds
  BY <1>0, <1>4, OnePutter DEF PutEnds, PutResumes, controlVars
<1>5. CASE PutTimesOut \/ PutCancelled
  <2>1. PutGivesUp(Runner) /\ rpc = "putting" /\ rpc' \in {"pulling", "leaving"}
    BY <1>5 DEF PutTimesOut, PutCancelled
  <2>2. ppc'[Runner] = "idle" /\ putters' = <<>>
    BY <1>0, <2>1, OnePutter DEF PutGivesUp, PassOn
  <2>. QED
    BY <1>0, <1>5, <2>1, <2>2 DEF PutGivesUp, PutTimesOut, PutCancelled, controlVars
<1>6. CASE BeginStop \/ StopDone \/ StopBreaks \/ StopInterrupted
  BY <1>0, <1>6 DEF BeginStop, StopDone, StopBreaks, StopInterrupted, Stop, StopReturns,
                    StopRaises, StopCancelled, StopLeaves, producerVars
<1>7. ASSUME NEW k \in Consumers, Consume(k) PROVE Places'
  <2>1. UNCHANGED <<opts, puts, controlVars, rpc, writerCount>>
    BY <1>7, ConsumeSteps, ConsumerWakes
  <2>2. CASE UNCHANGED <<putters, ppc>>
    BY <1>0, <2>1, <2>2 DEF controlVars
  <2>3. CASE WakePutter
    BY <1>0, <2>1, <2>3, OnePutter DEF WakePutter, controlVars
  <2>. QED
    BY <1>7, <2>2, <2>3, ConsumeSteps, ConsumerWakes
<1>8. CASE UNCHANGED streamVars
  BY <1>0, <1>8 DEF streamVars, runVars, vars, producerVars, controlVars
<1>. QED
  BY <1>1, <1>2, <1>3, <1>4, <1>5, <1>6, <1>7, <1>8 DEF StreamNext, RunnerStep

\* The pipeline, the types and the place of the runner hold from step to step.
LEMMA RunStep == RunInv /\ [StreamNext]_streamVars => RunInv'
<1>. QED
  BY PipelineInvStep, RunTypesStep, PlacesStep DEF RunInv

-----------------------------------------------------------------------------
(* The end of the pipeline, and of the run. *)

\* Once the drain has seen the queue empty it stays empty; the runner goes on to
\* close its writers only after a consumer that has drained.
Drained ==
    /\ \A k \in Consumers :
         /\ cpc[k] \in {"drain", "drainBatch", "finalBatch", "done"} => shutdown
         /\ cpc[k] \in {"finalBatch", "done"} => queue = <<>>
         /\ cpc[k] \in InBatch => batch[k] # <<>>
         /\ cpc[k] = "cancelled" => cutShort
    /\ rpc \in {"closing", "returned"} /\ writerCount > 0
         => task \in Consumers /\ cpc[task] = "done"

\* At first no consumer has drained anything.
LEMMA DrainedInit == StreamInit => Drained
<1>. QED
  BY DEF StreamInit, Init, Drained, InBatch

\* A consumer passes the end of its drain only with the queue empty.
LEMMA ConsumerDrains ==
    ASSUME RunInv, Drained, NEW k \in Consumers, Consume(k)
    PROVE  Drained'
<1>1. /\ cpc \in [Consumers -> {"unborn", "new", "head", "getting", "drain"}
                                \cup InBatch \cup Ended]
      /\ batch \in [Consumers -> Seq(Nat)] /\ queue \in Seq(Nat)
  BY DEF RunInv, PipelineInv, TypeInv, Types, ConsumerTypes, ProducerTypes
<1>2. /\ UNCHANGED <<rpc, writerCount, cutShort, shutdown, task>>
      /\ Live(k) /\ ConsumerStep(k)
      /\ \A m \in Consumers : m # k => cpc'[m] = cpc[m]
  BY ConsumeSteps, ConsumerStepControl DEF RunInv, PipelineInv, TypeInv, controlVars
<1>3. /\ \A m \in Consumers : m # k => batch'[m] = batch[m]
      /\ queue = <<>> => queue' = <<>>
      /\ cpc'[k] # "cancelled"
      /\ cpc'[k] \in {"finalBatch", "done"} => queue' = <<>>
      /\ cpc'[k] \in {"drain", "drainBatch", "finalBatch", "done"} => shutdown
      /\ cpc'[k] \in InBatch => batch'[k] # <<>>
  <2>. USE DEF InBatch, Ended, Live
  <2>1. CASE Begin(k) \/ WaitForItem(k) \/ GetTimesOut(k) \/ LeaveLoop(k) \/ DrainEnds(k)
    BY <1>1, <2>1 DEF Begin, WaitForItem, GetTimesOut, LeaveLoop, DrainEnds, AtHead, Drained,
                      producerVars
  <2>2. CASE GetItem(k) \/ DrainItem(k)
    <3>1. TakeItem(k) /\ queue # <<>>
      BY <2>2 DEF GetItem, DrainItem, TakeItem
    <3>2. /\ \A m \in Consumers : m # k => batch'[m] = batch[m]
          /\ batch'[k] = Append(batch[k], Head(queue))
      BY <1>1, <3>1 DEF TakeItem
    <3>3. Append(batch[k], Head(queue)) # <<>>
      <4>1. batch[k] \in Seq(Nat) /\ Head(queue) \in Nat
        BY <1>1, <3>1, HeadAndTail
      <4>. QED
        BY <4>1, AppendProperties
    <3>4. /\ cpc'[k] \in {"batch", "head", "drainBatch", "drain"}
          /\ cpc'[k] \in {"drain", "drainBatch"} => cpc[k] = "drain"
      BY <1>1, <2>2 DEF GetItem, DrainItem
    <3>. QED
      BY <3>1, <3>2, <3>3, <3>4 DEF Drained
  <2>3. CASE BatchEnds(k) \/ BatchRaises(k)
    BY <1>1, <2>3 DEF BatchEnds, BatchRaises, BatchLeaves, AfterBatch, Drained, producerVars
  <2>4. CASE BatchKept(k)
    BY <2>4 DEF BatchKept, RunInv, Places
  <2>. QED
    BY <1>2, <2>1, <2>2, <2>3, <2>4 DEF ConsumerStep
<1>4. ~(rpc \in {"closing", "returned"} /\ writerCount > 0)
  BY <1>2, ConsumerStarted DEF Drained, Live, Ended
<1>. QED
  BY <1>2, <1>3, <1>4 DEF Drained

\* Nothing enters the queue of a pipeline that is shut down.
LEMMA DrainedStep == RunInv /\ Drained /\ [StreamNext]_streamVars => Drained'
<1> SUFFICES ASSUME RunInv, Drained, [StreamNext]_streamVars PROVE Drained'
  OBVIOUS
<1>0. /\ RunTypes /\ Places /\ OnlyNewest /\ TasksExist
      /\ cpc \in [Consumers -> {"unborn", "new", "head", "getting", "drain"}
                                \cup InBatch \cup Ended]
      /\ batch \in [Consumers -> Seq(Nat)]
      /\ spc \in [Stoppers -> {"idle", "draining", "aborting"}] /\ Runner \in Stoppers
      /\ task \in Nat
  BY RunnerIsUser, PipelineAssumption
     DEF RunInv, PipelineInv, TypeInv, Types, ConsumerTypes, ControlTypes, PipelineAssumption
<1>. USE DEF Same, Goes, Breaks
<1>1. CASE NoUrls \/ NothingToStop \/ CloseWriter \/ CloseFails \/ Finish \/ StreamEnds
  BY <1>0, <1>1 DEF NoUrls, NothingToStop, CloseWriter, CloseFails, Finish, StreamEnds, vars,
                    producerVars, consumerVars, controlVars, Drained, RunTypes
<1>2. CASE RunStarts
  <2>1. UNCHANGED vars \/ Start
    BY <1>2 DEF RunStarts
  <2>2. \A k \in Consumers : cpc[k] = "unborn"
    BY <1>0, <1>2, PipelineAssumption DEF RunStarts, Places, TasksExist, Consumers,
                                          PipelineAssumption
  <2>3. \A k \in Consumers : cpc'[k] \in {"unborn", "new"}
    BY <1>0, <2>1, <2>2 DEF Start, vars, consumerVars
  <2>. QED
    BY <1>2, <2>3 DEF RunStarts, Drained, InBatch
<1>3. CASE Receive \/ PutEnds \/ PutTimesOut \/ PutCancelled
  <2>1. /\ rpc \in {"pulling", "putting"} /\ rpc' \notin {"closing", "returned"}
        /\ UNCHANGED cutShort
    BY <1>3 DEF Receive, PutEnds, PutTimesOut, PutCancelled
  <2>2. UNCHANGED vars \/ Put(Runner) \/ PutBlocks(Runner) \/ PutResumes(Runner)
        \/ PutGivesUp(Runner)
    BY <1>3 DEF Receive, PutEnds, PutTimesOut, PutCancelled
  <2>3. UNCHANGED <<cpc, batch, shutdown>>
    BY <2>2, RunnerIsUser, PutLocal DEF vars, consumerVars, controlVars
  <2>4. ~shutdown
    BY <1>0, <2>1 DEF Places, Late
  <2>. QED
    BY <2>1, <2>3, <2>4 DEF Drained
<1>4. CASE BeginStop
  <2>1. UNCHANGED <<cpc, batch, queue, cutShort>> /\ shutdown' /\ rpc' = "stopping"
    BY <1>0, <1>4 DEF BeginStop, Stop, producerVars
  <2>. QED
    BY <2>1 DEF Drained
<1>5. CASE StopDone \/ StopBreaks
  <2>1. UNCHANGED <<cpc, batch, queue, shutdown, cutShort, task, writerCount>>
    BY <1>5 DEF StopDone, StopBreaks, StopReturns, StopRaises, StopLeaves, producerVars,
                consumerVars
  <2>2. joins[Runner] = task /\ task \in Consumers
    BY <1>0, <1>5 DEF StopDone, StopBreaks, StopReturns, StopRaises, Joinable, Places,
                      OnlyNewest, TasksExist
  <2>3. StopDone => cpc[task] = "done"
    BY <1>0, <2>2 DEF StopDone, StopReturns, Joinable, Ended, Places
  <2>4. StopDone \/ rpc' = "raised"
    BY <1>5 DEF StopBreaks
  <2>. QED
    BY <2>1, <2>2, <2>3, <2>4 DEF Drained
<1>6. CASE StopInterrupted
  <2>1. /\ UNCHANGED <<queue, shutdown, task, writerCount>>
        /\ cutShort' /\ rpc' = "raised" /\ CancelConsumer(joins[Runner])
    BY <1>6 DEF StopInterrupted, StopCancelled, StopLeaves, producerVars
  <2>2. \A k \in Consumers : \/ cpc'[k] = cpc[k] /\ batch'[k] = batch[k]
                             \/ cpc'[k] = "cancelled"
    BY <1>0, <2>1 DEF CancelConsumer, BatchLeaves
  <2>. QED
    BY <2>1, <2>2 DEF Drained, InBatch
<1>7. CASE \E k \in Consumers : Consume(k)
  BY <1>7, ConsumerDrains
<1>8. CASE UNCHANGED streamVars
  BY <1>8 DEF streamVars, runVars, vars, producerVars, consumerVars, controlVars, Drained
<1>. QED
  BY <1>1, <1>2, <1>3, <1>4, <1>5, <1>6, <1>7, <1>8 DEF StreamNext, RunnerStep

\* What a run that has not begun, or that is over, has left behind.
Ending ==
    /\ rpc = "starting" => ~observing /\ closed = 0
    /\ rpc \in {"starting", "pulling", "putting", "returned"} => ~raising
    /\ CleansUp

\* A consumer that has died stays dead.
LEMMA FailedStays ==
    ASSUME RunInv, [StreamNext]_streamVars, NEW k \in Consumers, cpc[k] = "failed"
    PROVE  cpc'[k] = "failed"
<1>1. [Next]_vars /\ TypeInv
  BY StreamStepMaps DEF RunInv, PipelineInv
<1>2. CASE \E p \in Producers : \/ Put(p) \/ PutDropped(p) \/ PutBlocks(p)
                                 \/ PutResumes(p) \/ PutGivesUp(p)
  BY <1>2, PutLocal DEF consumerVars
<1>3. ASSUME NEW m \in Consumers, ConsumerStep(m) PROVE cpc'[k] = "failed"
  BY <1>1, <1>3, ConsumerStepControl DEF TypeInv, Live, Ended
<1>4. CASE Start
  BY <1>1, <1>4 DEF Start, TypeInv, TasksExist, Types, ControlTypes
<1>5. ASSUME NEW s \in Stoppers, Stop(s) \/ StopperStep(s) \/ StopCancelled(s)
      PROVE  cpc'[k] = "failed"
  <2>1. UNCHANGED cpc \/ \E m : CancelConsumer(m)
    BY <1>5 DEF Stop, StopperStep, StopReturns, StopRaises, StopCancelled, consumerVars
  <2>2. cpc \in [Consumers -> {"unborn", "new", "head", "getting", "drain"}
                                \cup InBatch \cup Ended]
    BY <1>1 DEF TypeInv, Types, ConsumerTypes
  <2>. QED
    BY <2>1, <2>2 DEF CancelConsumer, Live, Ended
<1>6. CASE Flush \/ FlushWakes \/ FlushTests \/ UNCHANGED vars
  BY <1>6 DEF Flush, FlushWakes, FlushTests, vars, consumerVars
<1>. QED
  BY <1>1, <1>2, <1>3, <1>4, <1>5, <1>6 DEF Next

\* A run that has not begun has nothing to clean up.
LEMMA EndingInit == StreamInit => Ending
<1>. QED
  BY DEF StreamInit, Ending, CleansUp, Over

\* A run ends in Finish or in what Ending allows.
LEMMA EndingStep == RunInv /\ Drained /\ Ending /\ [StreamNext]_streamVars => Ending'
<1> SUFFICES ASSUME RunInv, Drained, Ending, [StreamNext]_streamVars PROVE Ending'
  OBVIOUS
<1>0. /\ RunTypes /\ Places /\ TasksExist /\ Runner \in Stoppers
      /\ \A k \in Consumers : cpc[k] = "failed" => cpc'[k] = "failed"
  BY RunnerIsUser, FailedStays DEF RunInv, PipelineInv, TypeInv
<1>. USE DEF Same, Goes, Breaks
<1>1. CASE NoUrls \/ Finish
  <2>1. CASE NoUrls
    BY <1>0, <2>1 DEF NoUrls, Ending, CleansUp, Over, RunTypes
  <2>2. CASE Finish
    BY <1>0, <2>2 DEF Finish, Ending, CleansUp, Over, RunTypes
  <2>. QED
    BY <1>1, <2>1, <2>2
<1>2. CASE NothingToStop \/ CloseWriter \/ StreamEnds \/ RunStarts \/ Receive \/ PutEnds
           \/ PutTimesOut \/ PutCancelled \/ BeginStop \/ StopDone
  <2>1. CASE NothingToStop \/ CloseWriter \/ StreamEnds \/ PutCancelled \/ BeginStop \/ StopDone
    <3>1. rpc' \in {"leaving", "stopping", "closing"}
      BY <2>1 DEF NothingToStop, CloseWriter, StreamEnds, PutCancelled, BeginStop, StopDone
    <3>. QED
      BY <3>1 DEF Ending, CleansUp, Over
  <2>2. CASE RunStarts \/ Receive \/ PutEnds \/ PutTimesOut
    <3>1. /\ rpc \in {"starting", "pulling", "putting"} /\ rpc' \in {"pulling", "putting"}
          /\ UNCHANGED raising
      BY <2>2 DEF RunStarts, Receive, PutEnds, PutTimesOut
    <3>. QED
      BY <3>1 DEF Ending, CleansUp, Over
  <2>. QED
    BY <1>2, <2>1, <2>2
<1>3. CASE CloseFails \/ StopInterrupted
  BY <1>3 DEF CloseFails, StopInterrupted, Ending, CleansUp, Over
<1>4. CASE StopBreaks
  <2>1. joins[Runner] \in Consumers
    BY <1>0, <1>4 DEF StopBreaks, Places, TasksExist
  <2>2. cpc[joins[Runner]] \in {"failed", "cancelled"}
    BY <1>4 DEF StopBreaks, StopRaises
  <2>3. UNCHANGED cpc /\ rpc' = "raised" /\ UNCHANGED cutShort
    BY <1>4 DEF StopBreaks, StopRaises, consumerVars
  <2>4. (\E k \in Consumers : cpc'[k] = "failed") \/ cutShort
    BY <2>1, <2>2, <2>3 DEF Drained
  <2>. QED
    BY <2>3, <2>4 DEF Ending, CleansUp, Over
<1>5. CASE (\E k \in Consumers : Consume(k)) \/ UNCHANGED streamVars
  <2>1. UNCHANGED <<rpc, raising, closed, observing, cutShort, writerCount>>
    BY <1>5, ConsumeSteps DEF streamVars, runVars
  <2>. QED
    BY <1>0, <2>1 DEF Ending, CleansUp, Over
<1>. QED
  BY <1>1, <1>2, <1>3, <1>4, <1>5 DEF StreamNext, RunnerStep

\* A run that is over has closed its writers and switched its observers off,
\* unless a batch had failed, a close failed, or it was cancelled while stopping.
THEOREM RunCleansUp == StreamSpec => []CleansUp
<1>1. RunInv /\ Drained /\ Ending /\ [StreamNext]_streamVars => (RunInv /\ Drained /\ Ending)'
  BY RunStep, DrainedStep, EndingStep
<1>2. Ending => CleansUp
  BY DEF Ending
<1>. QED
  BY <1>1, <1>2, RunInit, DrainedInit, EndingInit, PTL DEF StreamSpec

-----------------------------------------------------------------------------
(* Sequences of numbers. *)

Increasing(seq) == \A i, j \in 1..Len(seq) : i < j => seq[i] < seq[j]

Elements(seq) == {seq[i] : i \in 1..Len(seq)}

\* A sequence of some of the first n numbers, in order: all of them if it is
\* long enough.
Numbered(seq, n) ==
    /\ Len(seq) <= n
    /\ Len(seq) = n => seq = [i \in 1..n |-> i]
    /\ Increasing(seq)
    /\ \A i \in 1..Len(seq) : seq[i] <= n

\* The next number is accepted.
LEMMA NumberAccepted ==
    ASSUME NEW a \in Seq(Nat), NEW n \in Nat, Numbered(a, n)
    PROVE  Numbered(Append(a, n + 1), n + 1)
<1> DEFINE b == Append(a, n + 1)
<1>1. /\ Len(a) \in Nat /\ b \in Seq(Nat) /\ Len(b) = Len(a) + 1
      /\ \A i \in 1..Len(a) : b[i] = a[i] /\ a[i] \in Nat
      /\ b[Len(a) + 1] = n + 1
  BY LenProperties, ElementOfSeq, AppendProperties
<1>. HIDE DEF b
<1>2. \A i \in 1..Len(b) : i = Len(a) + 1 \/ i \in 1..Len(a)
  BY <1>1
<1>3. Increasing(b)
  <2> SUFFICES ASSUME NEW i \in 1..Len(b), NEW j \in 1..Len(b), i < j PROVE b[i] < b[j]
    BY DEF Increasing
  <2>1. i \in 1..Len(a) /\ a[i] \in Nat /\ a[i] <= n /\ b[i] = a[i]
    <3>1. i \in 1..Len(a)
      BY <1>1
    <3>. QED
      BY <1>1, <3>1 DEF Numbered
  <2>2. CASE j \in 1..Len(a)
    <3>1. a[i] < a[j]
      BY <2>1, <2>2 DEF Numbered, Increasing
    <3>. QED
      BY <1>1, <2>1, <2>2, <3>1
  <2>3. CASE j = Len(a) + 1
    <3>1. b[j] = n + 1
      BY <1>1, <2>3
    <3>. QED
      BY <2>1, <3>1
  <2>. QED
    BY <1>2, <2>2, <2>3
<1>4. ASSUME NEW i \in 1..Len(b) PROVE b[i] <= n + 1
  <2>1. CASE i \in 1..Len(a)
    <3>1. a[i] <= n
      BY <2>1 DEF Numbered
    <3>2. b[i] = a[i] /\ a[i] \in Nat
      BY <1>1, <2>1
    <3>. QED
      BY <3>1, <3>2
  <2>2. CASE i = Len(a) + 1
    <3>1. b[i] = n + 1
      BY <1>1, <2>2
    <3>. QED
      BY <3>1
  <2>. QED
    BY <1>2, <2>1, <2>2
<1>5. ASSUME Len(b) = n + 1 PROVE b = [i \in 1..(n + 1) |-> i]
  <2>1. Len(a) = n
    BY <1>1, <1>5
  <2>2. a = [i \in 1..n |-> i]
    BY <2>1 DEF Numbered
  <2>3. \A i \in 1..n : b[i] = i
    BY <1>1, <2>1, <2>2
  <2>4. DOMAIN b = 1..(n + 1) /\ b = [i \in DOMAIN b |-> b[i]]
    BY <1>1, <1>5, LenProperties
  <2>5. \A i \in 1..(n + 1) : b[i] = i
    BY <1>1, <2>1, <2>3
  <2>. QED
    BY <2>4, <2>5
<1>6. Len(b) <= n + 1
  BY <1>1 DEF Numbered
<1>. QED
  BY <1>3, <1>4, <1>5, <1>6 DEF Numbered, b

\* The next number is lost.
LEMMA NumberLost ==
    ASSUME NEW a \in Seq(Nat), NEW n \in Nat, Numbered(a, n)
    PROVE  Numbered(a, n + 1)
<1>1. Len(a) \in Nat /\ \A i \in 1..Len(a) : a[i] \in Nat
  BY LenProperties, ElementOfSeq
<1>. QED
  BY <1>1 DEF Numbered

\* The parts of an increasing sequence.
LEMMA IncreasingParts ==
    ASSUME NEW x \in Seq(Nat), NEW y \in Seq(Nat), Increasing(x \o y)
    PROVE  /\ Increasing(x) /\ Increasing(y)
           /\ \A n \in Elements(x), m \in Elements(y) : n < m
<1>1. /\ Len(x) \in Nat /\ Len(y) \in Nat /\ Len(x \o y) = Len(x) + Len(y)
      /\ \A i \in 1..Len(x) : (x \o y)[i] = x[i]
      /\ \A i \in 1..Len(y) : (x \o y)[Len(x) + i] = y[i]
  BY LenProperties, ConcatProperties
<1> DEFINE z == x \o y
<1>2. Len(z) = Len(x) + Len(y) /\ Increasing(z)
  BY <1>1
<1>3. \A i \in 1..Len(x) : z[i] = x[i]
  BY <1>1
<1>4. \A i \in 1..Len(y) : z[Len(x) + i] = y[i]
  BY <1>1
<1>. HIDE DEF z
<1>5. Increasing(x)
  BY <1>1, <1>2, <1>3 DEF Increasing
<1>6. Increasing(y)
  <2> SUFFICES ASSUME NEW i \in 1..Len(y), NEW j \in 1..Len(y), i < j PROVE y[i] < y[j]
    BY DEF Increasing
  <2>1. Len(x) + i \in 1..Len(z) /\ Len(x) + j \in 1..Len(z) /\ Len(x) + i < Len(x) + j
    BY <1>1, <1>2
  <2>2. z[Len(x) + i] < z[Len(x) + j]
    BY <1>2, <2>1 DEF Increasing
  <2>3. z[Len(x) + i] = y[i] /\ z[Len(x) + j] = y[j]
    BY <1>4
  <2>. QED
    BY <2>2, <2>3
<1>7. ASSUME NEW i \in 1..Len(x), NEW j \in 1..Len(y) PROVE x[i] < y[j]
  <2>1. i \in 1..Len(z) /\ Len(x) + j \in 1..Len(z) /\ i < Len(x) + j
    BY <1>1, <1>2
  <2>2. z[i] < z[Len(x) + j]
    BY <1>2, <2>1 DEF Increasing
  <2>3. z[i] = x[i] /\ z[Len(x) + j] = y[j]
    BY <1>3, <1>4
  <2>. QED
    BY <2>2, <2>3
<1>. QED
  BY <1>5, <1>6, <1>7 DEF Elements

\* Joining increasing sequences.
LEMMA IncreasingJoin ==
    ASSUME NEW x \in Seq(Nat), NEW y \in Seq(Nat), Increasing(x), Increasing(y),
           \A n \in Elements(x), m \in Elements(y) : n < m
    PROVE  Increasing(x \o y)
<1>1. /\ Len(x) \in Nat /\ Len(y) \in Nat /\ Len(x \o y) = Len(x) + Len(y)
      /\ \A i \in 1..Len(x) : (x \o y)[i] = x[i]
      /\ \A i \in 1..Len(y) : (x \o y)[Len(x) + i] = y[i]
  BY LenProperties, ConcatProperties
<1> DEFINE z == x \o y
<1>2. Len(z) = Len(x) + Len(y)
      /\ (\A i \in 1..Len(x) : z[i] = x[i])
      /\ \A i \in 1..Len(y) : z[Len(x) + i] = y[i]
  BY <1>1
<1>. HIDE DEF z
<1>3. \A i \in 1..Len(z) : i \in 1..Len(x) \/ \E k \in 1..Len(y) : i = Len(x) + k
  <2> SUFFICES ASSUME NEW i \in 1..Len(z), i \notin 1..Len(x)
               PROVE  i - Len(x) \in 1..Len(y) /\ i = Len(x) + (i - Len(x))
    OBVIOUS
  <2>. QED
    BY <1>1, <1>2
<1>4. ASSUME NEW i \in 1..Len(z), NEW j \in 1..Len(z), i < j PROVE z[i] < z[j]
  <2>1. CASE i \in 1..Len(x) /\ j \in 1..Len(x)
    BY <1>2, <1>4, <2>1 DEF Increasing
  <2>2. CASE i \in 1..Len(x) /\ \E m \in 1..Len(y) : j = Len(x) + m
    BY <1>2, <2>2 DEF Elements
  <2>3. CASE \E k, m \in 1..Len(y) : i = Len(x) + k /\ j = Len(x) + m
    <3>1. PICK k \in 1..Len(y), m \in 1..Len(y) : i = Len(x) + k /\ j = Len(x) + m
      BY <2>3
    <3>2. k < m
      BY <1>1, <1>4, <3>1
    <3>. QED
      BY <1>2, <3>1, <3>2 DEF Increasing
  <2>4. CASE j \in 1..Len(x) /\ \E k \in 1..Len(y) : i = Len(x) + k
    BY <1>1, <1>4, <2>4
  <2>. QED
    BY <1>3, <2>1, <2>2, <2>3, <2>4
<1>. QED
  BY <1>4 DEF Increasing, z

\* The elements of a joined sequence.
LEMMA ElementsJoin ==
    ASSUME NEW x \in Seq(Nat), NEW y \in Seq(Nat)
    PROVE  Elements(x \o y) = Elements(x) \cup Elements(y)
<1>1. /\ Len(x) \in Nat /\ Len(y) \in Nat /\ Len(x \o y) = Len(x) + Len(y)
      /\ \A i \in 1..Len(x) : (x \o y)[i] = x[i]
      /\ \A i \in 1..Len(y) : (x \o y)[Len(x) + i] = y[i]
  BY LenProperties, ConcatProperties
<1> DEFINE z == x \o y
<1>2. Len(z) = Len(x) + Len(y)
      /\ (\A i \in 1..Len(x) : z[i] = x[i])
      /\ \A i \in 1..Len(y) : z[Len(x) + i] = y[i]
  BY <1>1
<1>. HIDE DEF z
<1>3. ASSUME NEW i \in 1..Len(z) PROVE z[i] \in Elements(x) \cup Elements(y)
  <2>1. CASE i \in 1..Len(x)
    BY <1>2, <2>1 DEF Elements
  <2>2. CASE i \notin 1..Len(x)
    <3>1. i - Len(x) \in 1..Len(y) /\ i = Len(x) + (i - Len(x))
      BY <1>1, <1>2, <2>2
    <3>. QED
      BY <1>2, <3>1 DEF Elements
  <2>. QED
    BY <2>1, <2>2
<1>4. ASSUME NEW i \in 1..Len(x) PROVE x[i] \in Elements(z)
  BY <1>1, <1>2 DEF Elements
<1>5. ASSUME NEW i \in 1..Len(y) PROVE y[i] \in Elements(z)
  <2>1. Len(x) + i \in 1..Len(z)
    BY <1>1, <1>2
  <2>. QED
    BY <1>2, <2>1 DEF Elements
<1>6. Elements(z) \subseteq Elements(x) \cup Elements(y)
  BY <1>3 DEF Elements
<1>7. Elements(x) \subseteq Elements(z) /\ Elements(y) \subseteq Elements(z)
  BY <1>4, <1>5 DEF Elements
<1>. QED
  BY <1>6, <1>7 DEF z

\* The beginning of an increasing sequence.
LEMMA IncreasingPrefix ==
    ASSUME NEW y \in Seq(Nat), Increasing(y), NEW n \in 0..Len(y)
    PROVE  /\ SubSeq(y, 1, n) \in Seq(Nat) /\ Increasing(SubSeq(y, 1, n))
           /\ Elements(SubSeq(y, 1, n)) = {y[i] : i \in 1..n}
<1>1. /\ Len(y) \in Nat /\ \A i \in 1..Len(y) : y[i] \in Nat
  BY LenProperties, ElementOfSeq
<1>2. /\ SubSeq(y, 1, n) \in Seq(Nat) /\ Len(SubSeq(y, 1, n)) = n
      /\ \A i \in 1..n : SubSeq(y, 1, n)[i] = y[i]
  BY <1>1, SubSeqProperties
<1> DEFINE z == SubSeq(y, 1, n)
<1>3. Len(z) = n /\ \A i \in 1..n : z[i] = y[i]
  BY <1>2
<1>. HIDE DEF z
<1>4. Increasing(z)
  <2> SUFFICES ASSUME NEW i \in 1..n, NEW j \in 1..n, i < j PROVE y[i] < y[j]
    BY <1>3 DEF Increasing
  <2>1. i \in 1..Len(y) /\ j \in 1..Len(y)
    BY <1>1
  <2>. QED
    BY <2>1 DEF Increasing
<1>5. Elements(z) = {z[i] : i \in 1..n}
  BY <1>3 DEF Elements
<1>6. {z[i] : i \in 1..n} = {y[i] : i \in 1..n}
  BY <1>3
<1>. QED
  BY <1>2, <1>4, <1>5, <1>6 DEF z

-----------------------------------------------------------------------------
(* The results on their way into the pipeline. *)

\* The result that the runner is putting is neither accepted nor lost.
Waiting == IF rpc = "putting" THEN 1 ELSE 0

Counting ==
    /\ puts - Waiting \in Nat
    /\ rpc = "putting" => pitem[Runner] = puts
    /\ writerCount > 0 => puts = counted
    /\ writerCount > 0 => raising \/ Len(accepted) + dropped + Waiting = counted
    /\ Numbered(accepted, puts - Waiting)

\* Before the first result all counts are zero.
LEMMA CountingInit == StreamInit => Counting
<1>1. Numbered(<<>>, 0)
  <2>1. <<>> = [i \in 1..0 |-> i]
    OBVIOUS
  <2>. QED
    BY <2>1 DEF Numbered, Increasing
<1>. QED
  BY <1>1 DEF StreamInit, Init, Counting, Waiting

\* The steps that accept a result, lose one, or make it wait.
LEMMA CountingStep ==
    RunInv /\ Ending /\ Counting /\ [StreamNext]_streamVars => Counting'
<1> SUFFICES ASSUME RunInv, Ending, Counting, [StreamNext]_streamVars PROVE Counting'
  OBVIOUS
<1>0. /\ RunTypes /\ Places /\ Runner \in Producers
      /\ accepted \in Seq(Nat) /\ puts \in Nat /\ dropped \in Nat /\ Len(accepted) \in Nat
      /\ pitem \in [Producers -> Nat] /\ ppc \in [Producers -> {"idle", "blocked", "woken"}]
  BY RunnerIsUser, LenProperties DEF RunInv, PipelineInv, TypeInv, Types, ProducerTypes
<1>. USE DEF Same, Goes, Breaks
<1>1. CASE Receive
  <2>1. CASE writerCount = 0 /\ UNCHANGED <<vars, rpc>>
    BY <1>1, <2>1 DEF Receive, Counting, Waiting, vars, producerVars
  <2>2. CASE writerCount > 0 /\ Put(Runner) /\ UNCHANGED rpc
    <3>1. /\ rpc = "pulling" /\ rpc' = "pulling" /\ puts' = puts + 1 /\ counted' = counted + 1
          /\ UNCHANGED <<writerCount, raising, dropped>>
      BY <1>1, <2>2 DEF Receive, Put, BeginPut
    <3>2. accepted' = Append(accepted, puts + 1)
      BY <2>2 DEF Put, Enqueue
    <3>3. Numbered(accepted', puts + 1) /\ Len(accepted') = Len(accepted) + 1
      BY <1>0, <3>1, <3>2, NumberAccepted, AppendProperties DEF Counting, Waiting
    <3>. QED
      BY <1>0, <2>2, <3>1, <3>3 DEF Counting, Waiting, RunTypes
  <2>3. CASE writerCount > 0 /\ PutBlocks(Runner) /\ rpc' = "putting"
    <3>1. /\ rpc = "pulling" /\ puts' = puts + 1 /\ pitem'[Runner] = puts + 1
          /\ counted' = counted + 1
          /\ UNCHANGED <<writerCount, raising, dropped, accepted>>
      BY <1>0, <1>1, <2>3 DEF Receive, PutBlocks, BeginPut
    <3>. QED
      BY <1>0, <2>3, <3>1 DEF Counting, Waiting, RunTypes
  <2>. QED
    BY <1>1, <2>1, <2>2, <2>3 DEF Receive
<1>2. CASE PutEnds
  <2>1. CASE ~Full
    <3>1. /\ rpc = "putting" /\ rpc' = "pulling"
          /\ UNCHANGED <<writerCount, counted, raising, dropped, puts>>
      BY <1>0, <1>2, <2>1 DEF PutEnds, PutResumes
    <3>2. puts - 1 \in Nat /\ Numbered(accepted, puts - 1) /\ pitem[Runner] = (puts - 1) + 1
      BY <1>0, <3>1 DEF Counting, Waiting
    <3>3. accepted' = Append(accepted, pitem[Runner])
      BY <1>2, <2>1 DEF PutEnds, PutResumes, Enqueue
    <3>4. Numbered(Append(accepted, (puts - 1) + 1), (puts - 1) + 1)
      BY <1>0, <3>2, NumberAccepted
    <3>5. Numbered(accepted', puts)
      <4>1. (puts - 1) + 1 = puts
        BY <1>0
      <4>. QED
        BY <3>2, <3>3, <3>4, <4>1
    <3>6. Len(accepted') = Len(accepted) + 1
      BY <1>0, <3>2, <3>3, AppendProperties
    <3>. QED
      BY <1>0, <3>1, <3>5, <3>6 DEF Counting, Waiting, RunTypes
  <2>2. CASE Full
    <3>1. /\ rpc = "putting" /\ rpc' = "putting"
          /\ UNCHANGED <<writerCount, counted, raising, dropped, puts, accepted, pitem>>
      BY <1>0, <1>2, <2>2 DEF PutEnds, PutResumes
    <3>. QED
      BY <3>1 DEF Counting, Waiting
  <2>. QED
    BY <2>1, <2>2
<1>3. CASE PutTimesOut \/ PutCancelled
  <2>1. /\ rpc = "putting" /\ rpc' # "putting"
        /\ \/ dropped' = dropped + 1 /\ UNCHANGED raising
           \/ raising'
        /\ UNCHANGED <<writerCount, counted, puts, accepted>>
    BY <1>3 DEF PutTimesOut, PutCancelled, PutGivesUp
  <2>2. puts - 1 \in Nat /\ Numbered(accepted, puts - 1)
    BY <2>1 DEF Counting, Waiting
  <2>3. Numbered(accepted, puts)
    <3>1. (puts - 1) + 1 = puts
      BY <1>0
    <3>2. Numbered(accepted, (puts - 1) + 1)
      BY <1>0, <2>2, NumberLost
    <3>. QED
      BY <3>1, <3>2
  <2>. QED
    BY <1>0, <2>1, <2>3 DEF Counting, Waiting, RunTypes
<1>4. ASSUME rpc # "putting", rpc' # "putting", raising => raising',
             UNCHANGED <<writerCount, counted, puts, dropped, accepted>>
      PROVE  Counting'
  BY <1>4 DEF Counting, Waiting
<1>5. CASE NoUrls \/ NothingToStop \/ CloseWriter \/ CloseFails \/ Finish \/ StreamEnds
  <2>1. rpc # "putting" /\ rpc' # "putting"
    BY <1>5 DEF NoUrls, NothingToStop, CloseWriter, CloseFails, Finish, StreamEnds
  <2>2. UNCHANGED <<writerCount, counted, puts, dropped, accepted>>
    BY <1>5 DEF NoUrls, NothingToStop, CloseWriter, CloseFails, Finish, StreamEnds, vars,
                producerVars
  <2>3. raising => raising'
    BY <1>5 DEF NoUrls, NothingToStop, CloseWriter, CloseFails, Finish, StreamEnds, Ending
  <2>. QED
    BY <1>4, <2>1, <2>2, <2>3
<1>6. CASE RunStarts \/ BeginStop \/ StopDone \/ StopBreaks \/ StopInterrupted
  <2>1. rpc # "putting" /\ rpc' # "putting" /\ (raising => raising')
    BY <1>6 DEF RunStarts, BeginStop, StopDone, StopBreaks, StopInterrupted
  <2>2. UNCHANGED <<writerCount, counted, puts, dropped, accepted>>
    BY <1>6 DEF RunStarts, BeginStop, StopDone, StopBreaks, StopInterrupted, Start, Stop,
                StopReturns, StopRaises, StopCancelled, StopLeaves, vars, producerVars
  <2>. QED
    BY <1>4, <2>1, <2>2
<1>7. CASE (\E k \in Consumers : Consume(k)) \/ UNCHANGED streamVars
  <2>1. UNCHANGED <<writerCount, rpc, counted, raising, puts, dropped, accepted, pitem>>
    BY <1>7, ConsumeSteps, ConsumerWakes DEF streamVars, runVars, vars, producerVars
  <2>. QED
    BY <2>1 DEF Counting, Waiting
<1>. QED
  BY <1>1, <1>2, <1>3, <1>5, <1>6, <1>7 DEF StreamNext, RunnerStep

-----------------------------------------------------------------------------
(* The results on their way to the writers. *)

Writing ==
    /\ out \in [Writers -> Seq(Nat)]
    /\ processed <= Len(handled)
    /\ \A w \in Writers :
         /\ processed = Len(handled) => out[w] = handled
         /\ Increasing(out[w]) /\ Elements(out[w]) \subseteq Elements(handled)
         /\ \A v \in Writers : v < w => Elements(out[w]) \subseteq Elements(out[v])

\* What a writer that has o makes of the first m results of a batch, when h was
\* handled before it.
Grown(o, h, b, m) ==
    /\ o \o SubSeq(b, 1, m) \in Seq(Nat)
    /\ Increasing(o \o SubSeq(b, 1, m))
    /\ Elements(o \o SubSeq(b, 1, m)) = Elements(o) \cup {b[i] : i \in 1..m}
    /\ Elements(o \o SubSeq(b, 1, m)) \subseteq Elements(h \o b)
    /\ o = h /\ m = Len(b) => o \o SubSeq(b, 1, m) = h \o b

\* One writer gets the first m results of a batch.
LEMMA WriterGets ==
    ASSUME NEW o \in Seq(Nat), NEW h \in Seq(Nat), NEW b \in Seq(Nat), NEW m \in 0..Len(b),
           Increasing(o), Elements(o) \subseteq Elements(h), Increasing(h \o b)
    PROVE  Grown(o, h, b, m)
<1> DEFINE part == SubSeq(b, 1, m)
<1>1. /\ Increasing(b) /\ \A x \in Elements(h), y \in Elements(b) : x < y
  BY IncreasingParts
<1>2. /\ part \in Seq(Nat) /\ Increasing(part) /\ Elements(part) = {b[i] : i \in 1..m}
  BY <1>1, IncreasingPrefix
<1>3. {b[i] : i \in 1..m} \subseteq Elements(b)
  <2>1. Len(b) \in Nat
    BY LenProperties
  <2>. QED
    BY <2>1 DEF Elements
<1>4. m = Len(b) => part = b
  BY SubSeqFull
<1>5. Elements(h \o b) = Elements(h) \cup Elements(b)
  BY ElementsJoin
<1>. HIDE DEF part
<1>6. Increasing(o \o part)
  BY <1>1, <1>2, <1>3, IncreasingJoin
<1>7. Elements(o \o part) = Elements(o) \cup Elements(part)
  BY <1>2, ElementsJoin
<1>8. o \o part \in Seq(Nat)
  BY <1>2, ConcatProperties
<1>. QED
  BY <1>2, <1>3, <1>4, <1>5, <1>6, <1>7, <1>8 DEF Grown, part

\* Every writer gets the beginning of a batch, and no writer more of it than the
\* one before; the batch counts as processed only if all get all of it.
LEMMA WritersGet ==
    ASSUME Writing, NEW b \in Seq(Nat), Increasing(handled \o b),
           handled \in Seq(Nat), processed \in Nat,
           NEW n \in [Writers -> 0..Len(b)], \A v, w \in Writers : v < w => n[w] <= n[v],
           UNCHANGED writerCount, handled' = handled \o b,
           out' = [w \in Writers |-> out[w] \o SubSeq(b, 1, n[w])],
           \/ processed' = processed + Len(b) /\ \A w \in Writers : n[w] = Len(b)
           \/ processed' = processed /\ b # <<>>
    PROVE  Writing'
<1> DEFINE grown(w) == out[w] \o SubSeq(b, 1, n[w])
           all == handled \o b
<1>1. /\ Len(handled) \in Nat /\ Len(b) \in Nat /\ Len(all) = Len(handled) + Len(b)
      /\ b # <<>> => Len(b) > 0
  <2>1. Len(handled) \in Nat /\ Len(b) \in Nat /\ Len(all) = Len(handled) + Len(b)
    BY LenProperties, ConcatProperties
  <2>2. b # <<>> => Len(b) # 0
    BY EmptySeq
  <2>. QED
    BY <2>1, <2>2
<1>2. ASSUME NEW w \in Writers
      PROVE  /\ grown(w) \in Seq(Nat) /\ Increasing(grown(w))
             /\ Elements(grown(w)) = Elements(out[w]) \cup {b[i] : i \in 1..n[w]}
             /\ Elements(grown(w)) \subseteq Elements(all)
             /\ out[w] = handled /\ n[w] = Len(b) => grown(w) = all
  <2>1. out[w] \in Seq(Nat) /\ Increasing(out[w]) /\ Elements(out[w]) \subseteq Elements(handled)
        /\ n[w] \in 0..Len(b)
    BY DEF Writing
  <2> DEFINE o == out[w]
             m == n[w]
  <2>. HIDE DEF o, m
  <2>2. /\ o \in Seq(Nat) /\ Increasing(o) /\ Elements(o) \subseteq Elements(handled)
        /\ m \in 0..Len(b)
    BY <2>1 DEF o, m
  <2>3. Grown(o, handled, b, m)
    BY <2>2, WriterGets
  <2>. QED
    BY <2>3 DEF Grown, o, m
<1>3. ASSUME NEW v \in Writers, NEW w \in Writers, v < w
      PROVE  Elements(grown(w)) \subseteq Elements(grown(v))
  <2>1. n[v] \in Nat /\ n[w] \in Nat /\ n[w] <= n[v]
    BY <1>1, <1>3
  <2>2. {b[i] : i \in 1..n[w]} \subseteq {b[i] : i \in 1..n[v]}
    <3>1. 1..n[w] \subseteq 1..n[v]
      BY <2>1
    <3>. QED
      BY <3>1
  <2>3. Elements(out[w]) \subseteq Elements(out[v])
    BY <1>3 DEF Writing
  <2>. QED
    BY <1>2, <2>2, <2>3
<1>4. Writers' = Writers /\ handled' = all /\ \A w \in Writers : out'[w] = grown(w)
  BY DEF Writers
<1>5. processed' <= Len(all)
  BY <1>1 DEF Writing
<1>6. processed' = Len(all) => \A w \in Writers : out[w] = handled /\ n[w] = Len(b)
  BY <1>1 DEF Writing
<1>7. out' \in [Writers -> Seq(Nat)]
  BY <1>2
<1>. HIDE DEF grown, all
<1>8. ASSUME NEW w \in Writers'
      PROVE  /\ processed' = Len(handled') => out'[w] = handled'
             /\ Increasing(out'[w]) /\ Elements(out'[w]) \subseteq Elements(handled')
             /\ \A v \in Writers' : v < w => Elements(out'[w]) \subseteq Elements(out'[v])
  BY <1>2, <1>3, <1>4, <1>6
<1>9. out' \in [Writers' -> Seq(Nat)] /\ processed' <= Len(handled')
  BY <1>4, <1>5, <1>7
<1>. QED
  BY <1>8, <1>9 DEF Writing

\* The batch in hand continues what has been handled.
LEMMA BatchFollows ==
    ASSUME RunInv, Counting, task \in Consumers
    PROVE  /\ Increasing(handled \o batch[task])
           /\ batch[task] \in Seq(Nat) /\ handled \in Seq(Nat) /\ processed \in Nat
<1> DEFINE held == batch[task]
<1>1. held \in Seq(Nat) /\ handled \in Seq(Nat) /\ queue \in Seq(Nat) /\ processed \in Nat
  BY DEF RunInv, PipelineInv, TypeInv, Types, ConsumerTypes, ProducerTypes
<1>2. (handled \o held) \o queue = accepted
  BY PipelineAssumption DEF RunInv, PipelineInv, Places, InOrder, InHands, Consumers,
                            PipelineAssumption
<1>3. Increasing(accepted)
  BY DEF Counting, Numbered
<1>. HIDE DEF held
<1>4. handled \o held \in Seq(Nat)
  BY <1>1, ConcatProperties
<1>5. Increasing(handled \o held)
  BY <1>1, <1>2, <1>3, <1>4, IncreasingParts
<1>. QED
  BY <1>1, <1>5 DEF held

\* A batch that breaks at one writer.
LEMMA PartlyGiven ==
    ASSUME Writing, writerCount \in Nat, NEW b \in Seq(Nat), PartlyWritten(b)
    PROVE  \E n \in [Writers -> 0..Len(b)] :
             /\ \A v, w \in Writers : v < w => n[w] <= n[v]
             /\ out' = [w \in Writers |-> out[w] \o SubSeq(b, 1, n[w])]
<1>1. PICK u \in Writers, m \in 0..Len(b) :
        out' = [v \in Writers |-> IF v < u THEN out[v] \o b
                                 ELSE IF v = u THEN out[v] \o SubSeq(b, 1, m) ELSE out[v]]
  BY DEF PartlyWritten
<1> DEFINE n == [v \in Writers |-> IF v < u THEN Len(b) ELSE IF v = u THEN m ELSE 0]
<1>2. Len(b) \in Nat /\ m \in Nat /\ m <= Len(b)
  BY LenProperties
<1>3. n \in [Writers -> 0..Len(b)]
  BY <1>2
<1>4. ASSUME NEW v \in Writers, NEW w \in Writers, v < w PROVE n[w] <= n[v]
  <2>1. v \in Nat /\ w \in Nat /\ u \in Nat
    BY DEF Writers
  <2>. QED
    BY <1>2, <1>4, <2>1
<1>5. ASSUME NEW v \in Writers
      PROVE  out'[v] = out[v] \o SubSeq(b, 1, n[v])
  <2>1. out[v] \in Seq(Nat)
    BY DEF Writing
  <2>2. SubSeq(b, 1, Len(b)) = b /\ SubSeq(b, 1, 0) = <<>> /\ out[v] \o <<>> = out[v]
    BY <2>1, SubSeqFull, SubSeqEmpty, ConcatEmptySeq
  <2>3. CASE v < u
    BY <1>1, <2>2, <2>3
  <2>4. CASE v = u /\ ~(v < u)
    BY <1>1, <2>4
  <2>5. CASE ~(v < u) /\ v # u
    BY <1>1, <2>2, <2>5
  <2>. QED
    BY <2>3, <2>4, <2>5
<1>6. out' = [w \in Writers |-> out'[w]]
  BY <1>1
<1>7. out' = [w \in Writers |-> out[w] \o SubSeq(b, 1, n[w])]
  BY <1>5, <1>6
<1>. QED
  BY <1>3, <1>4, <1>7

\* At first no writer has anything.
LEMMA WritingInit == StreamInit => Writing
<1>1. <<>> \in Seq(Nat) /\ Len(<<>>) = 0
  BY EmptySeq
<1>. QED
  BY <1>1 DEF StreamInit, Init, Writing, Increasing, Elements, Writers

\* Batches reach the writers in order, all of a batch or the beginning of it.
LEMMA WritingStep ==
    RunInv /\ Drained /\ Counting /\ Writing /\ [StreamNext]_streamVars => Writing'
<1> SUFFICES ASSUME RunInv, Drained, Counting, Writing, [StreamNext]_streamVars PROVE Writing'
  OBVIOUS
<1>0. RunTypes /\ Places /\ OnlyNewest /\ TasksExist /\ Runner \in Stoppers
  BY RunnerIsUser DEF RunInv, PipelineInv, TypeInv
<1>1. ASSUME UNCHANGED <<writerCount, out, handled, processed>> PROVE Writing'
  BY <1>1 DEF Writing, Writers
<1>2. ASSUME NEW b \in Seq(Nat), PartlyWritten(b), b # <<>>, Increasing(handled \o b),
             handled \in Seq(Nat), processed \in Nat, handled' = handled \o b,
             UNCHANGED <<writerCount, processed>>
      PROVE  Writing'
  <2>1. writerCount \in Nat
    BY <1>0 DEF RunTypes
  <2>2. PICK n \in [Writers -> 0..Len(b)] :
          /\ \A v, w \in Writers : v < w => n[w] <= n[v]
          /\ out' = [w \in Writers |-> out[w] \o SubSeq(b, 1, n[w])]
    BY <1>2, <2>1, PartlyGiven
  <2>. QED
    BY <1>2, <2>2, WritersGet
<1>3. ASSUME NEW k \in Consumers, Consume(k) PROVE Writing'
  <2>1. ConsumerStep(k) /\ UNCHANGED writerCount /\ k = task
    BY <1>3, ConsumeSteps, ConsumerStarted, ConsumerStepControl DEF RunInv, PipelineInv, TypeInv
  <2>2. /\ batch[k] \in Seq(Nat) /\ handled \in Seq(Nat) /\ processed \in Nat
        /\ Increasing(handled \o batch[k])
    BY <2>1, BatchFollows
  <2>3. CASE BatchWritten(k)
    <3>1. /\ out' = [w \in Writers |-> out[w] \o batch[k]]
          /\ handled' = handled \o batch[k] /\ processed' = processed + Len(batch[k])
      BY <2>3 DEF BatchWritten, BatchEnds, BatchLeaves, Finished
    <3> DEFINE b == batch[k]
               n == [w \in Writers |-> Len(b)]
    <3>2. Len(b) \in Nat /\ SubSeq(b, 1, Len(b)) = b
      BY <2>2, LenProperties, SubSeqFull
    <3>3. /\ n \in [Writers -> 0..Len(b)] /\ \A w \in Writers : n[w] = Len(b)
          /\ \A v, w \in Writers : v < w => n[w] <= n[v]
      BY <3>2
    <3>4. out' = [w \in Writers |-> out[w] \o SubSeq(b, 1, n[w])]
      BY <3>1, <3>2
    <3>5. /\ b \in Seq(Nat) /\ Increasing(handled \o b)
          /\ handled' = handled \o b /\ processed' = processed + Len(b)
      BY <2>2, <3>1
    <3>. HIDE DEF b, n
    <3>. QED
      BY <2>1, <2>2, <3>3, <3>4, <3>5, WritersGet
  <2>4. CASE BatchBroken(k)
    <3>1. /\ PartlyWritten(batch[k]) /\ handled' = handled \o batch[k] /\ cpc[k] \in InBatch
          /\ UNCHANGED processed
      BY <2>4 DEF BatchBroken, BatchRaises, BatchLeaves
    <3>2. batch[k] # <<>>
      BY <3>1 DEF Drained
    <3>. QED
      BY <1>2, <2>1, <2>2, <3>1, <3>2
  <2>5. CASE ~(BatchWritten(k) \/ BatchBroken(k))
    <3>1. UNCHANGED <<handled, processed, out>>
      BY <1>3, <2>5 DEF Consume, runVars, Begin, GetItem, WaitForItem, GetTimesOut, LeaveLoop,
                        DrainItem, DrainEnds, TakeItem
    <3>. QED
      BY <1>1, <2>1, <3>1
  <2>. QED
    BY <2>3, <2>4, <2>5
<1>4. CASE StopInterrupted
  <2>1. joins[Runner] = task /\ task \in Consumers
    BY <1>0, <1>4 DEF StopInterrupted, Places, OnlyNewest, TasksExist
  <2>2. /\ CancelConsumer(task) /\ UNCHANGED <<writerCount, processed>>
        /\ IF cpc[task] \in InBatch THEN PartlyWritten(batch[task]) ELSE UNCHANGED out
    BY <1>4, <2>1 DEF StopInterrupted, StopCancelled, Breaks, Same
  <2>3. /\ batch[task] \in Seq(Nat) /\ handled \in Seq(Nat) /\ processed \in Nat
        /\ Increasing(handled \o batch[task])
    BY <2>1, BatchFollows
  <2>4. CASE ~Live(task)
    <3>1. UNCHANGED <<handled, out>>
      BY <2>2, <2>4 DEF CancelConsumer, Live, InBatch, Ended
    <3>. QED
      BY <1>1, <2>2, <3>1
  <2>5. CASE Live(task) /\ cpc[task] \in InBatch
    <3>1. handled' = handled \o batch[task] /\ batch[task] # <<>>
      BY <2>1, <2>2, <2>5 DEF CancelConsumer, BatchLeaves, Drained
    <3>. QED
      BY <1>2, <2>2, <2>3, <2>5, <3>1
  <2>6. CASE Live(task) /\ cpc[task] \notin InBatch
    <3> DEFINE b == batch[task]
               n == [w \in Writers |-> 0]
    <3>1. handled' = handled \o b /\ UNCHANGED out
      BY <2>2, <2>6 DEF CancelConsumer, BatchLeaves
    <3>2. /\ \A w \in Writers : out[w] \o SubSeq(b, 1, 0) = out[w]
          /\ out = [w \in Writers |-> out[w]]
      <4>1. \A w \in Writers : out[w] \in Seq(Nat)
        BY DEF Writing
      <4>2. SubSeq(b, 1, 0) = <<>>
        BY SubSeqEmpty
      <4>3. \A w \in Writers : out[w] \o <<>> = out[w]
        BY <4>1, ConcatEmptySeq
      <4>4. out = [w \in Writers |-> out[w]]
        BY DEF Writing
      <4>. QED
        BY <4>2, <4>3, <4>4
    <3>3. out' = [w \in Writers |-> out[w] \o SubSeq(b, 1, n[w])]
      BY <3>1, <3>2
    <3>4. Len(b) \in Nat /\ (b = <<>> => Len(b) = 0)
      BY <2>3, LenProperties, EmptySeq
    <3>5. /\ n \in [Writers -> 0..Len(b)] /\ \A w \in Writers : n[w] = 0
          /\ \A v, w \in Writers : v < w => n[w] <= n[v]
      BY <3>4
    <3>6. \/ processed' = processed + Len(b) /\ \A w \in Writers : n[w] = Len(b)
          \/ processed' = processed /\ b # <<>>
      <4>1. b = <<>> => processed + Len(b) = processed
        BY <2>3, <3>4
      <4>. QED
        BY <2>2, <3>4, <3>5, <4>1
    <3>7. b \in Seq(Nat) /\ Increasing(handled \o b)
      BY <2>3
    <3>. HIDE DEF b, n
    <3>. QED
      BY <2>2, <2>3, <3>1, <3>3, <3>5, <3>6, <3>7, WritersGet
  <2>. QED
    BY <2>4, <2>5, <2>6
<1>5. CASE NoUrls \/ NothingToStop \/ CloseWriter \/ CloseFails \/ Finish \/ StreamEnds
  BY <1>1, <1>5 DEF NoUrls, NothingToStop, CloseWriter, CloseFails, Finish, StreamEnds, Goes,
                    Same, Breaks, vars, consumerVars
<1>6. CASE RunStarts \/ Receive \/ PutEnds \/ PutTimesOut \/ PutCancelled
  <2>1. UNCHANGED <<writerCount, out>>
    BY <1>6 DEF RunStarts, Receive, PutEnds, PutTimesOut, PutCancelled, Goes, Same
  <2>2. \/ UNCHANGED vars \/ Start
        \/ Put(Runner) \/ PutBlocks(Runner) \/ PutResumes(Runner) \/ PutGivesUp(Runner)
    BY <1>6 DEF RunStarts, Receive, PutEnds, PutTimesOut, PutCancelled
  <2>3. UNCHANGED <<handled, processed>>
    BY <2>2, PutLocal, RunnerIsUser DEF Start, vars, consumerVars
  <2>. QED
    BY <1>1, <2>1, <2>3
<1>7. CASE BeginStop \/ StopDone \/ StopBreaks
  <2>1. UNCHANGED <<writerCount, out>>
    BY <1>7 DEF BeginStop, StopDone, StopBreaks, Goes, Same, Breaks
  <2>2. CASE BeginStop
    <3>1. /\ Stop(Runner) /\ spc'[Runner] = "draining"
          /\ spc \in [Stoppers -> {"idle", "draining", "aborting"}]
      BY <2>2 DEF BeginStop, RunInv, PipelineInv, TypeInv, Types, ControlTypes
    <3>2. UNCHANGED <<handled, processed>>
      BY <1>0, <3>1 DEF Stop
    <3>. QED
      BY <1>1, <2>1, <3>2
  <2>3. CASE StopDone \/ StopBreaks
    <3>1. UNCHANGED <<handled, processed>>
      BY <2>3 DEF StopDone, StopBreaks, StopReturns, StopRaises, consumerVars
    <3>. QED
      BY <1>1, <2>1, <3>1
  <2>. QED
    BY <1>7, <2>2, <2>3
<1>8. CASE UNCHANGED streamVars
  BY <1>1, <1>8 DEF streamVars, runVars, vars, consumerVars
<1>. QED
  BY <1>3, <1>4, <1>5, <1>6, <1>7, <1>8 DEF StreamNext, RunnerStep

-----------------------------------------------------------------------------
(* What the report and the writers can be trusted with. *)

StreamInv == RunInv /\ Drained /\ Ending /\ Counting /\ Writing

\* All that is known of a run holds from its start to its end.
LEMMA StreamInvHolds == StreamSpec => []StreamInv
<1>1. StreamInit => StreamInv
  BY RunInit, DrainedInit, EndingInit, CountingInit, WritingInit DEF StreamInv
<1>2. StreamInv /\ [StreamNext]_streamVars => StreamInv'
  BY RunStep, DrainedStep, EndingStep, CountingStep, WritingStep DEF StreamInv
<1>. QED
  BY <1>1, <1>2, PTL DEF StreamSpec

\* No writer has a result twice or out of order, and what a writer has every
\* writer before it has.
THEOREM WritersInAgreement == StreamSpec => []WritersAgree
<1>1. StreamInv => WritersAgree
  <2> SUFFICES ASSUME StreamInv PROVE WritersAgree
    OBVIOUS
  <2>1. \A w \in Writers : out[w] \in Seq(Nat)
    BY DEF StreamInv, Writing
  <2>2. \A w \in Writers : DOMAIN out[w] = 1..Len(out[w])
    BY <2>1, LenProperties
  <2>3. \A w \in Writers : Increasing(out[w])
    BY DEF StreamInv, Writing
  <2>4. \A v, w \in Writers : v < w => Elements(out[w]) \subseteq Elements(out[v])
    BY DEF StreamInv, Writing
  <2>. QED
    BY <2>2, <2>3, <2>4 DEF WritersAgree, Increasing, Elements
<1>. QED
  BY <1>1, StreamInvHolds, PTL

\* A run that returns has handled all that it accepted.
LEMMA ReturnedIsDrained ==
    ASSUME StreamInv, rpc = "returned", writerCount > 0
    PROVE  handled = accepted
<1>1. task \in Consumers /\ cpc[task] = "done"
  BY DEF StreamInv, Drained
<1>2. queue = <<>> /\ batch[task] = <<>>
  BY <1>1 DEF StreamInv, Drained, RunInv, PipelineInv, TypeInv, HeldRight, Ended
<1>3. InHands = <<>>
  BY <1>1, <1>2 DEF InHands
<1>4. handled \o InHands \o queue = accepted
  BY DEF StreamInv, RunInv, PipelineInv, Places, InOrder
<1>5. handled \in Seq(Nat)
  BY DEF StreamInv, RunInv, PipelineInv, TypeInv, Types, ConsumerTypes
<1>6. handled \o <<>> = handled
  BY <1>5, ConcatEmptySeq
<1>. QED
  BY <1>2, <1>3, <1>4, <1>6

\* When a run returns, every result was handled or dropped by a put that timed
\* out: none is left behind in the queue or in the consumer's hands.
THEOREM LossesExplained == StreamSpec => []MissingIsExplained
<1>1. StreamInv => MissingIsExplained
  <2> SUFFICES ASSUME StreamInv, rpc = "returned", writerCount > 0
               PROVE  dropped + Len(handled) = counted
    BY DEF MissingIsExplained
  <2>1. handled = accepted
    BY ReturnedIsDrained
  <2>2. ~raising
    BY DEF StreamInv, Ending
  <2>3. Len(accepted) + dropped + 0 = counted
    BY <2>2 DEF StreamInv, Counting, Waiting
  <2>4. Len(accepted) \in Nat /\ dropped \in Nat
    BY LenProperties DEF StreamInv, RunInv, PipelineInv, TypeInv, Types, ProducerTypes
  <2>. QED
    BY <2>1, <2>3, <2>4
<1>. QED
  BY <1>1, StreamInvHolds, PTL

\* If a run returns and its metrics say that as many results were processed as
\* arrived, every writer has every result once and in order.
THEOREM ReportReliable == StreamSpec => []ReportIsReliable
<1>1. StreamInv => ReportIsReliable
  <2> SUFFICES ASSUME StreamInv, rpc = "returned", processed = counted, NEW w \in Writers
               PROVE  out[w] = [i \in 1..counted |-> i]
    BY DEF ReportIsReliable
  <2>1. writerCount > 0
    BY DEF Writers, StreamInv, RunInv, RunTypes
  <2>2. handled = accepted
    BY <2>1, ReturnedIsDrained
  <2>3. puts - 0 = counted /\ puts \in Nat
    BY <2>1 DEF StreamInv, Counting, RunInv, PipelineInv, TypeInv, Types, ProducerTypes
  <2>4. Numbered(accepted, counted)
    <3>1. Numbered(accepted, puts - 0)
      BY DEF StreamInv, Counting, Waiting
    <3>. QED
      BY <2>3, <3>1
  <2>5. Len(accepted) <= counted /\ processed <= Len(handled)
    BY <2>4 DEF Numbered, StreamInv, Writing
  <2>6. Len(accepted) \in Nat /\ counted \in Nat
    BY LenProperties DEF StreamInv, RunInv, RunTypes, PipelineInv, TypeInv, Types, ProducerTypes
  <2>7. Len(accepted) = counted
    BY <2>2, <2>5, <2>6
  <2>8. accepted = [i \in 1..counted |-> i]
    BY <2>4, <2>7 DEF Numbered
  <2>9. out[w] = handled
    BY <2>2, <2>7 DEF StreamInv, Writing
  <2>. QED
    BY <2>2, <2>8, <2>9
<1>. QED
  BY <1>1, StreamInvHolds, PTL
=============================================================================
