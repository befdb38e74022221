---------------------------- MODULE PipelineProofs ----------------------------
(***************************************************************************)
(* Theorems about Pipeline, for any number of producers, stoppers, puts,   *)
(* starts and flushes, and any size of the queue and of the batches.       *)
(***************************************************************************)
EXTENDS Pipeline, TLAPS

LOCAL INSTANCE SequencesExt
LOCAL INSTANCE SequenceTheorems
LOCAL INSTANCE FiniteSetTheorems

-----------------------------------------------------------------------------
(* Types. *)

ProducerTypes ==
    /\ opts \in [dropOnFull : BOOLEAN, onError : BOOLEAN]
    /\ queue \in Seq(Nat) /\ Len(queue) <= MaxQueueSize
    /\ putters \in Seq(Producers)
    /\ ppc \in [Producers -> {"idle", "blocked", "woken"}]
    /\ pitem \in [Producers -> Nat]
    /\ dropped \in Nat /\ puts \in Nat /\ accepted \in Seq(Nat)

ConsumerTypes ==
    /\ cpc \in [Consumers -> {"unborn", "new", "head", "getting", "drain"}
                             \cup InBatch \cup Ended]
    /\ batch \in [Consumers -> Seq(Nat)]
    /\ processed \in Nat /\ flushEvent \in BOOLEAN /\ handled \in Seq(Nat)

ControlTypes ==
    /\ shutdown \in BOOLEAN /\ running \in BOOLEAN /\ task \in 0..MaxStarts
    /\ spc \in [Stoppers -> {"idle", "draining", "aborting"}]
    /\ joins \in [Stoppers -> 0..MaxStarts] /\ crossed \in BOOLEAN
    /\ goal \in [Stoppers -> Nat]
    /\ fpc \in {"idle", "waiting", "woken"} /\ flushes \in Nat

Types == ProducerTypes /\ ConsumerTypes /\ ControlTypes

\* Only a consumer that lives holds items, and never more than a batch unless
\* an on_error that raises makes it keep a full one.
HeldRight ==
    \A k \in Consumers :
      /\ cpc[k] \in Ended \cup {"unborn", "new"} => batch[k] = <<>>
      /\ ~opts.onError => /\ Len(batch[k]) <= BatchSize
                          /\ cpc[k] \in {"head", "getting", "drain"}
                               => Len(batch[k]) < BatchSize

\* Taking one place out of a queue leaves a sequence of the same elements.
LEMMA RemoveAtType ==
    ASSUME NEW T, NEW q \in Seq(T), NEW i \in DOMAIN q
    PROVE  RemoveAt(q, i) \in Seq(T)
<1> DEFINE front == SubSeq(q, 1, i - 1)
           back  == SubSeq(q, i + 1, Len(q))
<1>1. Len(q) \in Nat /\ i \in 1..Len(q)
  BY LenProperties
<1>2. front \in Seq(T) /\ back \in Seq(T)
  BY <1>1, SubSeqProperties
<1>3. RemoveAt(q, i) = front \o back
  BY DEF RemoveAt
<1>. QED
  BY <1>2, <1>3, ConcatProperties

\* A queue that is not empty has a head, and a tail one shorter.
LEMMA HeadAndTail ==
    ASSUME NEW T, NEW q \in Seq(T), q # <<>>
    PROVE  /\ Head(q) \in T /\ Tail(q) \in Seq(T)
           /\ Len(Tail(q)) = Len(q) - 1 /\ Len(q) \in Nat /\ Len(Tail(q)) \in Nat
<1>. QED
  BY HeadTailProperties, LenProperties

\* A producer's step keeps its own types.
LEMMA PutTypes ==
    ASSUME ProducerTypes, NEW p \in Producers,
           Put(p) \/ PutDropped(p) \/ PutBlocks(p) \/ PutResumes(p) \/ PutGivesUp(p)
    PROVE  ProducerTypes'
<1>. USE DEF ProducerTypes
<1>1. ASSUME NEW i \in Nat, Enqueue(i), ~Full
      PROVE  queue' \in Seq(Nat) /\ Len(queue') <= MaxQueueSize /\ accepted' \in Seq(Nat)
  <2>1. /\ queue' = Append(queue, i) /\ accepted' = Append(accepted, i)
        /\ Append(queue, i) \in Seq(Nat) /\ Append(accepted, i) \in Seq(Nat)
        /\ Len(Append(queue, i)) = Len(queue) + 1
    BY <1>1, AppendProperties DEF Enqueue
  <2>2. Len(queue) \in Nat /\ ~(Len(queue) >= MaxQueueSize)
    BY <1>1, LenProperties DEF Full
  <2>3. Len(queue) + 1 <= MaxQueueSize
    BY <2>2, PipelineAssumption DEF PipelineAssumption
  <2>. QED
    BY <2>1, <2>3
<1>2. Append(putters, p) \in Seq(Producers)
  BY AppendProperties
<1>3. CASE Put(p)
  <2>1. puts + 1 \in Nat /\ puts' = puts + 1 /\ ~Full /\ Enqueue(puts + 1)
    BY <1>3 DEF Put, BeginPut
  <2>. QED
    BY <1>1, <1>3, <2>1 DEF Put
<1>4. CASE PutDropped(p)
  BY <1>4 DEF PutDropped, BeginPut
<1>5. CASE PutBlocks(p)
  BY <1>2, <1>5 DEF PutBlocks, BeginPut
<1>6. CASE PutResumes(p)
  <2>1. CASE ~Full
    <3>1. /\ Enqueue(pitem[p]) /\ pitem[p] \in Nat /\ UNCHANGED putters
          /\ ppc' = [ppc EXCEPT ![p] = "idle"] /\ pitem' = [pitem EXCEPT ![p] = 0]
      BY <1>6, <2>1 DEF PutResumes
    <3>2. queue' \in Seq(Nat) /\ Len(queue') <= MaxQueueSize /\ accepted' \in Seq(Nat)
      BY <1>1, <2>1, <3>1
    <3>. QED
      BY <1>6, <3>1, <3>2 DEF PutResumes
  <2>2. CASE Full
    BY <1>2, <1>6, <2>2 DEF PutResumes
  <2>. QED
    BY <1>6, <2>1, <2>2 DEF PutResumes
<1>7. CASE PutGivesUp(p)
  <2>1. putters' \in Seq(Producers)
    <3>1. \A i \in DOMAIN putters : RemoveAt(putters, i) \in Seq(Producers)
      BY RemoveAtType
    <3>2. putters # <<>> => Tail(putters) \in Seq(Producers)
      BY HeadAndTail
    <3>3. \/ \E i \in DOMAIN putters : putters' = RemoveAt(putters, i)
          \/ putters' = putters
          \/ putters # <<>> /\ putters' = Tail(putters)
      BY <1>7 DEF PutGivesUp, PassOn
    <3>4. putters \in Seq(Producers)
      OBVIOUS
    <3>. HIDE DEF ProducerTypes
    <3>. QED
      BY <3>1, <3>2, <3>3, <3>4
  <2>2. ppc' \in [Producers -> {"idle", "blocked", "woken"}]
    BY <1>7 DEF PutGivesUp, PassOn
  <2>3. pitem' \in [Producers -> Nat] /\ dropped' \in Nat
    BY <1>7 DEF PutGivesUp
  <2>. QED
    BY <1>7, <2>1, <2>2, <2>3 DEF PutGivesUp
<1>. QED
  BY <1>3, <1>4, <1>5, <1>6, <1>7

\* Taking an item out of the queue keeps the types of queue and batch.
LEMMA TakeTypes ==
    ASSUME Types, NEW k \in Consumers, TakeItem(k)
    PROVE  /\ ProducerTypes' /\ batch' \in [Consumers -> Seq(Nat)]
           /\ Len(batch'[k]) = Len(batch[k]) + 1
           /\ \A m \in Consumers : m # k => batch'[m] = batch[m]
<1>. USE DEF Types, ProducerTypes, ConsumerTypes
<1>1. queue' \in Seq(Nat) /\ Len(queue') <= MaxQueueSize
  <2>1. /\ queue' = Tail(queue) /\ Tail(queue) \in Seq(Nat)
        /\ Len(Tail(queue)) = Len(queue) - 1 /\ Len(queue) \in Nat
    BY HeadAndTail DEF TakeItem
  <2>2. Len(queue) - 1 <= MaxQueueSize
    BY <2>1, PipelineAssumption DEF PipelineAssumption
  <2>. QED
    BY <2>1, <2>2
<1>2. putters' \in Seq(Producers) /\ ppc' \in [Producers -> {"idle", "blocked", "woken"}]
  <2>1. putters # <<>> => Tail(putters) \in Seq(Producers)
    BY HeadAndTail
  <2>. QED
    BY <2>1 DEF TakeItem, WakePutter
<1>3. /\ Append(batch[k], Head(queue)) \in Seq(Nat)
      /\ Len(Append(batch[k], Head(queue))) = Len(batch[k]) + 1
  BY HeadAndTail, AppendProperties DEF TakeItem
<1>4. batch' = [batch EXCEPT ![k] = Append(batch[k], Head(queue))]
  BY DEF TakeItem
<1>. QED
  BY <1>1, <1>2, <1>3, <1>4 DEF TakeItem

\* A consumer's step keeps the types and what the consumers may hold.
LEMMA ConsumerStepTypes ==
    ASSUME Types, HeldRight, NEW k \in Consumers, ConsumerStep(k)
    PROVE  Types' /\ HeldRight'
<1>. USE DEF Types, HeldRight, InBatch, Ended
<1>1. ASSUME NEW to \in {"head", "getting", "batch", "drain", "drainBatch",
                         "finalBatch", "done"},
             cpc' = [cpc EXCEPT ![k] = to],
             to = "done" => batch[k] = <<>>,
             to \in {"head", "getting", "drain"} /\ ~opts.onError
               => Len(batch[k]) < BatchSize,
             UNCHANGED <<producerVars, batch, processed, flushEvent, handled,
                         controlVars, flusherVars, goal>>
      PROVE  Types' /\ HeldRight'
  BY <1>1 DEF ProducerTypes, ConsumerTypes, ControlTypes, producerVars,
              controlVars, flusherVars
<1>2. cpc[k] = "new" => Len(batch[k]) < BatchSize
  BY EmptySeq, PipelineAssumption DEF PipelineAssumption
<1>3. batch[k] = <<>> => Len(batch[k]) < BatchSize
  BY EmptySeq, PipelineAssumption DEF PipelineAssumption
<1>4. CASE Begin(k)
  BY <1>1, <1>2, <1>4 DEF Begin
<1>5. CASE WaitForItem(k)
  BY <1>1, <1>5 DEF WaitForItem, AtHead
<1>6. CASE GetTimesOut(k)
  BY <1>1, <1>6 DEF GetTimesOut
<1>7. CASE LeaveLoop(k)
  BY <1>1, <1>3, <1>7 DEF LeaveLoop
<1>8. CASE DrainEnds(k)
  BY <1>1, <1>8 DEF DrainEnds
<1>9. CASE BatchKept(k)
  BY <1>1, <1>9 DEF BatchKept
<1>10. ASSUME TakeItem(k),
              NEW to \in {"head", "batch", "drain", "drainBatch"},
              cpc' = [cpc EXCEPT ![k] = to],
              to \in {"head", "drain"} => Len(batch'[k]) < BatchSize,
              cpc[k] \in {"head", "getting", "drain"}
       PROVE  Types' /\ HeldRight'
  <2>1. /\ ProducerTypes' /\ batch' \in [Consumers -> Seq(Nat)]
        /\ Len(batch'[k]) = Len(batch[k]) + 1
        /\ \A m \in Consumers : m # k => batch'[m] = batch[m]
    BY <1>10, TakeTypes
  <2>2. UNCHANGED <<opts, processed, flushEvent, handled, controlVars, flusherVars, goal>>
    BY <1>10 DEF TakeItem
  <2>3. Types'
    BY <1>10, <2>1, <2>2 DEF ConsumerTypes, ControlTypes, controlVars, flusherVars
  <2>4. Len(batch[k]) \in Nat /\ BatchSize \in Nat
    BY LenProperties, PipelineAssumption DEF ConsumerTypes, PipelineAssumption
  <2>5. ~opts.onError => Len(batch'[k]) <= BatchSize
    BY <1>10, <2>1, <2>4
  <2>. QED
    BY <1>10, <2>1, <2>2, <2>3, <2>5 DEF ConsumerTypes
<1>11. CASE GetItem(k)
  <2>1. PICK to \in {"head", "batch"} :
           /\ cpc' = [cpc EXCEPT ![k] = to]
           /\ to = "head" => Len(batch'[k]) < BatchSize
    BY <1>11 DEF GetItem
  <2>2. TakeItem(k) /\ cpc[k] \in {"head", "getting"}
    BY <1>11 DEF GetItem, AtHead
  <2>. QED
    BY <1>10, <2>1, <2>2
<1>12. CASE DrainItem(k)
  <2>1. TakeItem(k) /\ cpc[k] = "drain"
    BY <1>12 DEF DrainItem
  <2>2. Len(batch'[k]) \in Nat /\ BatchSize \in Nat
    BY <2>1, TakeTypes, LenProperties, PipelineAssumption DEF PipelineAssumption
  <2>3. PICK to \in {"drain", "drainBatch"} :
           /\ cpc' = [cpc EXCEPT ![k] = to]
           /\ to = "drain" => ~(Len(batch'[k]) >= BatchSize)
    BY <1>12 DEF DrainItem
  <2>4. to = "drain" => Len(batch'[k]) < BatchSize
    BY <2>2, <2>3
  <2>. QED
    BY <1>10, <2>1, <2>3, <2>4
<1>13. ASSUME BatchLeaves(k), processed' \in Nat, flushEvent' \in BOOLEAN,
              NEW to \in {"failed", "head", "drain", "done"},
              cpc' = [cpc EXCEPT ![k] = to],
              UNCHANGED <<producerVars, controlVars, flusherVars, goal>>
       PROVE  Types' /\ HeldRight'
  <2>1. handled \o batch[k] \in Seq(Nat)
    BY ConcatProperties DEF ConsumerTypes
  <2>2. <<>> \in Seq(Nat) /\ Len(<<>>) < BatchSize /\ Len(<<>>) <= BatchSize
    BY EmptySeq, PipelineAssumption DEF PipelineAssumption
  <2>3. Types'
    BY <1>13, <2>1, <2>2 DEF BatchLeaves, ProducerTypes, ConsumerTypes, ControlTypes,
                             producerVars, controlVars, flusherVars
  <2>4. HeldRight'
    BY <1>13, <2>2 DEF BatchLeaves, ConsumerTypes, producerVars
  <2>. QED
    BY <2>3, <2>4
<1>14. CASE BatchEnds(k)
  <2>1. processed + Len(batch[k]) \in Nat
    BY LenProperties DEF ConsumerTypes
  <2>2. processed' \in Nat /\ flushEvent' \in BOOLEAN
    BY <1>14, <2>1 DEF BatchEnds, Finished, ConsumerTypes
  <2>3. AfterBatch(k) \in {"failed", "head", "drain", "done"}
    BY DEF AfterBatch
  <2>. QED
    BY <1>13, <1>14, <2>2, <2>3 DEF BatchEnds
<1>15. CASE BatchRaises(k)
  <2>1. processed' \in Nat /\ flushEvent' \in BOOLEAN
    BY <1>15 DEF BatchRaises, ConsumerTypes
  <2>2. PICK to \in {"failed", "head", "drain", "done"} : cpc' = [cpc EXCEPT ![k] = to]
    BY <1>15 DEF BatchRaises, AfterBatch
  <2>. QED
    BY <1>13, <1>15, <2>1, <2>2 DEF BatchRaises
<1>. QED
  BY <1>4, <1>5, <1>6, <1>7, <1>8, <1>9, <1>11, <1>12, <1>14, <1>15 DEF ConsumerStep

\* Whatever a cancellation does to a consumer keeps the types.
LEMMA CancelTypes ==
    ASSUME Types, HeldRight, NEW k \in Consumers, CancelConsumer(k),
           UNCHANGED <<producerVars, processed, flushEvent>>
    PROVE  ProducerTypes' /\ ConsumerTypes' /\ HeldRight'
<1>. USE DEF Types, HeldRight, Ended, InBatch
<1>1. CASE Live(k)
  <2>1. handled \o batch[k] \in Seq(Nat)
    BY <1>1, ConcatProperties DEF ConsumerTypes
  <2>2. <<>> \in Seq(Nat) /\ Len(<<>>) < BatchSize /\ Len(<<>>) <= BatchSize
    BY EmptySeq, PipelineAssumption DEF PipelineAssumption
  <2>3. /\ cpc' = [cpc EXCEPT ![k] = "cancelled"]
        /\ batch' = [batch EXCEPT ![k] = <<>>] /\ handled' = handled \o batch[k]
    BY <1>1 DEF CancelConsumer, BatchLeaves
  <2>4. ProducerTypes' /\ ConsumerTypes'
    BY <2>1, <2>2, <2>3 DEF ProducerTypes, ConsumerTypes, producerVars
  <2>5. UNCHANGED opts
    BY DEF producerVars
  <2>6. HeldRight'
    BY <2>2, <2>3, <2>5 DEF ConsumerTypes
  <2>. QED
    BY <2>4, <2>6
<1>2. CASE ~Live(k)
  BY <1>2 DEF CancelConsumer, ProducerTypes, ConsumerTypes, producerVars
<1>. QED
  BY <1>1, <1>2

-----------------------------------------------------------------------------
(* One consumer. *)

\* A pipeline that runs has a consumer task, and a stopper waits for one.
TasksExist ==
    /\ running => task \in Consumers
    /\ \A s \in Stoppers : spc[s] # "idle" => joins[s] \in Consumers
    /\ \A k \in Consumers : k > task => cpc[k] = "unborn"

\* No consumer lives but the newest one of a pipeline that runs.
Alone == \A k \in Consumers : Live(k) => k = task /\ running

\* While no start has fallen between two stops, all stoppers wait for the newest
\* consumer, and no other lives.
OnlyNewest ==
    ~crossed => /\ \A s \in Stoppers : spc[s] # "idle" => joins[s] = task
                /\ Alone

\* A consumer's step starts no consumer and revives none.
LEMMA ConsumerStepControl ==
    ASSUME Types, NEW k \in Consumers, ConsumerStep(k)
    PROVE  /\ UNCHANGED <<controlVars, flusherVars, goal>>
           /\ Live(k)
           /\ \A m \in Consumers : m # k => cpc'[m] = cpc[m]
<1>. USE DEF Types, ConsumerTypes, Live, InBatch, Ended
<1>1. CASE Begin(k) \/ WaitForItem(k) \/ GetTimesOut(k) \/ LeaveLoop(k) \/ DrainEnds(k)
  BY <1>1 DEF Begin, WaitForItem, GetTimesOut, LeaveLoop, DrainEnds, AtHead
<1>2. CASE GetItem(k) \/ DrainItem(k)
  BY <1>2 DEF GetItem, DrainItem, TakeItem, AtHead
<1>3. CASE BatchEnds(k) \/ BatchRaises(k) \/ BatchKept(k)
  BY <1>3 DEF BatchEnds, BatchRaises, BatchKept
<1>. QED
  BY <1>1, <1>2, <1>3 DEF ConsumerStep

TypeInv == Types /\ HeldRight /\ TasksExist

\* A producer only touches what belongs to producers.
LEMMA PutLocal ==
    ASSUME NEW p \in Producers,
           Put(p) \/ PutDropped(p) \/ PutBlocks(p) \/ PutResumes(p) \/ PutGivesUp(p)
    PROVE  UNCHANGED <<opts, consumerVars, controlVars, flusherVars, goal>>
<1>. QED
  BY DEF Put, PutDropped, PutBlocks, PutResumes, PutGivesUp

\* No stopper waits for a consumer that does not exist.
LEMMA ZeroStarts == 0 \in 0..MaxStarts
<1>. QED
  BY PipelineAssumption DEF PipelineAssumption

\* A stopper's step keeps the types.
LEMMA StopTypes ==
    ASSUME TypeInv, NEW s \in Stoppers, Stop(s) \/ StopperStep(s) \/ StopCancelled(s)
    PROVE  TypeInv'
<1>. USE DEF TypeInv, Types, ControlTypes
<1>1. CASE Stop(s)
  <2>1. task \in Consumers
    BY <1>1 DEF Stop, TasksExist
  <2>2. UNCHANGED <<running, task, crossed, processed, flushEvent, producerVars, flusherVars>>
    BY <1>1 DEF Stop
  <2>3. CancelConsumer(task) \/ UNCHANGED <<cpc, batch, handled>>
    BY <1>1 DEF Stop
  <2>4. ProducerTypes' /\ ConsumerTypes' /\ HeldRight'
    <3>1. CASE UNCHANGED <<cpc, batch, handled>>
      BY <2>2, <3>1 DEF ProducerTypes, ConsumerTypes, HeldRight, producerVars, Ended, InBatch
    <3>. QED
      BY <2>1, <2>2, <2>3, <3>1, CancelTypes
  <2>5. Len(accepted) \in Nat
    BY LenProperties DEF ProducerTypes
  <2>6. /\ shutdown' = TRUE /\ joins' = [joins EXCEPT ![s] = task]
        /\ goal' \in [Stoppers -> Nat]
        /\ \E to \in {"draining", "aborting"} : spc' = [spc EXCEPT ![s] = to]
    BY <1>1, <2>5 DEF Stop
  <2>7. ControlTypes'
    BY <2>2, <2>6 DEF flusherVars
  <2>8. \A k \in Consumers : k > task => cpc'[k] = cpc[k]
    BY <2>1, <2>3, PipelineAssumption
    DEF CancelConsumer, ConsumerTypes, Consumers, PipelineAssumption
  <2>9. TasksExist'
    BY <2>1, <2>2, <2>6, <2>8 DEF TasksExist
  <2>. QED
    BY <2>4, <2>7, <2>9
<1>2. CASE StopReturns(s) \/ StopRaises(s)
  <2>1. /\ StopLeaves(s) /\ UNCHANGED consumerVars /\ (running' = running \/ running' = FALSE)
    BY <1>2 DEF StopReturns, StopRaises
  <2>2. ProducerTypes' /\ ConsumerTypes'
    BY <2>1 DEF StopLeaves, ProducerTypes, ConsumerTypes, producerVars, consumerVars
  <2>3. ControlTypes'
    BY <2>1, ZeroStarts DEF StopLeaves, flusherVars
  <2>4. HeldRight'
    BY <2>1 DEF StopLeaves, HeldRight, producerVars, consumerVars
  <2>5. TasksExist'
    <3>1. (running' => running) /\ task' = task /\ cpc' = cpc
      BY <2>1 DEF StopLeaves, consumerVars
    <3>2. \A u \in Stoppers : spc'[u] # "idle" => spc[u] # "idle" /\ joins'[u] = joins[u]
      BY <2>1 DEF StopLeaves
    <3>. QED
      BY <3>1, <3>2 DEF TasksExist
  <2>. QED
    BY <2>2, <2>3, <2>4, <2>5
<1>3. CASE StopCancelled(s)
  <2>1. joins[s] \in Consumers
    BY <1>3 DEF StopCancelled, TasksExist
  <2>2. StopLeaves(s) /\ CancelConsumer(joins[s]) /\ UNCHANGED <<running, processed, flushEvent>>
    BY <1>3 DEF StopCancelled
  <2>3. ProducerTypes' /\ ConsumerTypes' /\ HeldRight'
    BY <2>1, <2>2, CancelTypes DEF StopLeaves
  <2>4. ControlTypes'
    BY <2>2, ZeroStarts DEF StopLeaves, flusherVars
  <2>5. \A k \in Consumers : cpc[k] = "unborn" => cpc'[k] = "unborn"
    BY <2>1, <2>2 DEF CancelConsumer, Live, ConsumerTypes
  <2>6. TasksExist'
    BY <2>2, <2>5 DEF StopLeaves, TasksExist
  <2>. QED
    BY <2>3, <2>4, <2>6
<1>. QED
  BY <1>1, <1>2, <1>3 DEF StopperStep

\* A new pipeline is well typed.
LEMMA TypeInit == Init => TypeInv
<1> SUFFICES ASSUME Init PROVE TypeInv
  OBVIOUS
<1>1. <<>> \in Seq(Nat) /\ <<>> \in Seq(Producers) /\ Len(<<>>) = 0
  BY EmptySeq
<1>. USE <1>1, PipelineAssumption DEF PipelineAssumption, Init
<1>2. ProducerTypes
  BY DEF ProducerTypes
<1>3. ConsumerTypes
  BY DEF ConsumerTypes
<1>4. ControlTypes
  BY ZeroStarts DEF ControlTypes
<1>5. HeldRight
  BY DEF HeldRight
<1>6. TasksExist
  BY DEF TasksExist
<1>. QED
  BY <1>2, <1>3, <1>4, <1>5, <1>6 DEF TypeInv, Types

\* No step leaves the types.
LEMMA TypeStep == TypeInv /\ [Next]_vars => TypeInv'
<1> SUFFICES ASSUME TypeInv, [Next]_vars PROVE TypeInv'
  OBVIOUS
<1>. USE DEF TypeInv, Types
<1>1. ASSUME NEW p \in Producers,
             Put(p) \/ PutDropped(p) \/ PutBlocks(p) \/ PutResumes(p) \/ PutGivesUp(p)
      PROVE  TypeInv'
  <2>1. UNCHANGED <<opts, consumerVars, controlVars, flusherVars, goal>> /\ ProducerTypes'
    BY <1>1, PutLocal, PutTypes
  <2>. QED
    BY <2>1 DEF ConsumerTypes, ControlTypes, HeldRight, TasksExist, consumerVars,
                controlVars, flusherVars, InBatch, Ended
<1>2. ASSUME NEW k \in Consumers, ConsumerStep(k) PROVE TypeInv'
  <2>1. Types' /\ HeldRight'
    BY <1>2, ConsumerStepTypes
  <2>2. UNCHANGED controlVars /\ Live(k) /\ \A m \in Consumers : m # k => cpc'[m] = cpc[m]
    BY <1>2, ConsumerStepControl
  <2>3. cpc[k] # "unborn"
    BY <2>2 DEF Live, Ended
  <2>4. TasksExist'
    BY <2>2, <2>3 DEF TasksExist, controlVars
  <2>. QED
    BY <2>1, <2>4
<1>3. CASE Start
  <2>1. task + 1 \in Consumers
    BY <1>3, PipelineAssumption DEF Start, ControlTypes, Consumers, PipelineAssumption
  <2>2. Types'
    <3>1. ProducerTypes' /\ ConsumerTypes'
      BY <1>3 DEF Start, ProducerTypes, ConsumerTypes, producerVars
    <3>2. task + 1 \in 0..MaxStarts
      BY <2>1, PipelineAssumption DEF Consumers, PipelineAssumption
    <3>3. ControlTypes'
      BY <1>3, <3>2 DEF Start, ControlTypes, flusherVars
    <3>. QED
      BY <3>1, <3>3
  <2>3. cpc[task + 1] = "unborn"
    BY <2>1 DEF TasksExist, ControlTypes
  <2>4. HeldRight' /\ TasksExist'
    BY <1>3, <2>1, <2>3, PipelineAssumption, SMTT(20)
    DEF Start, HeldRight, TasksExist, ConsumerTypes, ControlTypes, Consumers,
        producerVars, Ended, PipelineAssumption
  <2>. QED
    BY <2>2, <2>4
<1>4. ASSUME NEW s \in Stoppers, Stop(s) \/ StopperStep(s) \/ StopCancelled(s)
      PROVE  TypeInv'
  BY <1>4, StopTypes
<1>5. CASE Flush \/ FlushWakes \/ FlushTests
  <2>1. /\ UNCHANGED <<producerVars, cpc, batch, processed, handled, controlVars, goal>>
        /\ flushEvent' \in {flushEvent, FALSE} /\ fpc' \in {"idle", "waiting", "woken"}
        /\ flushes' \in {flushes, flushes + 1}
    BY <1>5 DEF Flush, FlushWakes, FlushTests, ControlTypes, consumerVars
  <2>2. ProducerTypes' /\ ConsumerTypes'
    BY <2>1 DEF ProducerTypes, ConsumerTypes, producerVars
  <2>3. ControlTypes'
    BY <2>1 DEF ControlTypes, controlVars
  <2>4. HeldRight' /\ TasksExist'
    BY <2>1 DEF HeldRight, TasksExist, producerVars, controlVars
  <2>. QED
    BY <2>2, <2>3, <2>4
<1>6. CASE UNCHANGED vars
  BY <1>6 DEF vars, ProducerTypes, ConsumerTypes, ControlTypes, HeldRight,
              TasksExist, producerVars, consumerVars, controlVars, flusherVars, Ended, InBatch
<1>. QED
  BY <1>1, <1>2, <1>3, <1>4, <1>5, <1>6 DEF Next

\* The pipeline's variables stay within their types: the queue never holds more
\* than max_queue_size items, nor a batch more than batch_size, unless an on_error
\* that raises makes the consumer keep it.
THEOREM PipelineTypeCorrect == Spec => []TypeOK
<1>1. TypeInv => TypeOK
  BY DEF TypeInv, Types, ProducerTypes, ConsumerTypes, ControlTypes, HeldRight, TypeOK
<1>. QED
  BY <1>1, TypeInit, TypeStep, PTL DEF Spec

\* At first no consumer lives.
LEMMA NewestInit == Init => OnlyNewest
<1>. QED
  BY DEF Init, OnlyNewest, Alone, Live

\* Unless a start falls between two stops, no step gives the queue a second
\* consumer, or lets is_running hide the one there is.
LEMMA NewestStep == TypeInv /\ OnlyNewest /\ [Next]_vars => OnlyNewest'
<1> SUFFICES ASSUME TypeInv, OnlyNewest, [Next]_vars, ~crossed'
             PROVE  /\ \A s \in Stoppers : spc'[s] # "idle" => joins'[s] = task'
                    /\ \A k \in Consumers : Live(k)' => k = task' /\ running'
  BY DEF OnlyNewest, Alone
<1>. USE DEF TypeInv, Types, ControlTypes, ConsumerTypes, OnlyNewest, Alone
<1>1. ASSUME NEW p \in Producers,
             Put(p) \/ PutDropped(p) \/ PutBlocks(p) \/ PutResumes(p) \/ PutGivesUp(p)
      PROVE  UNCHANGED <<cpc, controlVars>>
  BY <1>1, PutLocal DEF consumerVars
<1>2. ASSUME NEW k \in Consumers, ConsumerStep(k)
      PROVE  /\ UNCHANGED controlVars
             /\ \A m \in Consumers : Live(m)' => Live(m)
  BY <1>2, ConsumerStepControl DEF Live
<1>3. UNCHANGED controlVars /\ (\A m \in Consumers : Live(m)' => Live(m)) => OnlyNewest'
  BY DEF controlVars
<1>4. CASE Start
  <2>1. ~crossed /\ (\A s \in Stoppers : spc'[s] = "idle")
    BY <1>4 DEF Start
  <2>2. \A k \in Consumers : ~Live(k)
    BY <1>4, <2>1 DEF Start
  <2>3. \A k \in Consumers : Live(k)' => k = task' /\ running'
    BY <1>4, <2>2 DEF Start, Live
  <2>. QED
    BY <2>1, <2>3
<1>5. ASSUME NEW s \in Stoppers, Stop(s)
      PROVE  /\ \A u \in Stoppers : spc'[u] # "idle" => joins'[u] = task'
             /\ \A k \in Consumers : Live(k)' => k = task' /\ running'
  <2>1. ~crossed /\ UNCHANGED <<running, task>> /\ joins' = [joins EXCEPT ![s] = task]
    BY <1>5 DEF Stop
  <2>2. \A u \in Stoppers : u # s => spc'[u] = spc[u]
    BY <1>5 DEF Stop
  <2>3. \A k \in Consumers : Live(k)' => Live(k)
    BY <1>5 DEF Stop, CancelConsumer, Live, Ended
  <2>. QED
    BY <2>1, <2>2, <2>3
<1>6. ASSUME NEW s \in Stoppers, StopLeaves(s)
      PROVE  /\ \A u \in Stoppers : spc'[u] # "idle" => joins'[u] = task'
             /\ UNCHANGED <<task, crossed>>
  <2>1. \A u \in Stoppers : spc'[u] # "idle" => spc[u] # "idle" /\ joins'[u] = joins[u]
    BY <1>6 DEF StopLeaves
  <2>. QED
    BY <1>6, <2>1 DEF StopLeaves
<1>7. ASSUME NEW s \in Stoppers, StopReturns(s)
      PROVE  \A k \in Consumers : ~Live(k)'
  <2>1. /\ spc[s] # "idle" /\ cpc[joins[s]] \in Ended /\ UNCHANGED <<cpc, crossed>>
    BY <1>7 DEF StopReturns, Joinable, StopLeaves, consumerVars
  <2>2. cpc[task] \in Ended
    BY <2>1
  <2>. QED
    BY <2>1, <2>2 DEF Live
<1>8. ASSUME NEW s \in Stoppers, StopRaises(s) \/ StopCancelled(s)
      PROVE  UNCHANGED running /\ \A k \in Consumers : Live(k)' => Live(k)
  BY <1>8 DEF StopRaises, StopCancelled, StopLeaves, CancelConsumer, consumerVars, Live, Ended
<1>9. CASE Flush \/ FlushWakes \/ FlushTests
  BY <1>3, <1>9 DEF Flush, FlushWakes, FlushTests, consumerVars, Live
<1>10. CASE UNCHANGED vars
  BY <1>3, <1>10 DEF vars, consumerVars, Live
<1>11. ASSUME NEW s \in Stoppers, StopperStep(s) \/ StopCancelled(s)
       PROVE  /\ \A u \in Stoppers : spc'[u] # "idle" => joins'[u] = task'
              /\ \A k \in Consumers : Live(k)' => k = task' /\ running'
  <2>1. StopLeaves(s)
    BY <1>11 DEF StopperStep, StopReturns, StopRaises, StopCancelled
  <2>. QED
    BY <1>6, <1>7, <1>8, <1>11, <2>1 DEF StopperStep
<1>. QED
  BY <1>1, <1>2, <1>3, <1>4, <1>5, <1>9, <1>10, <1>11 DEF Next, Live

\* Until a stop is called the newest consumer does not drain, nobody waits for it
\* to end, and if it is not there an exception has killed it.
Attended ==
    /\ \A s \in Stoppers : spc[s] # "idle" => joins[s] \in 1..task
    /\ running /\ ~shutdown =>
         /\ \A s \in Stoppers : spc[s] # "idle" => joins[s] # task
         /\ cpc[task] \notin {"drain", "drainBatch", "finalBatch"}
         /\ Live(task) \/ cpc[task] = "failed"

\* Nothing is promised of a pipeline that does not run.
LEMMA AttendedInit == Init => Attended
<1>. QED
  BY DEF Init, Attended

\* A consumer that no stop has told to end goes round its loop, or dies of an
\* exception.
LEMMA AttendedLoop ==
    ASSUME Types, NEW k \in Consumers, ConsumerStep(k), ~shutdown,
           cpc[k] \notin {"drain", "drainBatch", "finalBatch"}
    PROVE  cpc'[k] \in {"head", "getting", "batch", "failed"}
<1>. USE DEF Types, ConsumerTypes
<1>1. CASE Begin(k) \/ WaitForItem(k) \/ GetTimesOut(k) \/ GetItem(k)
  BY <1>1 DEF Begin, WaitForItem, GetTimesOut, GetItem
<1>2. CASE LeaveLoop(k) \/ DrainItem(k) \/ DrainEnds(k)
  BY <1>2 DEF LeaveLoop, DrainItem, DrainEnds
<1>3. CASE BatchEnds(k) \/ BatchRaises(k) \/ BatchKept(k)
  BY <1>3 DEF BatchEnds, BatchRaises, BatchKept, InBatch, AfterBatch
<1>. QED
  BY <1>1, <1>2, <1>3 DEF ConsumerStep

\* Each step keeps a consumer beside the pipeline that runs, or tells it to end.
LEMMA AttendedStep == TypeInv /\ Attended /\ [Next]_vars => Attended'
<1> SUFFICES ASSUME TypeInv, Attended, [Next]_vars PROVE Attended'
  OBVIOUS
<1>. USE DEF TypeInv, Types, ControlTypes, ConsumerTypes
<1>1. UNCHANGED <<cpc, controlVars>> => Attended'
  BY DEF controlVars, Attended, Live
<1>2. ASSUME NEW p \in Producers,
             Put(p) \/ PutDropped(p) \/ PutBlocks(p) \/ PutResumes(p) \/ PutGivesUp(p)
      PROVE  Attended'
  BY <1>1, <1>2, PutLocal DEF consumerVars
<1>3. ASSUME NEW k \in Consumers, ConsumerStep(k)
      PROVE  Attended'
  <2>1. /\ UNCHANGED <<shutdown, running, task, spc, joins>>
        /\ \A m \in Consumers : m # k => cpc'[m] = cpc[m]
    BY <1>3, ConsumerStepControl DEF controlVars
  <2>2. ASSUME running, ~shutdown
        PROVE  /\ cpc'[task] \notin {"drain", "drainBatch", "finalBatch"}
               /\ Live(task)' \/ cpc'[task] = "failed"
    <3>1. task \in Consumers
      BY <2>2 DEF TasksExist
    <3>2. CASE task = k
      <4>1. cpc'[k] \in {"head", "getting", "batch", "failed"}
        BY <1>3, <2>2, <3>2, AttendedLoop DEF Attended
      <4>. QED
        BY <2>1, <3>2, <4>1 DEF Live, Ended
    <3>3. CASE task # k
      BY <2>1, <2>2, <3>1, <3>3 DEF Attended, Live
    <3>. QED
      BY <3>2, <3>3
  <2>. QED
    BY <2>1, <2>2 DEF Attended
<1>4. CASE Start
  <2>1. /\ task' = task + 1 /\ cpc' = [cpc EXCEPT ![task + 1] = "new"]
        /\ UNCHANGED <<spc, joins>> /\ task + 1 \in Consumers
    BY <1>4, PipelineAssumption DEF Start, Consumers, PipelineAssumption
  <2>2. cpc'[task'] = "new"
    BY <2>1
  <2>3. \A s \in Stoppers : spc'[s] # "idle" => joins'[s] \in 1..task' /\ joins'[s] # task'
    BY <2>1 DEF Attended
  <2>. QED
    BY <2>2, <2>3 DEF Attended, Live, Ended
<1>5. ASSUME NEW s \in Stoppers, Stop(s)
      PROVE  Attended'
  <2>1. /\ shutdown' = TRUE /\ joins' = [joins EXCEPT ![s] = task]
        /\ task' = task /\ running
        /\ \A u \in Stoppers : u # s => spc'[u] = spc[u]
    BY <1>5 DEF Stop
  <2>2. task \in 1..task
    BY <2>1 DEF TasksExist, Consumers
  <2>. QED
    BY <2>1, <2>2 DEF Attended
<1>6. ASSUME NEW s \in Stoppers, StopperStep(s) \/ StopCancelled(s)
      PROVE  Attended'
  <2>1. /\ UNCHANGED <<shutdown, task>> /\ running' \in {running, FALSE}
        /\ spc[s] # "idle"
        /\ \A u \in Stoppers : spc'[u] # "idle" => spc[u] # "idle" /\ joins'[u] = joins[u]
    BY <1>6 DEF StopperStep, StopReturns, StopRaises, StopCancelled, StopLeaves, Joinable
  <2>2. UNCHANGED cpc \/ CancelConsumer(joins[s])
    BY <1>6 DEF StopperStep, StopReturns, StopRaises, StopCancelled, consumerVars
  <2>3. ASSUME running, ~shutdown
        PROVE  cpc'[task] = cpc[task]
    <3>1. joins[s] # task /\ task \in Consumers
      BY <2>1, <2>3 DEF Attended, TasksExist
    <3>2. UNCHANGED cpc \/ cpc' = [cpc EXCEPT ![joins[s]] = "cancelled"]
      BY <2>2 DEF CancelConsumer
    <3>. QED
      BY <3>1, <3>2
  <2>4. \A u \in Stoppers : spc'[u] # "idle" => joins'[u] \in 1..task'
    BY <2>1 DEF Attended
  <2>5. running' /\ ~shutdown' =>
          /\ \A u \in Stoppers : spc'[u] # "idle" => joins'[u] # task'
          /\ cpc'[task'] \notin {"drain", "drainBatch", "finalBatch"}
          /\ Live(task)' \/ cpc'[task'] = "failed"
    BY <2>1, <2>3 DEF Attended, Live
  <2>. QED
    BY <2>4, <2>5 DEF Attended, Live
<1>7. CASE Flush \/ FlushWakes \/ FlushTests
  BY <1>1, <1>7 DEF Flush, FlushWakes, FlushTests, consumerVars
<1>8. CASE UNCHANGED vars
  BY <1>1, <1>8 DEF vars, consumerVars
<1>. QED
  BY <1>2, <1>3, <1>4, <1>5, <1>6, <1>7, <1>8 DEF Next

\* Two consumers never share the queue, unless a start fell between the returns of
\* two stops; and until a stop is called, is_running means that there is a consumer,
\* unless an exception has killed it.
THEOREM ConsumersNeverDouble == Spec => []OneConsumer
<1>1. /\ TypeInv /\ OnlyNewest /\ [Next]_vars => (TypeInv /\ OnlyNewest)'
      /\ TypeInv /\ Attended /\ [Next]_vars => Attended'
  BY TypeStep, NewestStep, AttendedStep
<1>2. OnlyNewest /\ Attended => OneConsumer
  BY DEF OnlyNewest, Alone, Attended, OneConsumer
<1>. QED
  BY <1>1, <1>2, TypeInit, NewestInit, AttendedInit, PTL DEF Spec

-----------------------------------------------------------------------------
(* Order. *)

\* The order of what is handled, in hand and in the queue has no parentheses.
LEMMA ThreeParts ==
    ASSUME NEW x \in Seq(Nat), NEW y \in Seq(Nat), NEW z \in Seq(Nat)
    PROVE  (x \o y) \o z = x \o (y \o z)
<1>. QED
  BY ConcatAssociative, SMTT(30)

\* An item put at the end of the queue is at the end of everything.
LEMMA PutAtEnd ==
    ASSUME NEW h \in Seq(Nat), NEW b \in Seq(Nat), NEW q \in Seq(Nat), NEW n \in Nat
    PROVE  h \o b \o Append(q, n) = Append(h \o b \o q, n)
<1> DEFINE hb == h \o b
<1>1. hb \in Seq(Nat) /\ <<n>> \in Seq(Nat)
  BY ConcatProperties
<1>. HIDE DEF hb
<1>2. Append(q, n) = q \o <<n>> /\ hb \o q \in Seq(Nat)
  BY <1>1, AppendIsConcat, ConcatProperties
<1>3. hb \o (q \o <<n>>) = (hb \o q) \o <<n>>
  BY <1>1, ConcatAssociative
<1>4. Append(hb \o q, n) = (hb \o q) \o <<n>>
  BY <1>2, AppendIsConcat
<1>. QED
  BY <1>2, <1>3, <1>4 DEF hb

\* An item that moves from the head of the queue to the end of the batch stays
\* where it is in the order.
LEMMA TakeKeepsOrder ==
    ASSUME NEW h \in Seq(Nat), NEW b \in Seq(Nat), NEW q \in Seq(Nat), q # <<>>
    PROVE  h \o Append(b, Head(q)) \o Tail(q) = h \o b \o q
<1> DEFINE first == <<Head(q)>>
           rest  == Tail(q)
<1>1. Head(q) \in Nat /\ rest \in Seq(Nat) /\ q = first \o rest
  <2>1. Head(q) \in Nat /\ rest \in Seq(Nat) /\ Head(q) = q[1]
    BY HeadTailProperties
  <2>2. 1 \in 1..Len(q) /\ Len(q) \in 1..Len(q)
    BY LenProperties, EmptySeq, SeqEqual
  <2>3. q = <<q[1]>> \o SubSeq(q, 2, Len(q))
    BY <2>2, SubSeqRecursiveFirst, SubSeqFull
  <2>4. rest = SubSeq(q, 2, Len(q))
    BY TailIsSubSeq
  <2>. QED
    BY <2>1, <2>3, <2>4
<1>2. first \in Seq(Nat) /\ Append(b, Head(q)) = b \o first
  BY <1>1, AppendIsConcat
<1> DEFINE bf == b \o first
           fr == first \o rest
           hb == h \o b
<1>. HIDE DEF first, rest
<1>3. bf \in Seq(Nat) /\ fr \in Seq(Nat) /\ hb \in Seq(Nat)
  BY <1>1, <1>2, ConcatProperties
<1>4. bf \o rest = b \o fr
  BY <1>1, <1>2, ThreeParts, ZenonT(30)
<1>. HIDE DEF bf
<1>5. (h \o bf) \o rest = h \o (bf \o rest)
  BY <1>1, <1>3, ThreeParts, ZenonT(30)
<1>. HIDE DEF fr
<1>6. hb \o fr = h \o (b \o fr)
  BY <1>3, ThreeParts, ZenonT(30)
<1>. HIDE DEF hb
<1>7. (h \o Append(b, Head(q))) \o rest = (h \o b) \o q
  <2>1. Append(b, Head(q)) = bf /\ q = fr /\ h \o b = hb
    BY <1>1, <1>2 DEF bf, fr, hb
  <2>. QED
    BY <1>4, <1>5, <1>6, <2>1, Zenon
<1>. QED
  BY <1>7 DEF rest

\* A batch that leaves the consumer's hands stays where it is in the order.
LEMMA LeaveKeepsOrder ==
    ASSUME NEW h \in Seq(Nat), NEW b \in Seq(Nat)
    PROVE  (h \o b) \o <<>> = h \o b
<1>. QED
  BY ConcatProperties, ConcatEmptySeq

\* A new pipeline holds nothing.
LEMMA OrderInit == Init => InOrder
<1>1. (<<>> \o <<>>) \o <<>> = <<>>
  BY ConcatEmptySeq, EmptySeq
<1>. QED
  BY <1>1 DEF Init, InOrder, InHands

\* Only a start changes what crossed remembers, and never takes it back.
LEMMA CrossedStays == TypeInv /\ [Next]_vars /\ ~crossed' => ~crossed
<1> SUFFICES ASSUME TypeInv, [Next]_vars PROVE UNCHANGED crossed \/ (crossed => crossed')
  BY DEF TypeInv, Types, ControlTypes
<1>1. ASSUME NEW p \in Producers,
             Put(p) \/ PutDropped(p) \/ PutBlocks(p) \/ PutResumes(p) \/ PutGivesUp(p)
      PROVE  UNCHANGED crossed
  BY <1>1, PutLocal DEF controlVars
<1>2. ASSUME NEW k \in Consumers, ConsumerStep(k) PROVE UNCHANGED crossed
  BY <1>2, ConsumerStepControl DEF controlVars, TypeInv
<1>3. Start => (crossed => crossed')
  BY DEF Start
<1>4. ASSUME NEW s \in Stoppers, Stop(s) \/ StopperStep(s) \/ StopCancelled(s)
      PROVE  UNCHANGED crossed
  BY <1>4 DEF Stop, StopperStep, StopReturns, StopRaises, StopCancelled, StopLeaves
<1>5. Flush \/ FlushWakes \/ FlushTests \/ UNCHANGED vars => UNCHANGED crossed
  BY DEF Flush, FlushWakes, FlushTests, vars, controlVars
<1>. QED
  BY <1>1, <1>2, <1>3, <1>4, <1>5 DEF Next

\* No step takes an item out of order, unless a start falls between two stops.
LEMMA OrderStep ==
    TypeInv /\ OnlyNewest /\ InOrder /\ [Next]_vars => InOrder'
<1> SUFFICES ASSUME TypeInv, OnlyNewest, InOrder, [Next]_vars, ~crossed'
             PROVE  handled' \o InHands' \o queue' = accepted'
  BY DEF InOrder
<1>. USE DEF TypeInv, Types
<1>1. ~crossed
  BY CrossedStays
<1>2. /\ handled \o InHands \o queue = accepted
      /\ InHands \in Seq(Nat) /\ handled \in Seq(Nat) /\ queue \in Seq(Nat)
  <2>1. handled \o InHands \o queue = accepted
    BY <1>1 DEF InOrder
  <2>2. handled \in Seq(Nat) /\ queue \in Seq(Nat) /\ task \in 0..MaxStarts
    BY DEF ProducerTypes, ConsumerTypes, ControlTypes
  <2>3. CASE task = 0
    BY <2>1, <2>2, <2>3, EmptySeq DEF InHands
  <2>4. CASE task # 0
    <3>1. task \in Consumers
      BY <2>2, <2>4, PipelineAssumption DEF Consumers, PipelineAssumption
    <3>2. batch[task] \in Seq(Nat)
      BY <3>1 DEF ConsumerTypes
    <3>. QED
      BY <2>1, <2>2, <2>4, <3>2 DEF InHands
  <2>. QED
    BY <2>3, <2>4
<1>3. UNCHANGED <<queue, accepted, handled, InHands>> => handled' \o InHands' \o queue' = accepted'
  BY <1>2
<1>4. /\ UNCHANGED <<queue, accepted>>
      /\ handled' = handled \o InHands /\ InHands' = <<>>
      => handled' \o InHands' \o queue' = accepted'
  BY <1>2, LeaveKeepsOrder
<1>5. /\ task \in Consumers => InHands = batch[task]
      /\ task' \in Consumers => InHands' = batch'[task']
  BY DEF InHands, Consumers
<1>6. ASSUME NEW p \in Producers,
             Put(p) \/ PutDropped(p) \/ PutBlocks(p) \/ PutResumes(p) \/ PutGivesUp(p)
      PROVE  handled' \o InHands' \o queue' = accepted'
  <2>1. UNCHANGED <<handled, InHands>>
    BY <1>6, PutLocal DEF consumerVars, controlVars, InHands
  <2>2. \/ UNCHANGED <<queue, accepted>>
        \/ \E n \in Nat : queue' = Append(queue, n) /\ accepted' = Append(accepted, n)
    <3>1. pitem[p] \in Nat /\ puts + 1 \in Nat
      BY DEF ProducerTypes
    <3>2. CASE Put(p)
      <4>1. queue' = Append(queue, puts + 1) /\ accepted' = Append(accepted, puts + 1)
        BY <3>2 DEF Put, Enqueue
      <4>. QED
        BY <3>1, <4>1, Zenon
    <3>3. CASE PutDropped(p) \/ PutBlocks(p) \/ PutGivesUp(p)
      BY <3>3, Zenon DEF PutDropped, PutBlocks, PutGivesUp
    <3>4. CASE PutResumes(p)
      <4>1. \/ UNCHANGED <<queue, accepted>>
            \/ /\ queue' = Append(queue, pitem[p])
               /\ accepted' = Append(accepted, pitem[p])
        BY <3>4, Zenon DEF PutResumes, Enqueue
      <4>. QED
        BY <3>1, <4>1, Zenon
    <3>. QED
      BY <1>6, <3>2, <3>3, <3>4
  <2>3. ASSUME NEW n \in Nat, queue' = Append(queue, n), accepted' = Append(accepted, n)
        PROVE  handled' \o InHands' \o queue' = accepted'
    <3>1. handled \o InHands \o Append(queue, n) = Append(handled \o InHands \o queue, n)
      BY <1>2, PutAtEnd
    <3>. QED
      BY <1>2, <2>1, <2>3, <3>1
  <2>. QED
    BY <1>3, <2>1, <2>2, <2>3
<1>7. ASSUME NEW k \in Consumers, ConsumerStep(k)
      PROVE  handled' \o InHands' \o queue' = accepted'
  <2>1. k = task /\ task' = task /\ InHands = batch[k] /\ InHands' = batch'[k]
    BY <1>1, <1>5, <1>7, ConsumerStepControl DEF OnlyNewest, Alone, controlVars
  <2>2. CASE GetItem(k) \/ DrainItem(k)
    <3>1. /\ queue # <<>> /\ queue' = Tail(queue) /\ UNCHANGED <<handled, accepted>>
          /\ batch'[k] = Append(batch[k], Head(queue))
      BY <2>2 DEF GetItem, DrainItem, TakeItem, ConsumerTypes
    <3>2. handled \o Append(InHands, Head(queue)) \o Tail(queue) = handled \o InHands \o queue
      BY <1>2, <3>1, TakeKeepsOrder
    <3>. QED
      BY <1>2, <2>1, <3>1, <3>2
  <2>3. CASE BatchEnds(k) \/ BatchRaises(k)
    <3>1. /\ UNCHANGED <<queue, accepted>> /\ handled' = handled \o batch[k]
          /\ batch'[k] = <<>>
      BY <2>3 DEF BatchEnds, BatchRaises, BatchLeaves, producerVars, ConsumerTypes
    <3>. QED
      BY <1>4, <2>1, <3>1
  <2>4. CASE Begin(k) \/ WaitForItem(k) \/ GetTimesOut(k) \/ LeaveLoop(k) \/ DrainEnds(k)
             \/ BatchKept(k)
    <3>1. UNCHANGED <<queue, accepted, handled, batch>>
      BY <2>4 DEF Begin, WaitForItem, GetTimesOut, LeaveLoop, DrainEnds, BatchKept, producerVars
    <3>. QED
      BY <1>3, <2>1, <3>1
  <2>. QED
    BY <1>7, <2>2, <2>3, <2>4 DEF ConsumerStep
<1>8. CASE Start
  <2>1. /\ task' = task + 1 /\ task + 1 \in Consumers
        /\ UNCHANGED <<queue, accepted, handled, batch>>
    BY <1>8, PipelineAssumption
    DEF Start, producerVars, ControlTypes, Consumers, PipelineAssumption
  <2>2. InHands' = <<>>
    <3>1. cpc[task + 1] = "unborn"
      BY <2>1 DEF TasksExist, ControlTypes
    <3>. QED
      BY <1>5, <2>1, <3>1 DEF HeldRight
  <2>3. InHands = <<>>
    <3>1. CASE task \in Consumers
      <4>1. cpc[task] \in Ended \cup {"unborn"}
        BY <1>1, <1>8, <3>1 DEF OnlyNewest, Alone, Start, Live
      <4>. QED
        BY <1>5, <3>1, <4>1 DEF HeldRight
    <3>2. CASE task = 0
      BY <3>2 DEF InHands
    <3>. QED
      BY <3>1, <3>2 DEF ControlTypes, Consumers
  <2>. QED
    BY <1>3, <2>1, <2>2, <2>3
<1>9. ASSUME CancelConsumer(task), task \in Consumers, UNCHANGED <<task, queue, accepted>>
      PROVE  handled' \o InHands' \o queue' = accepted'
  <2>1. InHands = batch[task] /\ InHands' = batch'[task]
    BY <1>5, <1>9
  <2>2. CASE Live(task)
    <3>1. handled' = handled \o batch[task] /\ batch'[task] = <<>>
      BY <1>9, <2>2 DEF CancelConsumer, BatchLeaves, ConsumerTypes
    <3>. QED
      BY <1>4, <1>9, <2>1, <3>1
  <2>3. CASE ~Live(task)
    BY <1>3, <1>9, <2>1, <2>3 DEF CancelConsumer
  <2>. QED
    BY <2>2, <2>3
<1>10. ASSUME NEW s \in Stoppers, Stop(s)
       PROVE  handled' \o InHands' \o queue' = accepted'
  <2>1. task \in Consumers /\ UNCHANGED <<task, queue, accepted>>
    BY <1>10 DEF Stop, TasksExist, producerVars
  <2>2. CancelConsumer(task) \/ UNCHANGED <<handled, batch>>
    BY <1>10 DEF Stop
  <2>. QED
    BY <1>3, <1>5, <1>9, <2>1, <2>2
<1>11. ASSUME NEW s \in Stoppers, StopperStep(s)
       PROVE  handled' \o InHands' \o queue' = accepted'
  <2>1. UNCHANGED <<handled, batch, task, queue, accepted>>
    BY <1>11 DEF StopperStep, StopReturns, StopRaises, StopLeaves, consumerVars, producerVars
  <2>. QED
    BY <1>3, <2>1 DEF InHands
<1>12. ASSUME NEW s \in Stoppers, StopCancelled(s)
       PROVE  handled' \o InHands' \o queue' = accepted'
  <2>1. joins[s] = task /\ joins[s] \in Consumers
    BY <1>1, <1>12 DEF StopCancelled, OnlyNewest, TasksExist
  <2>2. CancelConsumer(task) /\ UNCHANGED <<task, queue, accepted>>
    BY <1>12, <2>1 DEF StopCancelled, StopLeaves, producerVars
  <2>. QED
    BY <1>9, <2>1, <2>2
<1>13. CASE Flush \/ FlushWakes \/ FlushTests \/ UNCHANGED vars
  <2>1. UNCHANGED <<handled, batch, task, queue, accepted>>
    BY <1>13 DEF Flush, FlushWakes, FlushTests, vars, consumerVars, producerVars, controlVars
  <2>. QED
    BY <1>3, <2>1 DEF InHands
<1>. QED
  BY <1>6, <1>7, <1>8, <1>10, <1>11, <1>12, <1>13 DEF Next

\* Items leave the pipeline in the order in which they got into the queue, unless
\* a start falls between the returns of two stops.
THEOREM OrderKept == Spec => []InOrder
<1>1. TypeInv /\ OnlyNewest /\ InOrder /\ [Next]_vars
        => (TypeInv /\ OnlyNewest /\ InOrder)'
  BY TypeStep, NewestStep, OrderStep
<1>. QED
  BY <1>1, TypeInit, NewestInit, OrderInit, PTL DEF Spec

-----------------------------------------------------------------------------
(* What a stop promises. *)

\* The newest consumer only drains when a stop has told it to.
DrainsWhenTold ==
    task \in Consumers /\ cpc[task] \in {"drain", "drainBatch", "finalBatch"} => shutdown

\* Once the drain has seen the queue empty, what a stop waits for is handled or
\* in the last batch.
WaitsFor(s) ==
    /\ goal[s] <= Len(accepted)
    /\ task \in Consumers =>
         /\ cpc[task] = "finalBatch" => goal[s] <= Len(handled) + Len(batch[task])
         /\ cpc[task] = "done" => goal[s] <= Len(handled)

StopsKept ==
    ~crossed => DrainsWhenTold /\ \A s \in Stoppers : spc[s] = "draining" => WaitsFor(s)

\* Nobody waits for a new pipeline.
LEMMA StopsInit == Init => StopsKept
<1>. QED
  BY DEF Init, StopsKept, DrainsWhenTold, WaitsFor

\* Items add up: handled, in hand and queued are all that got in.
LEMMA LengthsAdd ==
    ASSUME TypeInv, InOrder, ~crossed, task \in Consumers
    PROVE  /\ Len(handled) + Len(batch[task]) + Len(queue) = Len(accepted)
           /\ Len(handled) \in Nat /\ Len(batch[task]) \in Nat
           /\ Len(queue) \in Nat /\ Len(accepted) \in Nat
<1> DEFINE held == batch[task]
<1>1. handled \in Seq(Nat) /\ held \in Seq(Nat) /\ queue \in Seq(Nat)
  BY DEF TypeInv, Types, ConsumerTypes, ProducerTypes
<1>2. (handled \o held) \o queue = accepted
  BY PipelineAssumption DEF InOrder, InHands, Consumers, PipelineAssumption
<1>. HIDE DEF held
<1>3. handled \o held \in Seq(Nat) /\ Len(handled \o held) = Len(handled) + Len(held)
  BY <1>1, ConcatProperties
<1>4. Len((handled \o held) \o queue) = Len(handled \o held) + Len(queue)
  BY <1>1, <1>3, ConcatProperties
<1>5. Len(handled) \in Nat /\ Len(held) \in Nat /\ Len(queue) \in Nat
  BY <1>1, LenProperties
<1>6. Len(handled) + Len(held) + Len(queue) = Len(accepted)
  BY <1>2, <1>3, <1>4
<1>. QED
  BY <1>5, <1>6 DEF held

\* An item that gets in only makes accepted longer.
LEMMA PutLengthens ==
    ASSUME TypeInv, NEW p \in Producers,
           Put(p) \/ PutDropped(p) \/ PutBlocks(p) \/ PutResumes(p) \/ PutGivesUp(p)
    PROVE  Len(accepted) \in Nat /\ Len(accepted') \in Nat /\ Len(accepted) <= Len(accepted')
<1>1. accepted \in Seq(Nat) /\ Len(accepted) \in Nat
  BY LenProperties DEF TypeInv, Types, ProducerTypes
<1>2. pitem[p] \in Nat /\ puts + 1 \in Nat
  BY DEF TypeInv, Types, ProducerTypes
<1>3. UNCHANGED accepted \/ \E n \in Nat : accepted' = Append(accepted, n)
  <2>1. CASE Put(p)
    BY <1>2, <2>1, Zenon DEF Put, Enqueue
  <2>2. CASE PutResumes(p)
    <3>1. UNCHANGED accepted \/ accepted' = Append(accepted, pitem[p])
      BY <2>2, Zenon DEF PutResumes, Enqueue
    <3>. QED
      BY <1>2, <3>1, Zenon
  <2>3. CASE PutDropped(p) \/ PutBlocks(p) \/ PutGivesUp(p)
    BY <2>3, Zenon DEF PutDropped, PutBlocks, PutGivesUp
  <2>. QED
    BY <2>1, <2>2, <2>3
<1>4. ASSUME NEW n \in Nat PROVE Len(Append(accepted, n)) = Len(accepted) + 1
  BY <1>1, AppendProperties
<1>. QED
  BY <1>1, <1>3, <1>4

\* The newest consumer ends its drain with all that got in, in hand or handled.
LEMMA DrainSteps ==
    ASSUME TypeInv, OnlyNewest, InOrder, StopsKept, ~crossed,
           NEW k \in Consumers, ConsumerStep(k)
    PROVE  DrainsWhenTold' /\ \A s \in Stoppers : spc'[s] = "draining" => WaitsFor(s)'
<1>. USE DEF TypeInv, Types
<1>1. /\ k = task /\ UNCHANGED <<task, shutdown, spc, goal, accepted>>
      /\ cpc \in [Consumers -> {"unborn", "new", "head", "getting", "drain"}
                               \cup InBatch \cup Ended]
  <2>1. UNCHANGED <<controlVars, goal>> /\ Live(k)
    BY ConsumerStepControl
  <2>2. UNCHANGED accepted
    BY DEF ConsumerStep, Begin, GetItem, WaitForItem, GetTimesOut, LeaveLoop, DrainItem,
           DrainEnds, BatchEnds, BatchRaises, BatchKept, TakeItem, producerVars
  <2>. QED
    BY <2>1, <2>2 DEF OnlyNewest, Alone, controlVars, ConsumerTypes
<1>2. /\ Len(handled) + Len(batch[k]) + Len(queue) = Len(accepted)
      /\ Len(handled) \in Nat /\ Len(batch[k]) \in Nat
      /\ Len(queue) \in Nat /\ Len(accepted) \in Nat
  BY <1>1, LengthsAdd
<1>3. \A s \in Stoppers : goal[s] \in Nat
  BY DEF ControlTypes
<1>4. DrainsWhenTold
  BY DEF StopsKept
<1>5. ASSUME NEW s \in Stoppers, spc[s] = "draining"
      PROVE  /\ goal[s] <= Len(accepted)
             /\ cpc[k] = "finalBatch" => goal[s] <= Len(handled) + Len(batch[k])
  BY <1>1, <1>5 DEF StopsKept, WaitsFor
<1>6. CASE \/ Begin(k) \/ WaitForItem(k) \/ GetTimesOut(k) \/ LeaveLoop(k) \/ BatchKept(k)
          \/ GetItem(k) \/ DrainItem(k)
  <2>1. /\ cpc'[k] \notin {"finalBatch", "done"}
        /\ cpc'[k] \in {"drain", "drainBatch"}
             => shutdown \/ cpc[k] \in {"drain", "drainBatch", "finalBatch"}
    BY <1>1, <1>6 DEF Begin, WaitForItem, GetTimesOut, LeaveLoop, BatchKept, GetItem, DrainItem
  <2>. QED
    BY <1>1, <1>4, <1>5, <2>1 DEF DrainsWhenTold, WaitsFor
<1>7. CASE BatchEnds(k) \/ BatchRaises(k)
  <2>1. /\ cpc'[k] # "finalBatch"
        /\ cpc'[k] = "done" => cpc[k] = "finalBatch"
        /\ cpc'[k] = "drain" => cpc[k] = "drainBatch"
        /\ cpc'[k] # "drainBatch"
    BY <1>1, <1>7 DEF BatchEnds, BatchRaises, AfterBatch, InBatch
  <2>2. Len(handled') = Len(handled) + Len(batch[k])
    <3>1. handled \in Seq(Nat) /\ batch[k] \in Seq(Nat) /\ handled' = handled \o batch[k]
      BY <1>7 DEF BatchEnds, BatchRaises, BatchLeaves, ConsumerTypes
    <3>. QED
      BY <3>1, ConcatProperties
  <2>3. DrainsWhenTold'
    BY <1>1, <1>4, <2>1 DEF DrainsWhenTold
  <2>4. ASSUME NEW s \in Stoppers, spc[s] = "draining" PROVE WaitsFor(s)'
    BY <1>1, <1>5, <2>1, <2>2, <2>4 DEF WaitsFor
  <2>. QED
    BY <1>1, <2>3, <2>4
<1>8. CASE DrainEnds(k)
  <2>1. /\ cpc[k] = "drain" /\ queue = <<>> /\ UNCHANGED <<handled, batch>>
        /\ cpc'[k] = IF batch[k] = <<>> THEN "done" ELSE "finalBatch"
    BY <1>1, <1>8 DEF DrainEnds
  <2>2. Len(queue) = 0 /\ (batch[k] = <<>> => Len(batch[k]) = 0)
    BY <2>1
  <2>3. \A s \in Stoppers : spc[s] = "draining" =>
           /\ goal[s] <= Len(handled) + Len(batch[k])
           /\ batch[k] = <<>> => goal[s] <= Len(handled)
    BY <1>2, <1>3, <1>5, <2>2
  <2>. QED
    BY <1>1, <1>4, <1>5, <2>1, <2>3 DEF DrainsWhenTold, WaitsFor
<1>. QED
  BY <1>6, <1>7, <1>8 DEF ConsumerStep

\* No step lets a drain pass over an item a stop waits for.
LEMMA StopsStep ==
    TypeInv /\ OnlyNewest /\ InOrder /\ StopsKept /\ [Next]_vars => StopsKept'
<1> SUFFICES ASSUME TypeInv, OnlyNewest, InOrder, StopsKept, [Next]_vars, ~crossed'
             PROVE  DrainsWhenTold' /\ \A s \in Stoppers : spc'[s] = "draining" => WaitsFor(s)'
  BY DEF StopsKept
<1>. USE DEF TypeInv, Types
<1>1. ~crossed /\ DrainsWhenTold /\ \A s \in Stoppers : spc[s] = "draining" => WaitsFor(s)
  BY CrossedStays DEF StopsKept
<1>2. ASSUME NEW p \in Producers,
             Put(p) \/ PutDropped(p) \/ PutBlocks(p) \/ PutResumes(p) \/ PutGivesUp(p)
      PROVE  DrainsWhenTold' /\ \A s \in Stoppers : spc'[s] = "draining" => WaitsFor(s)'
  <2>1. UNCHANGED <<task, shutdown, spc, goal, cpc, batch, handled>>
    BY <1>2, PutLocal DEF consumerVars, controlVars
  <2>2. Len(accepted) \in Nat /\ Len(accepted') \in Nat /\ Len(accepted) <= Len(accepted')
    BY <1>2, PutLengthens
  <2>3. \A s \in Stoppers : goal[s] \in Nat
    BY DEF ControlTypes
  <2>. QED
    BY <1>1, <2>1, <2>2, <2>3 DEF DrainsWhenTold, WaitsFor
<1>3. ASSUME NEW k \in Consumers, ConsumerStep(k)
      PROVE  DrainsWhenTold' /\ \A s \in Stoppers : spc'[s] = "draining" => WaitsFor(s)'
  BY <1>1, <1>3, DrainSteps
<1>4. CASE Start
  <2>1. task + 1 \in Consumers /\ task' = task + 1
    BY <1>4, PipelineAssumption DEF Start, ControlTypes, Consumers, PipelineAssumption
  <2>2. cpc'[task'] = "new" /\ \A s \in Stoppers : spc'[s] = "idle"
    BY <1>4, <2>1 DEF Start, ConsumerTypes
  <2>. QED
    BY <2>2 DEF DrainsWhenTold
<1>5. ASSUME NEW s \in Stoppers, Stop(s)
      PROVE  DrainsWhenTold' /\ \A u \in Stoppers : spc'[u] = "draining" => WaitsFor(u)'
  <2>1. /\ task \in Consumers /\ UNCHANGED <<task, accepted>> /\ shutdown'
    BY <1>5 DEF Stop, TasksExist, producerVars
  <2>2. \A u \in Stoppers : u # s => spc'[u] = spc[u] /\ goal'[u] = goal[u]
    BY <1>5 DEF Stop, ControlTypes
  <2>3. CASE UNCHANGED <<cpc, batch, handled>>
    <3>1. WaitsFor(s)'
      <4>1. Len(accepted) \in Nat /\ Len(handled) \in Nat /\ Len(batch[task]) \in Nat
        BY <1>1, <2>1, LengthsAdd
      <4>2. goal'[s] = IF Live(task) /\ ~shutdown THEN Len(accepted) ELSE 0
        BY <1>5 DEF Stop, ControlTypes
      <4>3. Live(task) /\ ~shutdown => cpc[task] \notin {"finalBatch", "done"}
        BY <1>1, <2>1 DEF DrainsWhenTold, Live, Ended
      <4>. QED
        BY <2>1, <2>3, <4>1, <4>2, <4>3 DEF WaitsFor
    <3>. QED
      BY <1>1, <2>1, <2>2, <2>3, <3>1 DEF DrainsWhenTold, WaitsFor
  <2>4. CASE CancelConsumer(task) /\ spc' = [spc EXCEPT ![s] = "aborting"]
    <3>1. spc'[s] # "draining"
      BY <2>4 DEF ControlTypes
    <3>2. UNCHANGED <<cpc, batch, handled>> \/ cpc'[task] = "cancelled"
      BY <2>1, <2>4 DEF CancelConsumer, ConsumerTypes
    <3>. QED
      BY <1>1, <2>1, <2>2, <3>1, <3>2 DEF DrainsWhenTold, WaitsFor
  <2>. QED
    BY <1>5, <2>3, <2>4 DEF Stop
<1>6. ASSUME NEW s \in Stoppers, StopperStep(s) \/ StopCancelled(s)
      PROVE  DrainsWhenTold' /\ \A u \in Stoppers : spc'[u] = "draining" => WaitsFor(u)'
  <2>1. /\ UNCHANGED <<task, shutdown, accepted, goal>>
        /\ \A u \in Stoppers : spc'[u] = "draining" => spc[u] = "draining"
    BY <1>6 DEF StopperStep, StopReturns, StopRaises, StopCancelled, StopLeaves, producerVars,
                ControlTypes
  <2>2. \/ UNCHANGED <<cpc, batch, handled>>
        \/ task \in Consumers /\ cpc'[task] = "cancelled"
    <3>1. CASE StopperStep(s)
      BY <3>1 DEF StopperStep, StopReturns, StopRaises, consumerVars
    <3>2. CASE StopCancelled(s)
      <4>1. joins[s] = task /\ joins[s] \in Consumers
        BY <1>1, <3>2 DEF StopCancelled, OnlyNewest, TasksExist
      <4>. QED
        BY <3>2, <4>1 DEF StopCancelled, CancelConsumer, ConsumerTypes
    <3>. QED
      BY <1>6, <3>1, <3>2
  <2>. QED
    BY <1>1, <2>1, <2>2 DEF DrainsWhenTold, WaitsFor
<1>7. CASE Flush \/ FlushWakes \/ FlushTests \/ UNCHANGED vars
  <2>1. UNCHANGED <<task, shutdown, spc, goal, accepted, cpc, batch, handled>>
    BY <1>7 DEF Flush, FlushWakes, FlushTests, vars, consumerVars, producerVars, controlVars
  <2>. QED
    BY <1>1, <2>1 DEF DrainsWhenTold, WaitsFor
<1>. QED
  BY <1>2, <1>3, <1>4, <1>5, <1>6, <1>7 DEF Next

\* When a stop(drain=True) that told a live consumer to end returns, every item
\* that was in the pipeline when it was called has been through on_batch.
THEOREM StopKeepsItsPromise == Spec => StopHandlesEarlierItems
<1> DEFINE IInv == TypeInv /\ OnlyNewest /\ InOrder /\ StopsKept
<1>1. IInv /\ [Next]_vars => IInv'
  BY TypeStep, NewestStep, OrderStep, StopsStep
<1>2. IInv => \A s \in Stoppers :
                 spc[s] = "draining" /\ StopReturns(s) /\ ~crossed
                   => Len(handled) >= goal[s]
  <2> SUFFICES ASSUME IInv, NEW s \in Stoppers, spc[s] = "draining", StopReturns(s), ~crossed
               PROVE  Len(handled) >= goal[s]
    OBVIOUS
  <2>1. joins[s] = task /\ task \in Consumers /\ cpc[task] = "done"
    BY DEF StopReturns, Joinable, Ended, OnlyNewest, TypeInv, TasksExist
  <2>2. goal[s] <= Len(handled)
    BY <2>1 DEF StopsKept, WaitsFor
  <2>3. goal[s] \in Nat /\ Len(handled) \in Nat
    BY <2>1, LengthsAdd DEF TypeInv, Types, ControlTypes
  <2>. QED
    BY <2>2, <2>3
<1>. QED
  BY <1>1, <1>2, TypeInit, NewestInit, OrderInit, StopsInit, PTL
  DEF Spec, StopHandlesEarlierItems

-----------------------------------------------------------------------------
(* Every item once. *)

\* The places of item i in a sequence, and its copies in the consumers' hands.
PlacesOf(seq, i) == {n \in DOMAIN seq : seq[n] = i}

CopiesHeld(held, some, i) == UNION {{k} \X PlacesOf(held[k], i) : k \in some}

CopiesInHand(held, i) == CopiesHeld(held, Consumers, i)

\* A sequence has an item in finitely many places.
LEMMA PlacesFinite ==
    ASSUME NEW s \in Seq(Nat), NEW i
    PROVE  /\ IsFiniteSet(PlacesOf(s, i)) /\ Cardinality(PlacesOf(s, i)) \in Nat
<1>1. DOMAIN s = 1..Len(s) /\ Len(s) \in Nat
  BY LenProperties
<1>2. IsFiniteSet(1..Len(s))
  BY <1>1, FS_Interval
<1>3. PlacesOf(s, i) \subseteq 1..Len(s)
  BY <1>1 DEF PlacesOf
<1>. QED
  BY <1>2, <1>3, FS_Subset, FS_CardinalityType

\* An item is in the parts of a sequence as often as in the whole.
LEMMA PlacesOfConcat ==
    ASSUME NEW s \in Seq(Nat), NEW t \in Seq(Nat), NEW i
    PROVE  Cardinality(PlacesOf(s \o t, i))
             = Cardinality(PlacesOf(s, i)) + Cardinality(PlacesOf(t, i))
<1> DEFINE st    == s \o t
           moved == {n \in DOMAIN st : n > Len(s) /\ st[n] = i}
           f     == [n \in PlacesOf(t, i) |-> Len(s) + n]
<1>1. /\ DOMAIN s = 1..Len(s) /\ Len(s) \in Nat
      /\ DOMAIN t = 1..Len(t) /\ Len(t) \in Nat
  BY LenProperties
<1>2. /\ st \in Seq(Nat) /\ Len(st) = Len(s) + Len(t)
      /\ \A n \in 1..Len(s) + Len(t) :
           st[n] = IF n <= Len(s) THEN s[n] ELSE t[n - Len(s)]
  BY ConcatProperties
<1>. HIDE DEF st
<1>3. DOMAIN st = 1..Len(s) + Len(t)
  BY <1>2, LenProperties
<1>4. PlacesOf(st, i) = PlacesOf(s, i) \cup moved
  <2>1. ASSUME NEW n \in PlacesOf(st, i) PROVE n \in PlacesOf(s, i) \cup moved
    BY <1>1, <1>2, <1>3, <2>1 DEF PlacesOf
  <2>2. ASSUME NEW n \in PlacesOf(s, i) PROVE n \in PlacesOf(st, i)
    BY <1>1, <1>2, <1>3, <2>2 DEF PlacesOf
  <2>. QED
    BY <2>1, <2>2 DEF PlacesOf
<1>5. PlacesOf(s, i) \cap moved = {}
  BY <1>1 DEF PlacesOf
<1>6. f \in Bijection(PlacesOf(t, i), moved)
  <2>1. ASSUME NEW n \in PlacesOf(t, i) PROVE f[n] = Len(s) + n /\ f[n] \in moved
    <3>1. n \in 1..Len(t) /\ t[n] = i
      BY <1>1 DEF PlacesOf
    <3>2. /\ Len(s) + n \in 1..Len(s) + Len(t) /\ Len(s) + n > Len(s)
          /\ (Len(s) + n) - Len(s) = n /\ ~(Len(s) + n <= Len(s))
      BY <1>1, <3>1
    <3>3. st[Len(s) + n] = t[n]
      BY <1>2, <3>2
    <3>. QED
      BY <1>3, <3>1, <3>2, <3>3
  <2>2. ASSUME NEW n \in moved PROVE n - Len(s) \in PlacesOf(t, i) /\ f[n - Len(s)] = n
    BY <1>1, <1>2, <1>3, <2>2 DEF PlacesOf
  <2>3. \A m, n \in PlacesOf(t, i) : f[m] = f[n] => m = n
    BY <1>1, <2>1 DEF PlacesOf
  <2>4. f \in [PlacesOf(t, i) -> moved]
    BY <2>1
  <2>. HIDE DEF f, moved
  <2>. QED
    BY <2>2, <2>3, <2>4 DEF Bijection, Injection, IsInjective, Surjection
<1>7. IsFiniteSet(moved) /\ Cardinality(moved) = Cardinality(PlacesOf(t, i))
  <2>1. ExistsBijection(PlacesOf(t, i), moved)
    BY <1>6 DEF ExistsBijection
  <2>. HIDE DEF moved
  <2>. QED
    BY <2>1, PlacesFinite, FS_Bijection
<1>8. Cardinality(PlacesOf(s, i) \cup moved) = Cardinality(PlacesOf(s, i)) + Cardinality(moved)
  <2>. HIDE DEF moved
  <2>1. Cardinality(PlacesOf(s, i) \cap moved) = 0
    BY <1>5, FS_EmptySet
  <2>2. Cardinality(PlacesOf(s, i) \cup moved)
          = Cardinality(PlacesOf(s, i)) + Cardinality(moved) - Cardinality(PlacesOf(s, i) \cap moved)
    BY <1>7, PlacesFinite, FS_Union
  <2>. QED
    BY <1>7, <2>1, <2>2, PlacesFinite
<1>. QED
  BY <1>4, <1>7, <1>8 DEF st

\* One item alone, too.
LEMMA PlacesOfOne ==
    ASSUME NEW e \in Nat, NEW i
    PROVE  Cardinality(PlacesOf(<<e>>, i)) \in Nat
<1>1. <<e>> \in Seq(Nat)
  OBVIOUS
<1>. QED
  BY <1>1, PlacesFinite

\* An item put at the end of a sequence is there once more.
LEMMA PlacesOfAppend ==
    ASSUME NEW s \in Seq(Nat), NEW e \in Nat, NEW i
    PROVE  Cardinality(PlacesOf(Append(s, e), i))
             = Cardinality(PlacesOf(s, i)) + Cardinality(PlacesOf(<<e>>, i))
<1> DEFINE one == <<e>>
<1>1. Append(s, e) = s \o one /\ one \in Seq(Nat)
  BY AppendIsConcat
<1>. HIDE DEF one
<1>2. Cardinality(PlacesOf(s \o one, i))
        = Cardinality(PlacesOf(s, i)) + Cardinality(PlacesOf(one, i))
  BY <1>1, PlacesOfConcat
<1>. QED
  BY <1>1, <1>2 DEF one

\* The head of a sequence is not in its tail.
LEMMA PlacesOfTail ==
    ASSUME NEW s \in Seq(Nat), s # <<>>, NEW i
    PROVE  /\ Head(s) \in Nat /\ Tail(s) \in Seq(Nat)
           /\ Cardinality(PlacesOf(s, i))
                = Cardinality(PlacesOf(<<Head(s)>>, i)) + Cardinality(PlacesOf(Tail(s), i))
<1>1. Head(s) \in Nat /\ Tail(s) \in Seq(Nat) /\ Head(s) = s[1]
  BY HeadTailProperties
<1>2. 1 \in 1..Len(s) /\ Len(s) \in 1..Len(s)
  BY LenProperties, EmptySeq, SeqEqual
<1>3. s = <<s[1]>> \o SubSeq(s, 2, Len(s))
  BY <1>2, SubSeqRecursiveFirst, SubSeqFull
<1>4. Tail(s) = SubSeq(s, 2, Len(s))
  BY TailIsSubSeq
<1> DEFINE one  == <<Head(s)>>
           rest == Tail(s)
<1>5. s = one \o rest /\ one \in Seq(Nat) /\ rest \in Seq(Nat)
  BY <1>1, <1>3, <1>4
<1>. HIDE DEF one, rest
<1>6. Cardinality(PlacesOf(one \o rest, i))
        = Cardinality(PlacesOf(one, i)) + Cardinality(PlacesOf(rest, i))
  BY <1>5, PlacesOfConcat
<1>. QED
  BY <1>1, <1>5, <1>6 DEF one, rest

\* Some of the consumers have finitely many copies in hand.
LEMMA HandsFinite ==
    ASSUME NEW held \in [Consumers -> Seq(Nat)], NEW some \in SUBSET Consumers, NEW i
    PROVE  /\ IsFiniteSet(CopiesHeld(held, some, i))
           /\ Cardinality(CopiesHeld(held, some, i)) \in Nat
<1> DEFINE parts == {{k} \X PlacesOf(held[k], i) : k \in some}
           g     == [k \in some |-> {k} \X PlacesOf(held[k], i)]
<1>1. IsFiniteSet(some)
  <2>1. IsFiniteSet(Consumers)
    BY PipelineAssumption, FS_Interval DEF Consumers, PipelineAssumption
  <2>. QED
    BY <2>1, FS_Subset
<1>2. g \in Surjection(some, parts)
  BY DEF Surjection
<1>3. IsFiniteSet(parts)
  <2>. HIDE DEF g, parts
  <2>. QED
    BY <1>1, <1>2, FS_Surjection
<1>4. \A p \in parts : IsFiniteSet(p)
  <2> SUFFICES ASSUME NEW k \in some PROVE IsFiniteSet({k} \X PlacesOf(held[k], i))
    OBVIOUS
  <2>1. IsFiniteSet({k}) /\ IsFiniteSet(PlacesOf(held[k], i))
    BY FS_Singleton, PlacesFinite
  <2>. QED
    BY <2>1, FS_Product
<1>. HIDE DEF parts
<1>5. IsFiniteSet(UNION parts)
  BY <1>3, <1>4, FS_UNION
<1>. QED
  BY <1>5, FS_CardinalityType DEF parts, CopiesHeld

\* So have they all.
LEMMA AllHandsFinite ==
    ASSUME NEW held \in [Consumers -> Seq(Nat)], NEW i
    PROVE  Cardinality(CopiesInHand(held, i)) \in Nat
<1>. QED
  BY HandsFinite DEF CopiesInHand

\* What a consumer has in hand counts on its own.
LEMMA HandApart ==
    ASSUME NEW held \in [Consumers -> Seq(Nat)], NEW k \in Consumers, NEW i
    PROVE  /\ Cardinality(CopiesInHand(held, i))
                = Cardinality(PlacesOf(held[k], i))
                    + Cardinality(CopiesHeld(held, Consumers \ {k}, i))
           /\ Cardinality(CopiesHeld(held, Consumers \ {k}, i)) \in Nat
           /\ Cardinality(PlacesOf(held[k], i)) \in Nat
<1> DEFINE rest == CopiesHeld(held, Consumers \ {k}, i)
           mine == {k} \X PlacesOf(held[k], i)
<1>1. CopiesInHand(held, i) = mine \cup rest /\ mine \cap rest = {}
  BY DEF CopiesInHand, CopiesHeld
<1>2. IsFiniteSet(rest) /\ Cardinality(rest) \in Nat
  BY HandsFinite
<1>3. /\ IsFiniteSet({k}) /\ Cardinality({k}) = 1
      /\ IsFiniteSet(PlacesOf(held[k], i)) /\ Cardinality(PlacesOf(held[k], i)) \in Nat
  <2>1. held[k] \in Seq(Nat)
    OBVIOUS
  <2>. QED
    BY <2>1, FS_Singleton, PlacesFinite
<1>4. IsFiniteSet(mine) /\ Cardinality(mine) = Cardinality(PlacesOf(held[k], i))
  <2>1. /\ IsFiniteSet(mine)
        /\ Cardinality(mine) = Cardinality({k}) * Cardinality(PlacesOf(held[k], i))
    BY <1>3, FS_Product
  <2>2. \A n \in Nat : 1 * n = n
    OBVIOUS
  <2>. QED
    BY <1>3, <2>1, <2>2
<1>. HIDE DEF mine, rest
<1>5. /\ Cardinality(mine \cap rest) = 0
      /\ Cardinality(mine \cup rest)
           = Cardinality(mine) + Cardinality(rest) - Cardinality(mine \cap rest)
  BY <1>1, <1>2, <1>4, FS_Union, FS_EmptySet
<1>6. Cardinality(CopiesInHand(held, i))
        = Cardinality(PlacesOf(held[k], i)) + Cardinality(rest)
  BY <1>1, <1>2, <1>3, <1>4, <1>5
<1>. QED
  BY <1>2, <1>3, <1>6 DEF rest

\* Nobody has anything in hand.
LEMMA HandsEmpty ==
    ASSUME NEW i
    PROVE  /\ Cardinality(PlacesOf(<<>>, i)) = 0
           /\ Cardinality(CopiesInHand([k \in Consumers |-> <<>>], i)) = 0
<1>1. PlacesOf(<<>>, i) = {} /\ CopiesInHand([k \in Consumers |-> <<>>], i) = {}
  BY DEF PlacesOf, CopiesInHand, CopiesHeld
<1>. QED
  BY <1>1, FS_EmptySet

\* Of every item there are as many copies in a, handled or not, as in the three
\* places where it can be.
Balanced(h, q, held, a) ==
    \A i \in Nat :
      Cardinality(PlacesOf(h, i)) + Cardinality(PlacesOf(q, i))
        + Cardinality(CopiesInHand(held, i))
      = Cardinality(PlacesOf(a, i))

\* Every item that got into the queue is handled, in the queue or in a hand, as
\* often as it got in.  (EachItemOnce says so of the items put so far.)
Accounted == Balanced(handled, queue, batch, accepted)

\* An item put at the end of the queue is accepted.
LEMMA PutBalances ==
    ASSUME NEW h \in Seq(Nat), NEW q \in Seq(Nat), NEW a \in Seq(Nat), NEW e \in Nat,
           NEW held \in [Consumers -> Seq(Nat)], Balanced(h, q, held, a)
    PROVE  Balanced(h, Append(q, e), held, Append(a, e))
<1> SUFFICES ASSUME NEW i \in Nat
             PROVE  Cardinality(PlacesOf(h, i)) + Cardinality(PlacesOf(Append(q, e), i))
                      + Cardinality(CopiesInHand(held, i))
                    = Cardinality(PlacesOf(Append(a, e), i))
  BY DEF Balanced
<1>1. /\ Cardinality(PlacesOf(Append(q, e), i))
           = Cardinality(PlacesOf(q, i)) + Cardinality(PlacesOf(<<e>>, i))
      /\ Cardinality(PlacesOf(Append(a, e), i))
           = Cardinality(PlacesOf(a, i)) + Cardinality(PlacesOf(<<e>>, i))
  BY PlacesOfAppend
<1>2. /\ Cardinality(PlacesOf(h, i)) \in Nat /\ Cardinality(PlacesOf(q, i)) \in Nat
      /\ Cardinality(PlacesOf(<<e>>, i)) \in Nat
      /\ Cardinality(CopiesInHand(held, i)) \in Nat
  BY PlacesFinite, PlacesOfOne, AllHandsFinite
<1>3. Cardinality(PlacesOf(h, i)) + Cardinality(PlacesOf(q, i))
        + Cardinality(CopiesInHand(held, i))
      = Cardinality(PlacesOf(a, i))
  BY DEF Balanced
<1>. QED
  BY <1>1, <1>2, <1>3

\* An item moves from the head of the queue into a hand.
LEMMA TakeBalances ==
    ASSUME NEW h \in Seq(Nat), NEW q \in Seq(Nat), NEW a \in Seq(Nat), q # <<>>,
           NEW held \in [Consumers -> Seq(Nat)], NEW k \in Consumers,
           Balanced(h, q, held, a)
    PROVE  Balanced(h, Tail(q), [held EXCEPT ![k] = Append(@, Head(q))], a)
<1> DEFINE more == Append(held[k], Head(q))
           now  == [held EXCEPT ![k] = more]
<1> SUFFICES ASSUME NEW i \in Nat
             PROVE  Cardinality(PlacesOf(h, i)) + Cardinality(PlacesOf(Tail(q), i))
                      + Cardinality(CopiesInHand(now, i))
                    = Cardinality(PlacesOf(a, i))
  BY DEF Balanced
<1> DEFINE moved == Cardinality(PlacesOf(<<Head(q)>>, i))
           rest  == Cardinality(CopiesHeld(held, Consumers \ {k}, i))
           left  == Cardinality(PlacesOf(Tail(q), i))
           mine  == Cardinality(PlacesOf(held[k], i))
           done  == Cardinality(PlacesOf(h, i))
<1>1. /\ Head(q) \in Nat /\ Tail(q) \in Seq(Nat) /\ held[k] \in Seq(Nat)
      /\ Cardinality(PlacesOf(q, i)) = moved + left
  BY PlacesOfTail
<1>2. more \in Seq(Nat) /\ Cardinality(PlacesOf(more, i)) = mine + moved
  BY <1>1, AppendProperties, PlacesOfAppend
<1>3. Cardinality(CopiesInHand(held, i)) = mine + rest /\ rest \in Nat /\ mine \in Nat
  BY HandApart
<1>. HIDE DEF more
<1>4. Cardinality(CopiesInHand(now, i)) = mine + moved + rest
  <2>1. now \in [Consumers -> Seq(Nat)] /\ now[k] = more
    BY <1>2
  <2>2. CopiesHeld(now, Consumers \ {k}, i) = CopiesHeld(held, Consumers \ {k}, i)
    BY DEF CopiesHeld
  <2>. HIDE DEF now
  <2>3. Cardinality(CopiesInHand(now, i))
          = Cardinality(PlacesOf(now[k], i))
              + Cardinality(CopiesHeld(now, Consumers \ {k}, i))
    BY <2>1, HandApart
  <2>. QED
    BY <1>2, <2>1, <2>2, <2>3
<1>5. done \in Nat /\ left \in Nat /\ moved \in Nat
  BY <1>1, PlacesFinite, PlacesOfOne
<1>6. done + (moved + left) + (mine + rest) = Cardinality(PlacesOf(a, i))
  BY <1>1, <1>3 DEF Balanced
<1>. HIDE DEF now, moved, rest, left, mine, done
<1>7. done + left + (mine + moved + rest) = Cardinality(PlacesOf(a, i))
  BY <1>3, <1>5, <1>6
<1>. QED
  BY <1>4, <1>7 DEF done, left

\* A batch leaves a hand and is handled.
LEMMA LeaveBalances ==
    ASSUME NEW h \in Seq(Nat), NEW q \in Seq(Nat), NEW a \in Seq(Nat),
           NEW held \in [Consumers -> Seq(Nat)], NEW k \in Consumers,
           Balanced(h, q, held, a)
    PROVE  Balanced(h \o held[k], q, [held EXCEPT ![k] = <<>>], a)
<1> DEFINE now == [held EXCEPT ![k] = <<>>]
<1> SUFFICES ASSUME NEW i \in Nat
             PROVE  Cardinality(PlacesOf(h \o held[k], i)) + Cardinality(PlacesOf(q, i))
                      + Cardinality(CopiesInHand(now, i))
                    = Cardinality(PlacesOf(a, i))
  BY DEF Balanced
<1> DEFINE rest == Cardinality(CopiesHeld(held, Consumers \ {k}, i))
           left == Cardinality(PlacesOf(q, i))
           mine == Cardinality(PlacesOf(held[k], i))
           done == Cardinality(PlacesOf(h, i))
<1>1. held[k] \in Seq(Nat) /\ Cardinality(PlacesOf(h \o held[k], i)) = done + mine
  BY PlacesOfConcat
<1>2. Cardinality(CopiesInHand(held, i)) = mine + rest /\ rest \in Nat /\ mine \in Nat
  BY HandApart
<1>3. Cardinality(CopiesInHand(now, i)) = rest
  <2>1. /\ now \in [Consumers -> Seq(Nat)] /\ now[k] = <<>>
        /\ Cardinality(PlacesOf(<<>>, i)) = 0
    BY EmptySeq, HandsEmpty
  <2>2. CopiesHeld(now, Consumers \ {k}, i) = CopiesHeld(held, Consumers \ {k}, i)
    BY DEF CopiesHeld
  <2>. HIDE DEF now
  <2>3. Cardinality(CopiesInHand(now, i))
          = Cardinality(PlacesOf(now[k], i))
              + Cardinality(CopiesHeld(now, Consumers \ {k}, i))
    BY <2>1, HandApart
  <2>. QED
    BY <1>2, <2>1, <2>2, <2>3
<1>4. done \in Nat /\ left \in Nat
  BY PlacesFinite
<1>5. done + left + (mine + rest) = Cardinality(PlacesOf(a, i))
  BY <1>2 DEF Balanced
<1>. HIDE DEF now, rest, left, mine, done
<1>6. (done + mine) + left + rest = Cardinality(PlacesOf(a, i))
  BY <1>2, <1>4, <1>5
<1>. QED
  BY <1>1, <1>3, <1>6 DEF left

\* The four things that can happen to items: nothing, one is put at the end of the
\* queue, one moves from its head into a hand, a hand is emptied.
LEMMA ItemsMove ==
    ASSUME TypeInv, [Next]_vars
    PROVE  \/ UNCHANGED <<queue, accepted, handled, batch>>
           \/ \E e \in Nat : Enqueue(e) /\ UNCHANGED <<handled, batch>>
           \/ \E k \in Consumers : TakeItem(k)
           \/ \E k \in Consumers : BatchLeaves(k) /\ UNCHANGED <<queue, accepted>>
<1> DEFINE Goal == \/ UNCHANGED <<queue, accepted, handled, batch>>
                   \/ \E e \in Nat : Enqueue(e) /\ UNCHANGED <<handled, batch>>
                   \/ \E k \in Consumers : TakeItem(k)
                   \/ \E k \in Consumers : BatchLeaves(k) /\ UNCHANGED <<queue, accepted>>
<1>1. ASSUME NEW p \in Producers, Put(p) PROVE Goal
  <2>1. puts + 1 \in Nat /\ Enqueue(puts + 1) /\ UNCHANGED <<handled, batch>>
    BY <1>1 DEF Put, consumerVars, TypeInv, Types, ProducerTypes
  <2>. QED
    BY <2>1
<1>2. ASSUME NEW p \in Producers, PutResumes(p) PROVE Goal
  <2>1. UNCHANGED <<handled, batch>> /\ pitem[p] \in Nat
    BY <1>2 DEF PutResumes, consumerVars, TypeInv, Types, ProducerTypes
  <2>2. Enqueue(pitem[p]) \/ UNCHANGED <<queue, accepted>>
    BY <1>2 DEF PutResumes
  <2>. QED
    BY <2>1, <2>2
<1>3. ASSUME NEW p \in Producers, PutDropped(p) \/ PutBlocks(p) \/ PutGivesUp(p) PROVE Goal
  BY <1>3 DEF PutDropped, PutBlocks, PutGivesUp, consumerVars
<1>4. ASSUME NEW k \in Consumers, ConsumerStep(k) PROVE Goal
  <2>1. CASE GetItem(k) \/ DrainItem(k)
    BY <2>1 DEF GetItem, DrainItem
  <2>2. CASE BatchEnds(k) \/ BatchRaises(k)
    BY <2>2 DEF BatchEnds, BatchRaises, producerVars
  <2>3. CASE \/ Begin(k) \/ WaitForItem(k) \/ GetTimesOut(k) \/ LeaveLoop(k)
             \/ DrainEnds(k) \/ BatchKept(k)
    BY <2>3 DEF Begin, WaitForItem, GetTimesOut, LeaveLoop, DrainEnds, BatchKept,
                producerVars
  <2>. QED
    BY <1>4, <2>1, <2>2, <2>3 DEF ConsumerStep
<1>5. ASSUME NEW s \in Stoppers, Stop(s) PROVE Goal
  <2>1. task \in Consumers /\ UNCHANGED <<queue, accepted>>
    BY <1>5 DEF Stop, TypeInv, TasksExist, producerVars
  <2>2. UNCHANGED <<handled, batch>> \/ CancelConsumer(task)
    BY <1>5 DEF Stop
  <2>3. CancelConsumer(task) => UNCHANGED <<handled, batch>> \/ BatchLeaves(task)
    BY DEF CancelConsumer
  <2>. QED
    BY <2>1, <2>2, <2>3
<1>6. ASSUME NEW s \in Stoppers, StopCancelled(s) PROVE Goal
  <2>1. joins[s] \in Consumers /\ UNCHANGED <<queue, accepted>>
    BY <1>6 DEF StopCancelled, StopLeaves, TypeInv, TasksExist, producerVars
  <2>2. UNCHANGED <<handled, batch>> \/ BatchLeaves(joins[s])
    BY <1>6 DEF StopCancelled, CancelConsumer
  <2>. QED
    BY <2>1, <2>2
<1>7. ASSUME NEW s \in Stoppers, StopperStep(s) PROVE Goal
  BY <1>7 DEF StopperStep, StopReturns, StopRaises, StopLeaves, producerVars, consumerVars
<1>8. CASE Start \/ Flush \/ FlushWakes \/ FlushTests \/ UNCHANGED vars
  BY <1>8 DEF Start, Flush, FlushWakes, FlushTests, vars, producerVars, consumerVars
<1>. QED
  BY <1>1, <1>2, <1>3, <1>4, <1>5, <1>6, <1>7, <1>8 DEF Next

\* No step loses an item or doubles one, whatever overlaps.
LEMMA AccountedStep == TypeInv /\ Accounted /\ [Next]_vars => Accounted'
<1> SUFFICES ASSUME TypeInv, Accounted, [Next]_vars
             PROVE  Balanced(handled', queue', batch', accepted')
  BY DEF Accounted, Balanced, CopiesInHand, CopiesHeld, PlacesOf
<1>1. /\ handled \in Seq(Nat) /\ queue \in Seq(Nat) /\ accepted \in Seq(Nat)
      /\ batch \in [Consumers -> Seq(Nat)]
      /\ Balanced(handled, queue, batch, accepted)
  BY DEF TypeInv, Types, ProducerTypes, ConsumerTypes, Accounted
<1>2. ASSUME NEW e \in Nat, Enqueue(e), UNCHANGED <<handled, batch>>
      PROVE  Balanced(handled', queue', batch', accepted')
  BY <1>1, <1>2, PutBalances DEF Enqueue
<1>3. ASSUME NEW k \in Consumers, TakeItem(k)
      PROVE  Balanced(handled', queue', batch', accepted')
  BY <1>1, <1>3, TakeBalances DEF TakeItem
<1>4. ASSUME NEW k \in Consumers, BatchLeaves(k), UNCHANGED <<queue, accepted>>
      PROVE  Balanced(handled', queue', batch', accepted')
  BY <1>1, <1>4, LeaveBalances DEF BatchLeaves
<1>. QED
  BY <1>1, <1>2, <1>3, <1>4, ItemsMove

\* Whatever producers, consumers and stoppers do, several consumers at a time
\* included, every item that got into the queue is in one place, and in one only.
THEOREM ItemsNeverDouble == Spec => []EachItemOnce
<1>1. Init => Accounted
  <2> SUFFICES ASSUME Init, NEW i \in Nat
               PROVE  Cardinality(PlacesOf(<<>>, i)) + Cardinality(PlacesOf(<<>>, i))
                        + Cardinality(CopiesInHand([k \in Consumers |-> <<>>], i))
                      = Cardinality(PlacesOf(<<>>, i))
    BY DEF Init, Accounted, Balanced
  <2>. QED
    BY HandsEmpty
<1>2. TypeInv /\ Accounted => EachItemOnce
  <2>1. TypeInv => \A i \in 1..puts : i \in Nat
    BY DEF TypeInv, Types, ProducerTypes
  <2>. QED
    BY <2>1 DEF Accounted, Balanced, EachItemOnce, PlacesOf, CopiesInHand,
                CopiesHeld
<1>. QED
  BY <1>1, <1>2, TypeInit, TypeStep, AccountedStep, PTL DEF Spec

-----------------------------------------------------------------------------
(* No put is forgotten. *)

\* Nobody stands twice in the line of parked putters.
StandApart(q) == \A i, j \in 1..Len(q) : q[i] = q[j] => i = j

\* The producers that are on their way to a free place.
WokenIn(pc) == {p \in Producers : pc[p] = "woken"}

\* The line of putters, and what each producer is doing, go together: those in it,
\* and nobody twice, are blocked.
LineKept(line, pc) ==
    /\ StandApart(line)
    /\ \A i \in 1..Len(line) : pc[line[i]] = "blocked"

PutsKept == LineKept(putters, ppc) /\ NoPutForgotten

\* Who leaves the line is not in it any more; the others are, each once.
LEMMA LeaveLine ==
    ASSUME NEW T, NEW q \in Seq(T), StandApart(q), NEW i \in 1..Len(q)
    PROVE  /\ StandApart(RemoveAt(q, i))
           /\ \A j \in 1..Len(RemoveAt(q, i)) :
                \E m \in 1..Len(q) : m # i /\ RemoveAt(q, i)[j] = q[m]
<1> DEFINE front == SubSeq(q, 1, i - 1)
           back  == SubSeq(q, i + 1, Len(q))
           from(j) == IF j < i THEN j ELSE j + 1
<1>1. Len(q) \in Nat /\ i \in Nat /\ i <= Len(q) /\ \A j \in 1..Len(q) : q[j] \in T
  BY LenProperties, ElementOfSeq
<1>2. /\ front \in Seq(T) /\ Len(front) = i - 1
      /\ \A j \in 1..(i - 1) : front[j] = q[j]
  BY <1>1, SubSeqProperties
<1>3. /\ back \in Seq(T) /\ Len(back) = Len(q) - i
      /\ \A j \in 1..(Len(q) - i) : back[j] = q[j + i]
  <2>1. \A j \in (i + 1)..Len(q) : q[j] \in T
    BY <1>1
  <2>2. /\ back \in Seq(T)
        /\ Len(back) = IF i + 1 <= Len(q) THEN Len(q) - (i + 1) + 1 ELSE 0
        /\ \A j \in 1..(Len(q) - (i + 1) + 1) : back[j] = q[(i + 1) + j - 1]
    BY <1>1, <2>1, SubSeqProperties
  <2>. HIDE DEF back
  <2>3. \A j \in 1..(Len(q) - i) :
            (i + 1) + j - 1 = j + i /\ j \in 1..(Len(q) - (i + 1) + 1)
    BY <1>1
  <2>. QED
    BY <1>1, <2>2, <2>3
<1>. HIDE DEF front, back
<1>4. /\ Len(front \o back) = Len(front) + Len(back)
      /\ \A j \in 1..(Len(front) + Len(back)) :
           (front \o back)[j] = IF j <= Len(front) THEN front[j] ELSE back[j - Len(front)]
  BY <1>2, <1>3, ConcatProperties
<1>5. RemoveAt(q, i) = front \o back
  BY DEF RemoveAt, front, back
<1>6. Len(front \o back) = Len(q) - 1
  BY <1>1, <1>2, <1>3, <1>4
<1>7. ASSUME NEW j \in 1..(Len(q) - 1)
      PROVE  /\ (front \o back)[j] = q[from(j)]
             /\ from(j) \in 1..Len(q) /\ from(j) # i
  <2>1. j \in Nat /\ j \in 1..(Len(front) + Len(back))
    BY <1>1, <1>2, <1>3
  <2>2. CASE j < i
    <3>1. j \in 1..(i - 1) /\ j <= Len(front)
      BY <1>1, <1>2, <2>1, <2>2
    <3>. QED
      BY <1>1, <1>2, <1>4, <2>1, <2>2, <3>1
  <2>3. CASE ~(j < i)
    <3>1. /\ ~(j <= Len(front)) /\ j - Len(front) \in 1..(Len(q) - i)
          /\ (j - Len(front)) + i = j + 1
      BY <1>1, <1>2, <2>1, <2>3
    <3>. QED
      BY <1>1, <1>3, <1>4, <2>1, <2>3, <3>1
  <2>. QED
    BY <2>2, <2>3
<1>. HIDE DEF from
<1>8. ASSUME NEW m \in 1..(Len(q) - 1), NEW n \in 1..(Len(q) - 1),
             (front \o back)[m] = (front \o back)[n]
      PROVE  m = n
  <2>1. from(m) = from(n)
    <3>1. q[from(m)] = q[from(n)]
      BY <1>7, <1>8
    <3>2. from(m) \in 1..Len(q) /\ from(n) \in 1..Len(q)
      BY <1>7
    <3>. QED
      BY <3>1, <3>2 DEF StandApart
  <2>. QED
    BY <1>1, <2>1 DEF from
<1>. QED
  BY <1>5, <1>6, <1>7, <1>8 DEF StandApart

\* The same of the one who stands first.
LEMMA HeadLeavesLine ==
    ASSUME NEW T, NEW q \in Seq(T), StandApart(q), q # <<>>
    PROVE  /\ StandApart(Tail(q)) /\ Head(q) = q[1] /\ 1 \in 1..Len(q)
           /\ \A j \in 1..Len(Tail(q)) : \E m \in 1..Len(q) : m # 1 /\ Tail(q)[j] = q[m]
<1>1. /\ Len(q) \in Nat /\ Len(q) # 0 /\ Len(Tail(q)) = Len(q) - 1 /\ Head(q) = q[1]
      /\ \A j \in 1..Len(Tail(q)) : Tail(q)[j] = q[j + 1]
  BY HeadTailProperties, LenProperties, EmptySeq
<1>2. \A j \in 1..(Len(q) - 1) : j + 1 \in 1..Len(q) /\ j + 1 # 1
  BY <1>1
<1>3. StandApart(Tail(q))
  BY <1>1, <1>2 DEF StandApart
<1>. QED
  BY <1>1, <1>2, <1>3

\* Who comes to the end of the line, not being in it, stands there once.
LEMMA JoinLine ==
    ASSUME NEW line \in Seq(Producers), NEW pc, LineKept(line, pc),
           NEW p \in Producers, pc[p] # "blocked",
           NEW now, \A x \in Producers : now[x] = IF x = p THEN "blocked" ELSE pc[x]
    PROVE  LineKept(Append(line, p), now)
<1> DEFINE r == Append(line, p)
<1>1. /\ Len(line) \in Nat /\ Len(r) = Len(line) + 1 /\ r[Len(line) + 1] = p
      /\ \A j \in 1..Len(line) : r[j] = line[j]
  BY LenProperties, AppendProperties
<1>. HIDE DEF r
<1>2. \A j \in 1..Len(line) : line[j] \in Producers /\ line[j] # p
  BY ElementOfSeq DEF LineKept
<1>3. \A j \in 1..Len(r) : j \in 1..Len(line) \/ j = Len(line) + 1
  BY <1>1
<1>4. StandApart(r)
  BY <1>1, <1>2, <1>3 DEF StandApart, LineKept
<1>5. \A j \in 1..Len(r) : now[r[j]] = "blocked"
  BY <1>1, <1>2, <1>3 DEF LineKept
<1>. QED
  BY <1>4, <1>5 DEF LineKept, r

\* A line that some left, each of whom alone did anything, is as it should be.
LEMMA ShorterLine ==
    ASSUME NEW line \in Seq(Producers), NEW pc, LineKept(line, pc),
           NEW i \in 1..Len(line), NEW rest, StandApart(rest),
           \A j \in 1..Len(rest) : \E m \in 1..Len(line) : m # i /\ rest[j] = line[m],
           NEW now, \A x \in Producers : x # line[i] /\ pc[x] = "blocked" => now[x] = pc[x]
    PROVE  LineKept(rest, now)
<1>1. \A m \in 1..Len(line) :
        line[m] \in Producers /\ pc[line[m]] = "blocked" /\ (m # i => line[m] # line[i])
  BY ElementOfSeq DEF LineKept, StandApart
<1>2. \A j \in 1..Len(rest) : now[rest[j]] = "blocked"
  BY <1>1
<1>. QED
  BY <1>2 DEF LineKept

\* As is the line whose first leaves.
LEMMA HeadLeaves ==
    ASSUME NEW line \in Seq(Producers), NEW pc, LineKept(line, pc), line # <<>>,
           NEW now, \A x \in Producers : x # line[1] /\ pc[x] = "blocked" => now[x] = pc[x]
    PROVE  LineKept(Tail(line), now)
<1> DEFINE rest == Tail(line)
<1>1. /\ StandApart(rest) /\ 1 \in 1..Len(line)
      /\ \A j \in 1..Len(rest) : \E m \in 1..Len(line) : m # 1 /\ rest[j] = line[m]
  BY HeadLeavesLine DEF LineKept
<1>. HIDE DEF rest
<1>2. LineKept(rest, now)
  BY <1>1, ShorterLine
<1>. QED
  BY <1>2 DEF rest

\* One producer that is woken, or is so no more, counts for one.
LEMMA WokenChange ==
    ASSUME NEW pc \in [Producers -> {"idle", "blocked", "woken"}], NEW p \in Producers,
           NEW v
    PROVE  LET now == [pc EXCEPT ![p] = v]
           IN  /\ Cardinality(WokenIn(pc)) \in Nat /\ Cardinality(WokenIn(now)) \in Nat
               /\ pc[p] # "woken" /\ v = "woken"
                    => Cardinality(WokenIn(now)) = Cardinality(WokenIn(pc)) + 1
               /\ pc[p] = "woken" /\ v # "woken"
                    => /\ Cardinality(WokenIn(now)) = Cardinality(WokenIn(pc)) - 1
                       /\ Cardinality(WokenIn(pc)) > 0
               /\ pc[p] # "woken" /\ v # "woken" => WokenIn(now) = WokenIn(pc)
<1> DEFINE now == [pc EXCEPT ![p] = v]
<1>1. IsFiniteSet(WokenIn(pc)) /\ IsFiniteSet(WokenIn(now))
  <2>1. WokenIn(pc) \subseteq Producers /\ WokenIn(now) \subseteq Producers
    BY DEF WokenIn
  <2>. QED
    BY <2>1, PipelineAssumption, FS_Subset DEF PipelineAssumption
<1>2. Cardinality(WokenIn(pc)) \in Nat /\ Cardinality(WokenIn(now)) \in Nat
  BY <1>1, FS_CardinalityType
<1>3. CASE pc[p] # "woken" /\ v = "woken"
  <2>1. WokenIn(now) = WokenIn(pc) \cup {p} /\ p \notin WokenIn(pc)
    BY <1>3 DEF WokenIn
  <2>. HIDE DEF now
  <2>2. Cardinality(WokenIn(pc) \cup {p}) = Cardinality(WokenIn(pc)) + 1
    BY <1>1, <2>1, FS_AddElement
  <2>. QED
    BY <1>2, <1>3, <2>1, <2>2 DEF now
<1>4. CASE pc[p] = "woken" /\ v # "woken"
  <2>1. WokenIn(now) = WokenIn(pc) \ {p} /\ p \in WokenIn(pc)
    BY <1>4 DEF WokenIn
  <2>. HIDE DEF now
  <2>2. Cardinality(WokenIn(pc) \ {p}) = Cardinality(WokenIn(pc)) - 1
    BY <1>1, <2>1, FS_RemoveElement
  <2>3. Cardinality(WokenIn(pc)) > 0
    BY <1>2, <2>1, <2>2
  <2>. QED
    BY <1>2, <1>4, <2>1, <2>2, <2>3 DEF now
<1>5. CASE pc[p] # "woken" /\ v # "woken"
  <2>1. WokenIn(now) = WokenIn(pc)
    BY <1>5 DEF WokenIn
  <2>. QED
    BY <1>2, <1>5, <2>1
<1>6. CASE pc[p] = "woken" /\ v = "woken"
  BY <1>2, <1>6
<1>. QED
  BY <1>3, <1>4, <1>5, <1>6

\* A producer's step forgets nobody: who overtakes takes a place, who resumes takes
\* the one he was woken for, and who gives up hands it on.
LEMMA PutForgetsNobody ==
    ASSUME ProducerTypes, PutsKept, NEW p \in Producers,
           Put(p) \/ PutDropped(p) \/ PutBlocks(p) \/ PutResumes(p) \/ PutGivesUp(p)
    PROVE  PutsKept'
<1>1. /\ Len(queue) \in Nat /\ MaxQueueSize \in Nat
      /\ putters \in Seq(Producers) /\ queue \in Seq(Nat) /\ LineKept(putters, ppc)
      /\ ppc \in [Producers -> {"idle", "blocked", "woken"}]
      /\ putters # <<>> => MaxQueueSize - Len(queue) <= Cardinality(WokenIn(ppc))
  BY LenProperties, PipelineAssumption
  DEF ProducerTypes, PutsKept, NoPutForgotten, WokenIn, PipelineAssumption
<1>2. Cardinality(WokenIn(ppc)) \in Nat
  BY <1>1, WokenChange
<1>3. /\ LineKept(putters', ppc')
      /\ putters' # <<>> => MaxQueueSize - Len(queue') <= Cardinality(WokenIn(ppc'))
      => PutsKept'
  BY DEF PutsKept, LineKept, StandApart, NoPutForgotten, WokenIn
<1>4. \A i \in Nat : Enqueue(i) => Len(queue') = Len(queue) + 1
  BY <1>1, AppendProperties DEF Enqueue
<1>5. CASE Put(p)
  <2>1. UNCHANGED <<putters, ppc>> /\ Len(queue') = Len(queue) + 1
    BY <1>4, <1>5 DEF Put, BeginPut, ProducerTypes
  <2>. QED
    BY <1>1, <1>2, <1>3, <2>1
<1>6. CASE PutDropped(p)
  BY <1>1, <1>3, <1>6 DEF PutDropped
<1>7. ASSUME ppc[p] # "blocked", Full, UNCHANGED queue, putters' = Append(putters, p),
             ppc' = [ppc EXCEPT ![p] = "blocked"]
      PROVE  PutsKept'
  <2>1. \A x \in Producers : ppc'[x] = IF x = p THEN "blocked" ELSE ppc[x]
    BY <1>1, <1>7
  <2>2. LineKept(putters', ppc')
    <3>1. ASSUME NEW now, \A x \in Producers : now[x] = IF x = p THEN "blocked" ELSE ppc[x]
          PROVE  LineKept(Append(putters, p), now)
      <4>1. putters \in Seq(Producers) /\ LineKept(putters, ppc) /\ ppc[p] # "blocked"
        BY <1>1, <1>7
      <4>. QED
        BY <3>1, <4>1, JoinLine
    <3>2. LineKept(Append(putters, p), ppc')
      BY <2>1, <3>1
    <3>. QED
      BY <1>7, <3>2
  <2>3. Cardinality(WokenIn(ppc')) \in Nat
    BY <1>1, <1>7, WokenChange
  <2>4. MaxQueueSize - Len(queue') <= 0
    BY <1>1, <1>7 DEF Full
  <2>. QED
    BY <1>1, <1>3, <2>2, <2>3, <2>4
<1>8. CASE PutBlocks(p)
  BY <1>7, <1>8 DEF PutBlocks, BeginPut
<1>9. CASE PutResumes(p)
  <2>1. CASE ~Full
    <3>1. /\ ppc[p] = "woken" /\ Enqueue(pitem[p]) /\ pitem[p] \in Nat
          /\ UNCHANGED putters /\ ppc' = [ppc EXCEPT ![p] = "idle"]
      BY <1>9, <2>1 DEF PutResumes, ProducerTypes
    <3>2. LineKept(putters', ppc')
      <4>1. \A i \in 1..Len(putters) :
              putters[i] \in Producers /\ ppc[putters[i]] = "blocked"
        BY <1>1, ElementOfSeq DEF LineKept
      <4>. QED
        BY <1>1, <3>1, <4>1 DEF LineKept
    <3>3. Cardinality(WokenIn(ppc')) = Cardinality(WokenIn(ppc)) - 1
      BY <1>1, <3>1, WokenChange
    <3>4. Len(queue') = Len(queue) + 1
      BY <1>4, <3>1
    <3>. QED
      BY <1>1, <1>2, <1>3, <3>1, <3>2, <3>3, <3>4
  <2>2. CASE Full
    BY <1>7, <1>9, <2>2 DEF PutResumes
  <2>. QED
    BY <2>1, <2>2
<1>10. CASE PutGivesUp(p)
  <2>1. ASSUME NEW i \in 1..Len(putters), putters[i] = p,
               putters' = RemoveAt(putters, i), ppc' = [ppc EXCEPT ![p] = "idle"]
        PROVE  PutsKept'
    <3>1. LineKept(putters', ppc')
      <4>1. \A x \in Producers : x # p /\ ppc[x] = "blocked" => ppc'[x] = ppc[x]
        BY <1>1, <2>1
      <4>2. /\ StandApart(RemoveAt(putters, i))
            /\ \A j \in 1..Len(RemoveAt(putters, i)) :
                 \E m \in 1..Len(putters) : m # i /\ RemoveAt(putters, i)[j] = putters[m]
        <5>1. StandApart(putters) /\ putters \in Seq(Producers)
          BY <1>1 DEF LineKept
        <5>. QED
          BY <5>1, LeaveLine
      <4>3. LineKept(putters, ppc) /\ putters \in Seq(Producers)
        BY <1>1
      <4>4. ASSUME NEW now, \A x \in Producers : x # putters[i] /\ ppc[x] = "blocked"
                                                  => now[x] = ppc[x]
            PROVE  LineKept(RemoveAt(putters, i), now)
        BY <4>2, <4>3, <4>4, ShorterLine
      <4>5. LineKept(RemoveAt(putters, i), ppc')
        BY <2>1, <4>1, <4>4
      <4>. QED
        BY <2>1, <4>5
    <3>2. WokenIn(ppc') = WokenIn(ppc)
      <4>1. ppc[p] = "blocked"
        BY <1>1, <2>1 DEF LineKept
      <4>. QED
        BY <1>1, <2>1, <4>1, WokenChange
    <3>3. putters # <<>>
      BY <2>1, EmptySeq
    <3>4. UNCHANGED queue
      BY <1>10 DEF PutGivesUp
    <3>. QED
      BY <1>1, <1>3, <3>1, <3>2, <3>3, <3>4
  <2>2. ASSUME ppc[p] = "woken", Full \/ putters = <<>>, UNCHANGED putters,
               ppc' = [ppc EXCEPT ![p] = "idle"]
        PROVE  PutsKept'
    <3>1. LineKept(putters', ppc')
      <4>1. \A i \in 1..Len(putters) :
              putters[i] \in Producers /\ ppc[putters[i]] = "blocked"
        BY <1>1, ElementOfSeq DEF LineKept
      <4>. QED
        BY <1>1, <2>2, <4>1 DEF LineKept
    <3>2. Cardinality(WokenIn(ppc')) \in Nat
      BY <1>1, <2>2, WokenChange
    <3>3. Full => MaxQueueSize - Len(queue) <= 0
      BY <1>1 DEF Full
    <3>4. UNCHANGED queue
      BY <1>10 DEF PutGivesUp
    <3>. QED
      BY <1>1, <1>3, <2>2, <3>1, <3>2, <3>3, <3>4
  <2>3. ASSUME ppc[p] = "woken", putters # <<>>, putters' = Tail(putters),
               ppc' = [ppc EXCEPT ![p] = "idle", ![Head(putters)] = "woken"]
        PROVE  PutsKept'
    <3>1. Head(putters) = putters[1] /\ 1 \in 1..Len(putters)
      BY <1>1, <2>3, HeadLeavesLine DEF LineKept
    <3>2. Head(putters) \in Producers /\ ppc[Head(putters)] = "blocked"
      BY <1>1, <3>1, ElementOfSeq DEF LineKept
    <3> DEFINE gone == [ppc EXCEPT ![p] = "idle"]
    <3>3. /\ gone \in [Producers -> {"idle", "blocked", "woken"}]
          /\ ppc' = [gone EXCEPT ![Head(putters)] = "woken"]
          /\ gone[Head(putters)] # "woken"
      BY <1>1, <2>3, <3>2
    <3>4. Cardinality(WokenIn(gone)) = Cardinality(WokenIn(ppc)) - 1
      BY <1>1, <2>3, WokenChange
    <3>5. \A x \in Producers : x # putters[1] /\ ppc[x] = "blocked" => ppc'[x] = ppc[x]
      BY <1>1, <2>3, <3>1
    <3>. HIDE DEF gone
    <3>6. Cardinality(WokenIn(ppc')) = Cardinality(WokenIn(gone)) + 1
      BY <3>2, <3>3, WokenChange
    <3>7. LineKept(putters', ppc')
      <4>1. ASSUME NEW now,
                   \A x \in Producers : x # putters[1] /\ ppc[x] = "blocked"
                                           => now[x] = ppc[x]
            PROVE  LineKept(Tail(putters), now)
        <5>1. putters \in Seq(Producers) /\ LineKept(putters, ppc) /\ putters # <<>>
          BY <1>1, <2>3
        <5>. QED
          BY <4>1, <5>1, HeadLeaves
      <4>2. LineKept(Tail(putters), ppc')
        BY <3>5, <4>1
      <4>. QED
        BY <2>3, <4>2
    <3>8. UNCHANGED queue
      BY <1>10 DEF PutGivesUp
    <3>. QED
      BY <1>1, <1>2, <1>3, <2>3, <3>4, <3>6, <3>7, <3>8
  <2>4. DOMAIN putters = 1..Len(putters)
    BY <1>1, LenProperties
  <2>. QED
    BY <1>10, <2>1, <2>2, <2>3, <2>4 DEF PutGivesUp, PassOn
<1>. QED
  BY <1>5, <1>6, <1>8, <1>9, <1>10

\* An item taken out of the queue frees one place, and wakes one putter for it.
LEMMA TakeWakesOne ==
    ASSUME ProducerTypes, PutsKept, NEW k \in Consumers, TakeItem(k)
    PROVE  PutsKept'
<1>1. /\ Len(queue) \in Nat /\ MaxQueueSize \in Nat
      /\ putters \in Seq(Producers) /\ LineKept(putters, ppc)
      /\ ppc \in [Producers -> {"idle", "blocked", "woken"}]
      /\ putters # <<>> => MaxQueueSize - Len(queue) <= Cardinality(WokenIn(ppc))
  BY LenProperties, PipelineAssumption
  DEF ProducerTypes, PutsKept, NoPutForgotten, WokenIn, PipelineAssumption
<1>2. Len(queue') = Len(queue) - 1
  BY HeadAndTail DEF TakeItem, ProducerTypes
<1>3. /\ LineKept(putters', ppc')
      /\ putters' # <<>> => MaxQueueSize - Len(queue') <= Cardinality(WokenIn(ppc'))
      => PutsKept'
  BY DEF PutsKept, LineKept, StandApart, NoPutForgotten, WokenIn
<1>4. CASE putters = <<>>
  BY <1>1, <1>3, <1>4 DEF TakeItem, WakePutter
<1>5. CASE putters # <<>>
  <2>1. putters' = Tail(putters) /\ ppc' = [ppc EXCEPT ![Head(putters)] = "woken"]
    BY <1>5 DEF TakeItem, WakePutter
  <2>2. Head(putters) = putters[1] /\ 1 \in 1..Len(putters)
    BY <1>1, <1>5, HeadLeavesLine DEF LineKept
  <2>3. Head(putters) \in Producers /\ ppc[Head(putters)] = "blocked"
    BY <1>1, <2>2, ElementOfSeq DEF LineKept
  <2>4. \A x \in Producers : x # putters[1] /\ ppc[x] = "blocked" => ppc'[x] = ppc[x]
    BY <1>1, <2>1, <2>2
  <2>5. /\ Cardinality(WokenIn(ppc)) \in Nat
        /\ Cardinality(WokenIn(ppc')) = Cardinality(WokenIn(ppc)) + 1
    BY <1>1, <2>1, <2>3, WokenChange
  <2>6. LineKept(putters', ppc')
    <3>1. ASSUME NEW now,
                 \A x \in Producers : x # putters[1] /\ ppc[x] = "blocked" => now[x] = ppc[x]
          PROVE  LineKept(Tail(putters), now)
      <4>1. putters \in Seq(Producers) /\ LineKept(putters, ppc) /\ putters # <<>>
        BY <1>1, <1>5
      <4>. QED
        BY <3>1, <4>1, HeadLeaves
    <3>2. LineKept(Tail(putters), ppc')
      BY <2>4, <3>1
    <3>. QED
      BY <2>1, <3>2
  <2>. QED
    BY <1>1, <1>2, <1>3, <1>5, <2>5, <2>6
<1>. QED
  BY <1>4, <1>5

\* Nothing else touches the queue, the line of putters or a producer.
LEMMA PutsKeptStep == TypeInv /\ PutsKept /\ [Next]_vars => PutsKept'
<1> SUFFICES ASSUME TypeInv, PutsKept, [Next]_vars PROVE PutsKept'
  OBVIOUS
<1>1. ProducerTypes
  BY DEF TypeInv, Types
<1>2. UNCHANGED <<queue, putters, ppc>> => PutsKept'
  BY DEF PutsKept, LineKept, StandApart, NoPutForgotten
<1>3. ASSUME NEW p \in Producers,
             Put(p) \/ PutDropped(p) \/ PutBlocks(p) \/ PutResumes(p) \/ PutGivesUp(p)
      PROVE  PutsKept'
  BY <1>1, <1>3, PutForgetsNobody
<1>4. ASSUME NEW k \in Consumers, ConsumerStep(k) PROVE PutsKept'
  <2>1. CASE GetItem(k) \/ DrainItem(k)
    <3>1. TakeItem(k)
      BY <2>1 DEF GetItem, DrainItem
    <3>. QED
      BY <1>1, <3>1, TakeWakesOne
  <2>2. CASE BatchEnds(k) \/ BatchRaises(k) \/ BatchKept(k)
    BY <1>2, <2>2 DEF BatchEnds, BatchRaises, BatchKept, producerVars
  <2>3. CASE \/ Begin(k) \/ WaitForItem(k) \/ GetTimesOut(k) \/ LeaveLoop(k)
             \/ DrainEnds(k)
    BY <1>2, <2>3 DEF Begin, WaitForItem, GetTimesOut, LeaveLoop, DrainEnds, producerVars
  <2>. QED
    BY <1>4, <2>1, <2>2, <2>3 DEF ConsumerStep
<1>5. ASSUME NEW s \in Stoppers, Stop(s) \/ StopperStep(s) \/ StopCancelled(s)
      PROVE  PutsKept'
  BY <1>2, <1>5 DEF Stop, StopperStep, StopReturns, StopRaises, StopCancelled, StopLeaves,
                    producerVars
<1>6. CASE Start \/ Flush \/ FlushWakes \/ FlushTests \/ UNCHANGED vars
  BY <1>2, <1>6 DEF Start, Flush, FlushWakes, FlushTests, vars, producerVars
<1>. QED
  BY <1>3, <1>4, <1>5, <1>6 DEF Next

\* Through puts that overtake, run out of time or are cancelled, no wake-up is lost:
\* each free place of the queue has a woken producer on its way to it while others
\* are parked.
THEOREM NoPutIsForgotten == Spec => []NoPutForgotten
<1>1. Init => PutsKept
  BY EmptySeq DEF Init, PutsKept, LineKept, StandApart, NoPutForgotten
<1>2. PutsKept => NoPutForgotten
  BY DEF PutsKept
<1>. QED
  BY <1>1, <1>2, TypeInit, TypeStep, PutsKeptStep, PTL DEF Spec
=============================================================================
