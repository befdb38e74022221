-------------------------- MODULE LoopMonitorProofs --------------------------
(***************************************************************************)
(* Theorems about LoopMonitor, for any number of users, any latencies and  *)
(* thresholds, and any number of starts, stops and loops.                  *)
(***************************************************************************)
EXTENDS LoopMonitor, FiniteSetTheorems, SequenceTheorems, TLAPS

\* The monitor at work is the one that stop() would cancel.
Reachable == ~crossed => \A k \in Monitors : AtWork(k) => running /\ task = k

\* A stop_async() that waits has left no monitor at work.
WaitedOut ==
    ~crossed => \A u \in Users : upc[u] # 0 => \A k \in Monitors : ~AtWork(k)

-----------------------------------------------------------------------------
(* Types. *)

\* Monitors are counted with natural numbers.
LEMMA MadeType == Made \in Nat
<1>1. IsFiniteSet(Monitors) /\ Born \in SUBSET Monitors
  BY MonitorAssumption, FS_Interval DEF MonitorAssumption, Monitors, Born
<1>. QED
  BY <1>1, FS_Subset, FS_CardinalityType DEF Made

\* A sample is added to the history, which stays within its bound.
LEMMA KeepType ==
    ASSUME NEW l \in Latencies, samples \in Seq(Latencies), Len(samples) <= MaxHistory
    PROVE  Keep(l) \in Seq(Latencies) /\ Len(Keep(l)) <= MaxHistory
<1> DEFINE more == Append(samples, l)
<1>1. /\ more \in Seq(Latencies) /\ Len(more) = Len(samples) + 1
      /\ Len(samples) \in Nat /\ more # <<>>
  BY AppendProperties, LenProperties, EmptySeq
<1>2. Tail(more) \in Seq(Latencies) /\ Len(Tail(more)) = Len(more) - 1
  BY <1>1, HeadTailProperties
<1>. HIDE DEF more
<1>3. Keep(l) = IF Len(more) > MaxHistory THEN Tail(more) ELSE more
  BY DEF Keep, more
<1>. QED
  BY <1>1, <1>2, <1>3, MonitorAssumption DEF MonitorAssumption

\* Where a monitor task can be.
Places == {"unborn", "new", "measuring", "sleeping", "doomed", "done"}

\* Cancelling a task leaves every task at one of its places.
LEMMA CancelType ==
    ASSUME NEW k \in 0..MaxStarts, mpc \in [Monitors -> Places]
    PROVE  Cancel(k) \in [Monitors -> Places]
<1>. QED
  BY DEF Cancel, Places

\* A new monitor is well typed.
LEMMA TypeInit == Init => TypeOK
<1> SUFFICES ASSUME Init PROVE TypeOK
  OBVIOUS
<1>1. <<>> \in Seq(Latencies) /\ Len(<<>>) = 0
  BY EmptySeq
<1>2. samples \in Seq(Latencies) /\ Len(samples) <= MaxHistory
  BY <1>1, MonitorAssumption DEF Init, MonitorAssumption
<1>3. task \in 0..MaxStarts /\ upc \in [Users -> 0..MaxStarts]
  BY MonitorAssumption DEF Init, MonitorAssumption
<1>4. taken \in Seq(Latencies)
  BY <1>1 DEF Init
<1>5. logged \in [warnings : SUBSET Nat, errors : SUBSET Nat] /\ loops \in Nat
  BY DEF Init
<1>. QED
  BY <1>2, <1>3, <1>4, <1>5 DEF Init, TypeOK

\* No step of a user, a monitor or the loop leaves the types.
LEMMA TypeStep == TypeOK /\ [Next]_vars => TypeOK'
<1> SUFFICES ASSUME TypeOK, [Next]_vars PROVE TypeOK'
  OBVIOUS
<1>. USE MonitorAssumption DEF MonitorAssumption, TypeOK, Monitors
<1>1. ASSUME NEW u \in Users, Start(u) PROVE TypeOK'
  BY <1>1, MadeType DEF Start, dataVars
<1>2. ASSUME NEW u \in Users, StartWithoutLoop(u) PROVE TypeOK'
  BY <1>2 DEF StartWithoutLoop, dataVars
<1>3. ASSUME NEW u \in Users, Stop(u) PROVE TypeOK'
  <2>1. task' \in 0..MaxStarts
    BY <1>3 DEF Stop
  <2>. QED
    BY <1>3, <2>1, CancelType DEF Stop, Places, dataVars
<1>4. ASSUME NEW u \in Users, StopWithoutLoop(u) PROVE TypeOK'
  <2>1. task' \in 0..MaxStarts
    BY <1>4 DEF StopWithoutLoop
  <2>. QED
    BY <1>4, <2>1 DEF StopWithoutLoop, dataVars
<1>5. ASSUME NEW u \in Users, StopAsync(u) PROVE TypeOK'
  BY <1>5, CancelType DEF StopAsync, Places, dataVars
<1>6. ASSUME NEW u \in Users, StopAsyncReturns(u) PROVE TypeOK'
  BY <1>6 DEF StopAsyncReturns, dataVars
<1>7. ASSUME NEW k \in Monitors, Proceed(k) PROVE TypeOK'
  BY <1>7 DEF Proceed, AtHead, Goes, taskVars, dataVars
<1>8. ASSUME NEW k \in Monitors, Sample(k) PROVE TypeOK'
  <2>1. PICK l \in Latencies : /\ Reset(l) /\ logged' = Logs(l)
                               /\ current' = l /\ samples' = Keep(l)
                               /\ taken' = Append(taken, l)
    BY <1>8 DEF Sample
  <2>2. samples' \in Seq(Latencies) /\ Len(samples') <= MaxHistory
    BY <2>1, KeepType
  <2>3. taken' \in Seq(Latencies)
    BY <2>1, AppendProperties
  <2>4. warned' \in BOOLEAN /\ alarmed' \in BOOLEAN
    BY <2>1 DEF Reset
  <2>5. logged' \in [warnings : SUBSET Nat, errors : SUBSET Nat]
    <3>1. Len(taken) + 1 \in Nat
      BY LenProperties
    <3>. QED
      BY <2>1, <3>1 DEF Logs
  <2>6. /\ mpc' \in [Monitors -> {"unborn", "new", "measuring", "sleeping",
                                  "doomed", "done"}]
        /\ UNCHANGED taskVars
    BY <1>8 DEF Sample, Goes
  <2>. QED
    BY <2>1, <2>2, <2>3, <2>4, <2>5, <2>6 DEF taskVars
<1>9. ASSUME NEW k \in Monitors, SampleFails(k) PROVE TypeOK'
  BY <1>9 DEF SampleFails, Goes, taskVars, dataVars
<1>10. ASSUME NEW k \in Monitors, Dies(k) PROVE TypeOK'
  BY <1>10 DEF Dies, Goes, taskVars, dataVars
<1>11. CASE LoopPauses
  <2>1. loops' \in Nat
    BY <1>11 DEF LoopPauses
  <2>. QED
    BY <1>11, <2>1 DEF LoopPauses, dataVars
<1>12. CASE LoopEnds
  <2>1. /\ loops' \in Nat
        /\ task' \in 0..MaxStarts /\ upc' \in [Users -> 0..MaxStarts]
    BY <1>12 DEF LoopEnds
  <2>. QED
    BY <1>12, <2>1 DEF LoopEnds, dataVars
<1>13. CASE LoopRuns
  BY <1>13 DEF LoopRuns, dataVars
<1>14. CASE UNCHANGED vars
  BY <1>14 DEF vars, taskVars, dataVars
<1>. QED
  BY <1>1, <1>2, <1>3, <1>4, <1>5, <1>6, <1>7, <1>8, <1>9, <1>10, <1>11, <1>12,
     <1>13, <1>14 DEF Next, MonitorStep

\* The monitor's variables stay within their types.
THEOREM MonitorTypeCorrect == Spec => []TypeOK
<1>. QED
  BY TypeInit, TypeStep, PTL DEF Spec

-----------------------------------------------------------------------------
(* One monitor. *)

\* At first no monitor is at work.
LEMMA ReachableInit == Init => Reachable /\ WaitedOut
<1>. QED
  BY DEF Init, Reachable, WaitedOut, AtWork, Live

\* A task that is cancelled is no longer at work, and no other is.
LEMMA CancelledNotAtWork ==
    ASSUME TypeOK, Reachable, ~crossed, mpc' = Cancel(task)
    PROVE  \A k \in Monitors : ~AtWork(k)'
<1>1. mpc \in [Monitors -> Places]
  BY DEF TypeOK, Places
<1>2. ASSUME NEW k \in Monitors, AtWork(k)' PROVE AtWork(k) /\ k # task
  <2>1. k # 0
    BY MonitorAssumption DEF Monitors, MonitorAssumption
  <2>2. CASE task # 0 /\ Live(task)
    <3>1. mpc' = [mpc EXCEPT ![task] = "doomed"]
      BY <2>2 DEF Cancel
    <3>. QED
      BY <1>1, <1>2, <3>1 DEF AtWork, Live
  <2>3. CASE ~(task # 0 /\ Live(task))
    <3>1. mpc' = mpc
      BY <2>3 DEF Cancel
    <3>. QED
      BY <1>2, <2>1, <2>3, <3>1 DEF AtWork, Live
  <2>. QED
    BY <2>2, <2>3
<1>. QED
  BY <1>2 DEF Reachable

\* Unless a start crosses a stop, no step sets a second monitor to work or lets
\* stop() lose the one at work.
LEMMA ReachableStep ==
    TypeOK /\ Reachable /\ WaitedOut /\ [Next]_vars => Reachable' /\ WaitedOut'
<1> SUFFICES ASSUME TypeOK, Reachable, WaitedOut, [Next]_vars, ~crossed'
             PROVE  /\ \A k \in Monitors : AtWork(k)' => running' /\ task' = k
                    /\ \A u \in Users : upc'[u] # 0 =>
                         \A k \in Monitors : ~AtWork(k)'
  BY DEF Reachable, WaitedOut
<1>. USE DEF TypeOK, AtWork, Live, dataVars
<1>1. ASSUME NEW u \in Users, Start(u)
      PROVE  /\ \A k \in Monitors : AtWork(k)' => running' /\ task' = k
             /\ \A v \in Users : upc'[v] = 0
  BY <1>1 DEF Start, Reachable, Free
<1>2. ASSUME NEW u \in Users, StartWithoutLoop(u)
      PROVE  \A k \in Monitors : ~AtWork(k)'
  BY <1>2 DEF StartWithoutLoop, Reachable
<1>3. ASSUME NEW u \in Users, Stop(u)
      PROVE  \A k \in Monitors : ~AtWork(k)'
  BY <1>3, CancelledNotAtWork DEF Stop
<1>4. ASSUME NEW u \in Users, StopWithoutLoop(u)
      PROVE  \A k \in Monitors : ~AtWork(k)'
  BY <1>4 DEF StopWithoutLoop, Reachable, Monitors
<1>5. ASSUME NEW u \in Users, StopAsync(u)
      PROVE  \A k \in Monitors : ~AtWork(k)'
  BY <1>5, CancelledNotAtWork DEF StopAsync
<1>6. ASSUME NEW u \in Users, StopAsyncReturns(u)
      PROVE  \A k \in Monitors : ~AtWork(k)'
  BY <1>6 DEF StopAsyncReturns, WaitedOut, Free
<1>7. ASSUME NEW k \in Monitors, MonitorStep(k)
      PROVE  /\ UNCHANGED <<running, task, upc, crossed>>
             /\ \A m \in Monitors : AtWork(m)' => AtWork(m)
  BY <1>7 DEF MonitorStep, Proceed, AtHead, Sample, SampleFails, Dies, Goes, taskVars
<1>8. CASE LoopPauses \/ LoopRuns
  BY <1>8 DEF LoopPauses, LoopRuns, Reachable, WaitedOut
<1>9. CASE LoopEnds
  BY <1>9 DEF LoopEnds
<1>10. CASE UNCHANGED vars
  BY <1>10 DEF vars, taskVars, Reachable, WaitedOut
<1>. QED
  BY <1>1, <1>2, <1>3, <1>4, <1>5, <1>6, <1>7, <1>8, <1>9, <1>10
  DEF Next, Reachable, WaitedOut

\* Two monitors sample side by side only if somebody called start() while a
\* stop_async() was waiting, whatever else users do on a loop that comes and goes.
THEOREM MonitorsNeverDouble == Spec => []OneMonitor
<1>1. Reachable => OneMonitor
  <2> SUFFICES ASSUME Reachable, ~crossed PROVE Cardinality(Working) <= 1
    BY DEF OneMonitor
  <2>1. Working = {} \/ Working = {task}
    BY DEF Reachable, Working
  <2>2. Cardinality({}) = 0 /\ Cardinality({task}) = 1
    BY FS_EmptySet, FS_Singleton
  <2>. QED
    BY <2>1, <2>2
<1>2. TypeOK /\ Reachable /\ WaitedOut /\ [Next]_vars
        => (TypeOK /\ Reachable /\ WaitedOut)'
  BY TypeStep, ReachableStep
<1>. QED
  BY <1>1, <1>2, TypeInit, ReachableInit, PTL DEF Spec

\* As long as no start() fails for want of a loop and no loop ends under its
\* monitor, is_running means that a monitor is at work, errors while measuring
\* and crossing stops included.
THEOREM RunningMeansMonitored == Spec => []RunningIsMonitored
<1>1. Init => RunningIsMonitored
  BY DEF Init, RunningIsMonitored
<1>2. TypeOK /\ RunningIsMonitored /\ [Next]_vars => RunningIsMonitored'
  <2> SUFFICES ASSUME TypeOK, RunningIsMonitored, [Next]_vars, running', ~deserted'
               PROVE  \E k \in Monitors : AtWork(k)'
    BY DEF RunningIsMonitored, Working
  <2>. USE DEF TypeOK, AtWork, Live, dataVars
  <2>1. ASSUME NEW u \in Users, Start(u) PROVE \E k \in Monitors : AtWork(k)'
    <3>1. Made + 1 \in Monitors
      BY <2>1, MadeType, MonitorAssumption DEF Start, Monitors, MonitorAssumption
    <3>2. mpc'[Made + 1] = "new"
      BY <2>1, <3>1 DEF Start
    <3>. QED
      BY <3>1, <3>2
  <2>2. ASSUME NEW u \in Users, StopAsyncReturns(u)
        PROVE  \E k \in Monitors : AtWork(k)'
    BY <2>2 DEF StopAsyncReturns, RunningIsMonitored, Working
  <2>3. ASSUME NEW u \in Users, StartWithoutLoop(u) \/ Stop(u) \/ StopWithoutLoop(u)
                                \/ StopAsync(u)
        PROVE  FALSE
    BY <2>3 DEF StartWithoutLoop, Stop, StopWithoutLoop, StopAsync
  <2>4. ASSUME NEW k \in Monitors, MonitorStep(k)
        PROVE  /\ running /\ ~deserted
               /\ \A m \in Monitors : AtWork(m) => AtWork(m)'
    BY <2>4 DEF MonitorStep, Proceed, AtHead, Sample, SampleFails, Dies, Goes,
                taskVars
  <2>5. CASE LoopPauses \/ LoopRuns \/ LoopEnds
    BY <2>5 DEF LoopPauses, LoopRuns, LoopEnds, RunningIsMonitored, Working
  <2>6. CASE UNCHANGED vars
    BY <2>6 DEF vars, taskVars, RunningIsMonitored, Working
  <2>. QED
    BY <2>1, <2>2, <2>3, <2>4, <2>5, <2>6 DEF Next, RunningIsMonitored, Working
<1>. QED
  BY <1>1, <1>2, TypeInit, TypeStep, PTL DEF Spec

-----------------------------------------------------------------------------
(* The history. *)

\* A sequence that ends like another one, sample by sample.
EndsLike(some, all) ==
    /\ Len(some) <= Len(all)
    /\ \A i \in 1..Len(some) : some[i] = all[Len(all) - Len(some) + i]

HistoryTail ==
    /\ Len(samples) = (IF Len(taken) < MaxHistory THEN Len(taken) ELSE MaxHistory)
    /\ EndsLike(samples, taken)
    /\ taken # <<>> => current = taken[Len(taken)]

\* Only a sample changes what is measured, remembered and logged.
LEMMA OnlySampleMeasures ==
    ASSUME [Next]_vars
    PROVE  \/ UNCHANGED dataVars
           \/ \E k \in Monitors : Sample(k)
<1>1. ASSUME NEW u \in Users, \/ Start(u) \/ StartWithoutLoop(u) \/ Stop(u)
                              \/ StopWithoutLoop(u) \/ StopAsync(u) \/ StopAsyncReturns(u)
      PROVE  UNCHANGED dataVars
  BY <1>1 DEF Start, StartWithoutLoop, Stop, StopWithoutLoop, StopAsync, StopAsyncReturns
<1>2. ASSUME NEW k \in Monitors, Proceed(k) \/ SampleFails(k) \/ Dies(k)
      PROVE  UNCHANGED dataVars
  BY <1>2 DEF Proceed, SampleFails, Dies
<1>3. LoopPauses \/ LoopEnds \/ LoopRuns \/ UNCHANGED vars => UNCHANGED dataVars
  BY DEF LoopPauses, LoopEnds, LoopRuns, vars
<1>. QED
  BY <1>1, <1>2, <1>3 DEF Next, MonitorStep

\* The newest sample comes to the end of the history and of all samples.
LEMMA KeepRecent ==
    ASSUME TypeOK, HistoryTail, NEW l \in Latencies, NEW all, all = Append(taken, l)
    PROVE  /\ Len(Keep(l)) = (IF Len(all) < MaxHistory THEN Len(all) ELSE MaxHistory)
           /\ EndsLike(Keep(l), all)
           /\ all[Len(all)] = l
<1> DEFINE more == Append(samples, l)
           last == Tail(more)
<1>1. /\ Len(samples) \in Nat /\ Len(taken) \in Nat /\ MaxHistory \in Nat \ {0}
      /\ samples \in Seq(Latencies) /\ taken \in Seq(Latencies)
  BY LenProperties, MonitorAssumption DEF TypeOK, MonitorAssumption
<1>2. /\ more \in Seq(Latencies) /\ Len(more) = Len(samples) + 1
      /\ \A i \in 1..Len(samples) : more[i] = samples[i]
      /\ more[Len(samples) + 1] = l /\ more # <<>>
  BY <1>1, AppendProperties
<1>3. /\ Len(all) = Len(taken) + 1 /\ all[Len(taken) + 1] = l
      /\ \A i \in 1..Len(taken) : all[i] = taken[i]
  BY <1>1, AppendProperties
<1>4. /\ Len(last) = Len(more) - 1
      /\ \A i \in 1..Len(last) : last[i] = more[i + 1]
  BY <1>2, HeadTailProperties
<1>5. Keep(l) = IF Len(more) > MaxHistory THEN last ELSE more
  BY DEF Keep
<1>6. /\ Len(samples) = (IF Len(taken) < MaxHistory THEN Len(taken) ELSE MaxHistory)
      /\ \A i \in 1..Len(samples) : samples[i] = taken[Len(taken) - Len(samples) + i]
  BY DEF HistoryTail, EndsLike
<1>. HIDE DEF more, last
<1>7. CASE Len(taken) < MaxHistory
  <2>1. Len(samples) = Len(taken) /\ Keep(l) = more /\ Len(more) = Len(all)
    BY <1>1, <1>2, <1>3, <1>5, <1>6, <1>7
  <2>2. \A i \in 1..Len(samples) : Len(taken) - Len(samples) + i = i
    BY <1>1, <2>1
  <2>3. \A i \in 1..Len(samples) : more[i] = all[i]
    BY <1>2, <1>3, <1>6, <2>1, <2>2
  <2>4. more[Len(samples) + 1] = all[Len(samples) + 1]
    BY <1>2, <1>3, <2>1
  <2>5. \A i \in 1..Len(more) : i \in 1..Len(samples) \/ i = Len(samples) + 1
    BY <1>1, <1>2
  <2>6. \A i \in 1..Len(more) : more[i] = all[i] /\ Len(all) - Len(more) + i = i
    <3>1. \A i \in 1..Len(more) : more[i] = all[i]
      BY <2>3, <2>4, <2>5
    <3>2. \A i \in 1..Len(more) : Len(all) - Len(more) + i = i
      BY <1>1, <1>3, <2>1
    <3>. QED
      BY <3>1, <3>2
  <2>7. Len(more) = (IF Len(all) < MaxHistory THEN Len(all) ELSE MaxHistory)
    BY <1>1, <1>3, <1>7, <2>1
  <2>. QED
    BY <1>1, <1>3, <2>1, <2>6, <2>7 DEF EndsLike
<1>8. CASE ~(Len(taken) < MaxHistory)
  <2>1. /\ Len(samples) = MaxHistory /\ Keep(l) = last /\ Len(last) = MaxHistory
        /\ Len(last) <= Len(all) /\ ~(Len(all) < MaxHistory)
    BY <1>1, <1>2, <1>3, <1>4, <1>5, <1>6, <1>8
  <2>2. ASSUME NEW i \in 1..Len(last) PROVE last[i] = all[Len(all) - Len(last) + i]
    <3>1. last[i] = more[i + 1]
      BY <1>4
    <3>2. CASE i = MaxHistory
      <4>1. i + 1 = Len(samples) + 1 /\ Len(all) - Len(last) + i = Len(taken) + 1
        BY <1>1, <1>3, <2>1, <3>2
      <4>. QED
        BY <1>2, <1>3, <3>1, <4>1
    <3>3. CASE i # MaxHistory
      <4>1. /\ i + 1 \in 1..Len(samples)
            /\ Len(taken) - Len(samples) + (i + 1) = Len(all) - Len(last) + i
            /\ Len(all) - Len(last) + i \in 1..Len(taken)
        BY <1>1, <1>3, <1>8, <2>1, <3>3
      <4>2. more[i + 1] = taken[Len(taken) - Len(samples) + (i + 1)]
        BY <1>2, <1>6, <4>1
      <4>. QED
        BY <1>3, <3>1, <4>1, <4>2
    <3>. QED
      BY <3>2, <3>3
  <2>. QED
    BY <1>3, <2>1, <2>2 DEF EndsLike
<1>. QED
  BY <1>7, <1>8

\* No step leaves a gap in the history.
LEMMA HistoryStep == TypeOK /\ HistoryTail /\ [Next]_vars => HistoryTail'
<1> SUFFICES ASSUME TypeOK, HistoryTail, [Next]_vars PROVE HistoryTail'
  OBVIOUS
<1>1. CASE UNCHANGED dataVars
  BY <1>1 DEF dataVars, HistoryTail, EndsLike
<1>2. ASSUME NEW k \in Monitors, Sample(k) PROVE HistoryTail'
  <2>1. PICK l \in Latencies : current' = l /\ samples' = Keep(l) /\ taken' = Append(taken, l)
    BY <1>2 DEF Sample
  <2>2. /\ Len(samples') = (IF Len(taken') < MaxHistory THEN Len(taken') ELSE MaxHistory)
        /\ EndsLike(samples', taken')
        /\ taken'[Len(taken')] = l
    BY <2>1, KeepRecent
  <2>. QED
    BY <2>1, <2>2 DEF HistoryTail, EndsLike
<1>. QED
  BY <1>1, <1>2, OnlySampleMeasures

\* The history is the most recent samples, and the snapshot the newest of them.
THEOREM HistoryIsTheNewest == Spec => []HistoryIsRecent
<1>1. Init => HistoryTail
  BY MonitorAssumption DEF Init, HistoryTail, EndsLike, MonitorAssumption
<1>2. TypeOK /\ HistoryTail /\ [Next]_vars => (TypeOK /\ HistoryTail)'
  BY TypeStep, HistoryStep
<1>3. TypeOK /\ HistoryTail => HistoryIsRecent
  <2> SUFFICES ASSUME TypeOK, HistoryTail
               PROVE  samples = SubSeq(taken, Len(taken) - Len(samples) + 1, Len(taken))
    BY DEF HistoryTail, HistoryIsRecent
  <2> DEFINE from == Len(taken) - Len(samples) + 1
             last == SubSeq(taken, from, Len(taken))
  <2>1. /\ Len(samples) \in Nat /\ Len(taken) \in Nat /\ Len(samples) <= Len(taken)
        /\ samples \in Seq(Latencies) /\ taken \in Seq(Latencies)
    BY LenProperties DEF TypeOK, HistoryTail, EndsLike
  <2>2. /\ from \in 1..(Len(taken) + 1) /\ Len(taken) - from + 1 = Len(samples)
        /\ \A i \in 1..Len(samples) : from + i - 1 = Len(taken) - Len(samples) + i
        /\ from <= Len(taken) \/ Len(samples) = 0
    BY <2>1
  <2>. HIDE DEF from
  <2>3. \A i \in from..Len(taken) : taken[i] \in Latencies
    BY <2>1, <2>2, ElementOfSeq
  <2>4. /\ last \in Seq(Latencies)
        /\ Len(last) = IF from <= Len(taken) THEN Len(taken) - from + 1 ELSE 0
        /\ \A i \in 1..(Len(taken) - from + 1) : last[i] = taken[from + i - 1]
    BY <2>1, <2>2, <2>3, SubSeqProperties
  <2>. HIDE DEF last
  <2>5. Len(last) = Len(samples)
    BY <2>1, <2>2, <2>4
  <2>6. \A i \in 1..Len(samples) : samples[i] = last[i]
    BY <2>2, <2>4 DEF HistoryTail, EndsLike
  <2>7. samples = last
    BY <2>1, <2>4, <2>5, <2>6, SeqEqual
  <2>. QED
    BY <2>7 DEF last, from
<1>. QED
  BY <1>1, <1>2, <1>3, TypeInit, PTL DEF Spec

-----------------------------------------------------------------------------
(* Alerts. *)

\* The number of the next sample.
NextSample == Len(taken) + 1

\* What the monitor remembers is what the samples of the episode called for; and a
\* warning is issued just when one is open.
Alerts ==
    /\ warned <=> WarningOpen(NextSample)
    /\ warned <=> \E i \in EpisodeBefore(NextSample) : taken[i] > Warning
    /\ alarmed <=> \E i \in EpisodeBefore(NextSample) : taken[i] > Critical
    /\ AlertsOncePerEpisode

\* One more sample changes nothing about the ones before it.
LEMMA PastStays ==
    ASSUME TypeOK, NEW l \in Latencies, taken' = Append(taken, l),
           NEW n, n = NextSample
    PROVE  /\ n \in Nat \ {0} /\ NextSample' = n + 1
           /\ DOMAIN taken = 1..(n - 1) /\ DOMAIN taken' = 1..n
           /\ taken'[n] = l /\ \A i \in 1..(n - 1) : taken'[i] = taken[i]
           /\ \A i \in 1..n : WarningOpen(i)' <=> WarningOpen(i)
           /\ \A i \in 1..(n - 1) : EndsEpisode(i)' <=> EndsEpisode(i)
           /\ EndsEpisode(n)' <=> WarningOpen(n) /\ l < Warning
           /\ \A i \in 1..n : EpisodeBefore(i)' = EpisodeBefore(i)
<1>1. /\ n \in Nat \ {0} /\ NextSample' = n + 1
      /\ DOMAIN taken = 1..(n - 1) /\ DOMAIN taken' = 1..n
      /\ taken'[n] = l /\ \A i \in 1..(n - 1) : taken'[i] = taken[i]
  <2>1. taken \in Seq(Latencies)
    BY DEF TypeOK
  <2>2. /\ Append(taken, l) \in Seq(Latencies)
        /\ Len(Append(taken, l)) = Len(taken) + 1
        /\ \A i \in 1..Len(taken) : Append(taken, l)[i] = taken[i]
        /\ Append(taken, l)[Len(taken) + 1] = l
    BY <2>1, AppendProperties
  <2>3. Len(taken) \in Nat /\ n = Len(taken) + 1 /\ n - 1 = Len(taken)
    BY <2>1, LenProperties DEF NextSample
  <2>. QED
    BY <2>1, <2>2, <2>3, LenProperties DEF NextSample
<1>2. ASSUME NEW i \in 1..n
      PROVE  WarningOpen(i)' <=> WarningOpen(i)
  <2>1. \A j \in 1..(i - 1) : j \in 1..(n - 1) /\ \A m \in j..(i - 1) : m \in 1..(n - 1)
    BY <1>1
  <2>. QED
    BY <1>1, <2>1 DEF WarningOpen
<1>3. ASSUME NEW i \in 1..(n - 1)
      PROVE  EndsEpisode(i)' <=> EndsEpisode(i)
  <2>1. i \in 1..n
    BY <1>1
  <2>. QED
    BY <1>1, <1>2, <2>1 DEF EndsEpisode
<1>4. EndsEpisode(n)' <=> WarningOpen(n) /\ l < Warning
  <2>1. n \in 1..n
    BY <1>1
  <2>2. EndsEpisode(n)' <=> WarningOpen(n)' /\ taken'[n] < Warning
    BY DEF EndsEpisode
  <2>. QED
    BY <1>1, <1>2, <2>1, <2>2
<1>5. ASSUME NEW i \in 1..n
      PROVE  EpisodeBefore(i)' = EpisodeBefore(i)
  <2>1. \A j \in 1..(i - 1) : \A m \in j..(i - 1) : m \in 1..(n - 1)
    BY <1>1
  <2>2. \A j \in 1..(i - 1) :
          (\A m \in j..(i - 1) : ~EndsEpisode(m)')
            <=> (\A m \in j..(i - 1) : ~EndsEpisode(m))
    BY <1>3, <2>1
  <2>. QED
    BY <2>2 DEF EpisodeBefore
<1>. QED
  BY <1>1, <1>2, <1>3, <1>4, <1>5

\* A sample over the warning threshold opens a warning, one below it closes it.
LEMMA WarningGoesOn ==
    ASSUME TypeOK, NEW l \in Latencies, taken' = Append(taken, l),
           NEW n, n = NextSample
    PROVE  WarningOpen(n + 1)'
             <=> l > Warning \/ (WarningOpen(n) /\ ~(l < Warning))
<1>1. /\ n \in Nat \ {0} /\ (n + 1) - 1 = n /\ l \in Nat /\ Warning \in Nat
      /\ taken'[n] = l /\ \A i \in 1..(n - 1) : taken'[i] = taken[i]
  BY PastStays, MonitorAssumption DEF MonitorAssumption
<1>2. WarningOpen(n + 1)'
        <=> \E j \in 1..n : taken'[j] > Warning /\ \A m \in j..n : taken'[m] >= Warning
  BY <1>1 DEF WarningOpen
<1>3. (\E j \in {n} : taken'[j] > Warning /\ \A m \in j..n : taken'[m] >= Warning)
        <=> l > Warning
  <2>1. \A m : m \in n..n <=> m = n
    BY <1>1
  <2>2. l > Warning => l >= Warning
    BY <1>1
  <2>. QED
    BY <1>1, <2>1, <2>2
<1>4. ASSUME NEW j \in 1..(n - 1)
      PROVE  (taken'[j] > Warning /\ \A m \in j..n : taken'[m] >= Warning)
               <=> (/\ taken[j] > Warning /\ \A m \in j..(n - 1) : taken[m] >= Warning
                    /\ l >= Warning)
  <2>1. \A m \in j..n : m = n \/ m \in j..(n - 1)
    BY <1>1
  <2>2. n \in j..n /\ \A m \in j..(n - 1) : m \in j..n /\ m \in 1..(n - 1)
    BY <1>1
  <2>. QED
    BY <1>1, <2>1, <2>2
<1>5. \A j : j \in 1..n <=> j \in 1..(n - 1) \/ j = n
  BY <1>1
<1>6. l >= Warning <=> ~(l < Warning)
  BY <1>1
<1>. QED
  BY <1>2, <1>3, <1>4, <1>5, <1>6 DEF WarningOpen

\* A sample belongs to the episode it comes in, and one that ends it starts another.
LEMMA EpisodeGoesOn ==
    ASSUME TypeOK, NEW l \in Latencies, taken' = Append(taken, l),
           NEW n, n = NextSample
    PROVE  EpisodeBefore(n + 1)' = IF WarningOpen(n) /\ l < Warning THEN {}
                                   ELSE EpisodeBefore(n) \cup {n}
<1>1. /\ n \in Nat \ {0} /\ (n + 1) - 1 = n
      /\ \A i \in 1..(n - 1) : EndsEpisode(i)' <=> EndsEpisode(i)
      /\ EndsEpisode(n)' <=> WarningOpen(n) /\ l < Warning
  BY PastStays
<1>2. EpisodeBefore(n + 1)' = {j \in 1..n : \A m \in j..n : ~EndsEpisode(m)'}
  BY <1>1 DEF EpisodeBefore
<1>3. ASSUME NEW j \in 1..(n - 1)
      PROVE  (\A m \in j..n : ~EndsEpisode(m)')
               <=> (\A m \in j..(n - 1) : ~EndsEpisode(m)) /\ ~EndsEpisode(n)'
  <2>1. \A m \in j..n : m = n \/ m \in j..(n - 1)
    BY <1>1
  <2>2. n \in j..n /\ \A m \in j..(n - 1) : m \in j..n /\ m \in 1..(n - 1)
    BY <1>1
  <2>. QED
    BY <1>1, <2>1, <2>2
<1>4. \A j \in {n} : (\A m \in j..n : ~EndsEpisode(m)') <=> ~EndsEpisode(n)'
  <2>1. \A m : m \in n..n <=> m = n
    BY <1>1
  <2>. QED
    BY <2>1
<1>5. \A j : j \in 1..n <=> j \in 1..(n - 1) \/ j = n
  BY <1>1
<1>6. \A j : j \in EpisodeBefore(n + 1)'
               <=> j \in EpisodeBefore(n) \cup {n} /\ ~EndsEpisode(n)'
  BY <1>2, <1>3, <1>4, <1>5 DEF EpisodeBefore
<1>. QED
  BY <1>1, <1>6

\* What is to be logged: as before, and the new sample if it is over the threshold as
\* the first of its episode.
LEMMA FirstOverGrows ==
    ASSUME TypeOK, NEW l \in Latencies, taken' = Append(taken, l),
           NEW n, n = NextSample, NEW threshold \in Nat
    PROVE  FirstOver(threshold)' =
             FirstOver(threshold) \cup
               (IF l > threshold /\ ~\E j \in EpisodeBefore(n) : taken[j] > threshold
                THEN {n} ELSE {})
<1>1. /\ n \in Nat \ {0} /\ DOMAIN taken = 1..(n - 1) /\ DOMAIN taken' = 1..n
      /\ taken'[n] = l /\ \A i \in 1..(n - 1) : taken'[i] = taken[i]
      /\ \A i \in 1..n : EpisodeBefore(i)' = EpisodeBefore(i)
  BY PastStays
<1>2. \A i \in 1..n : \A j \in EpisodeBefore(i) : j \in 1..(n - 1)
  BY <1>1 DEF EpisodeBefore
<1>3. \A i \in 1..n : (\E j \in EpisodeBefore(i)' : taken'[j] > threshold)
                        <=> (\E j \in EpisodeBefore(i) : taken[j] > threshold)
  BY <1>1, <1>2
<1>4. \A i : i \in 1..n <=> i \in 1..(n - 1) \/ i = n
  BY <1>1
<1>5. \A i : i \in FirstOver(threshold)'
               <=> \/ i \in FirstOver(threshold)
                   \/ /\ i = n /\ l > threshold
                      /\ ~\E j \in EpisodeBefore(n) : taken[j] > threshold
  <2>1. FirstOver(threshold)' =
          {i \in 1..n : /\ taken'[i] > threshold
                        /\ ~\E j \in EpisodeBefore(i)' : taken'[j] > threshold}
    BY <1>1 DEF FirstOver
  <2>2. FirstOver(threshold) =
          {i \in 1..(n - 1) : /\ taken[i] > threshold
                              /\ ~\E j \in EpisodeBefore(i) : taken[j] > threshold}
    BY <1>1 DEF FirstOver
  <2>3. ASSUME NEW i \in 1..(n - 1)
        PROVE  i \in FirstOver(threshold)' <=> i \in FirstOver(threshold)
    BY <1>1, <1>3, <1>4, <2>1, <2>2
  <2>4. n \notin 1..(n - 1)
    BY <1>1
  <2>5. n \in FirstOver(threshold)'
          <=> l > threshold /\ ~\E j \in EpisodeBefore(n) : taken[j] > threshold
    BY <1>1, <1>3, <1>4, <2>1
  <2>. QED
    BY <1>4, <2>1, <2>2, <2>3, <2>4, <2>5
<1>. QED
  BY <1>5

\* Every sample logs what its episode calls for and no more, and the flags remember it.
LEMMA AlertsStep == TypeOK /\ Alerts /\ [Next]_vars => Alerts'
<1> SUFFICES ASSUME TypeOK, Alerts, [Next]_vars PROVE Alerts'
  OBVIOUS
<1>1. CASE UNCHANGED dataVars
  BY <1>1 DEF dataVars, Alerts, AlertsOncePerEpisode, NextSample, WarningOpen,
              EndsEpisode, EpisodeBefore, FirstOver
<1>2. ASSUME NEW k \in Monitors, Sample(k) PROVE Alerts'
  <2>1. PICK l \in Latencies : Reset(l) /\ logged' = Logs(l) /\ taken' = Append(taken, l)
    BY <1>2 DEF Sample
  <2>2. PICK n : n = NextSample
    OBVIOUS
  <2> DEFINE over(c)  == \E i \in EpisodeBefore(n) : taken[i] > c
             ends     == WarningOpen(n) /\ l < Warning
             after(c) == \E i \in EpisodeBefore(n + 1)' : taken'[i] > c
  <2>3. /\ warned <=> WarningOpen(n)
        /\ warned <=> over(Warning)
        /\ alarmed <=> over(Critical)
        /\ logged = [warnings |-> FirstOver(Warning), errors |-> FirstOver(Critical)]
    BY <2>2 DEF Alerts, AlertsOncePerEpisode
  <2>4. /\ n \in Nat \ {0} /\ NextSample' = n + 1 /\ taken'[n] = l
        /\ \A i \in 1..(n - 1) : taken'[i] = taken[i]
    BY <2>1, <2>2, PastStays
  <2>5. /\ EpisodeBefore(n + 1)' = IF ends THEN {} ELSE EpisodeBefore(n) \cup {n}
        /\ WarningOpen(n + 1)' <=> l > Warning \/ (WarningOpen(n) /\ ~(l < Warning))
    BY <2>1, <2>2, WarningGoesOn, EpisodeGoesOn
  <2>6. ASSUME NEW c \in Nat
        PROVE  after(c) <=> (over(c) \/ l > c) /\ ~ends
    <3>1. \A i \in EpisodeBefore(n) : taken'[i] = taken[i]
      BY <2>4 DEF EpisodeBefore
    <3>. QED
      BY <2>4, <2>5, <3>1
  <2>7. /\ l \in Nat /\ Warning \in Nat /\ Critical \in Nat
        /\ warned \in BOOLEAN /\ alarmed \in BOOLEAN
    BY MonitorAssumption DEF MonitorAssumption, TypeOK
  <2>8. l > Warning => ~(l < Warning)
    BY <2>7
  <2>. HIDE DEF over, ends, after
  <2>9. /\ warned' <=> WarningOpen(n + 1)'
        /\ warned' <=> after(Warning)
        /\ alarmed' <=> after(Critical)
    <3>1. /\ warned' <=> (warned \/ l > Warning) /\ ~(l < Warning)
          /\ alarmed' <=> (alarmed \/ l > Critical)
                            /\ ~((warned \/ l > Warning) /\ l < Warning)
      BY <2>1, <2>7 DEF Reset
    <3>2. ends <=> warned /\ l < Warning
      BY <2>3 DEF ends
    <3>3. after(Warning) <=> (over(Warning) \/ l > Warning) /\ ~ends
      BY <2>6, <2>7
    <3>4. after(Critical) <=> (over(Critical) \/ l > Critical) /\ ~ends
      BY <2>6, <2>7
    <3>. QED
      BY <2>3, <2>5, <2>8, <3>1, <3>2, <3>3, <3>4
  <2>10. ASSUME NEW c \in Nat
         PROVE  FirstOver(c)' =
                  FirstOver(c) \cup (IF l > c /\ ~over(c) THEN {n} ELSE {})
    BY <2>1, <2>2, FirstOverGrows DEF over
  <2>11. AlertsOncePerEpisode'
    <3>1. /\ logged'.warnings = FirstOver(Warning) \cup
               (IF l > Warning /\ ~over(Warning) THEN {n} ELSE {})
          /\ logged'.errors = FirstOver(Critical) \cup
               (IF l > Critical /\ ~over(Critical) THEN {n} ELSE {})
          /\ logged' = [warnings |-> logged'.warnings, errors |-> logged'.errors]
      BY <2>1, <2>2, <2>3 DEF Logs, NextSample
    <3>2. /\ logged'.warnings = FirstOver(Warning)'
          /\ logged'.errors = FirstOver(Critical)'
      BY <2>7, <2>10, <3>1
    <3>. QED
      BY <3>1, <3>2 DEF AlertsOncePerEpisode
  <2>. QED
    BY <2>4, <2>9, <2>11 DEF Alerts, after
<1>. QED
  BY <1>1, <1>2, OnlySampleMeasures

\* Each kind of alert is logged at the first sample of an episode that calls for it and
\* at no other, whichever of the two thresholds is the higher one.
THEOREM AlertsAreOnce == Spec => []AlertsOncePerEpisode
<1>1. Init => Alerts
  <2> SUFFICES ASSUME Init PROVE Alerts
    OBVIOUS
  <2>1. NextSample = 1 /\ DOMAIN taken = {}
    BY EmptySeq DEF Init, NextSample
  <2>2. ~WarningOpen(1) /\ EpisodeBefore(1) = {}
    BY DEF WarningOpen, EpisodeBefore
  <2>3. FirstOver(Warning) = {} /\ FirstOver(Critical) = {}
    BY <2>1 DEF FirstOver
  <2>. QED
    BY <2>1, <2>2, <2>3 DEF Init, Alerts, AlertsOncePerEpisode
<1>2. TypeOK /\ Alerts /\ [Next]_vars => (TypeOK /\ Alerts)'
  BY TypeStep, AlertsStep
<1>3. Alerts => AlertsOncePerEpisode
  BY DEF Alerts
<1>. QED
  BY <1>1, <1>2, <1>3, TypeInit, PTL DEF Spec
=============================================================================
