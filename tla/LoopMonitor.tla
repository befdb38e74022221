----------------------------- MODULE LoopMonitor -----------------------------
(***************************************************************************)
(* observability/loop_monitor.py: EventLoopMonitor, the monitor tasks it   *)
(* makes, and the tasks or plain callers that start and stop it.  A        *)
(* monitor task suspends in sleep(0), which is where a latency is measured,*)
(* and in sleep(sample_interval); stop_async() suspends on the monitor     *)
(* task.  A task that has been cancelled dies the next time it runs.  The  *)
(* methods can also be called while no event loop runs.                    *)
(***************************************************************************)
EXTENDS Integers, Sequences, FiniteSets

CONSTANTS Users,       \* those who call start, stop and stop_async
          Latencies,   \* latencies that are measured
          Warning,     \* warning_threshold_ms
          Critical,    \* critical_threshold_ms
          MaxHistory,  \* samples kept, 100 in the code
          MaxStarts,   \* bound: monitor tasks made
          MaxSamples,  \* bound: samples taken
          MaxLoops     \* bound: times the event loop is left

ASSUME MonitorAssumption ==
    /\ IsFiniteSet(Users) /\ Latencies \subseteq Nat
    /\ Warning \in Nat /\ Critical \in Nat
    /\ MaxHistory \in Nat \ {0} /\ MaxStarts \in Nat
    /\ MaxSamples \in Nat /\ MaxLoops \in Nat

VARIABLES
    loop,      \* an event loop is running
    running,   \* _running
    task,      \* _monitor_task: the number of a monitor, 0 for None
    mpc,       \* where each monitor task is
    upc,       \* the monitor each user awaits in stop_async, 0 for none
    samples,   \* the latencies in _metrics_history
    current,   \* _current_latency_ms
    warned,    \* _warning_issued
    alarmed,   \* _critical_issued
    taken,     \* history: every latency sampled
    logged,    \* history: the samples at which a warning, and an error, was logged
    crossed,   \* history: a start() came while a stop_async() was waiting
    deserted,  \* history: start() found no loop, or the loop ended under a monitor
    loops      \* bound

taskVars == <<loop, running, task, upc, crossed, deserted, loops>>
dataVars == <<samples, current, warned, alarmed, taken, logged>>
vars == <<taskVars, mpc, dataVars>>

Monitors == 1..MaxStarts
Live(k)  == mpc[k] \notin {"unborn", "done"}
Born     == {k \in Monitors : mpc[k] # "unborn"}
Made     == Cardinality(Born)

Init ==
    /\ loop = TRUE /\ running = FALSE /\ task = 0
    /\ mpc = [k \in Monitors |-> "unborn"]
    /\ upc = [u \in Users |-> 0]
    /\ samples = <<>> /\ current = 0 /\ warned = FALSE /\ alarmed = FALSE
    /\ taken = <<>> /\ logged = [warnings |-> {}, errors |-> {}]
    /\ crossed = FALSE /\ deserted = FALSE /\ loops = 0

Free(u) == upc[u] = 0

-----------------------------------------------------------------------------
(* start, stop, stop_async *)

Start(u) ==
    /\ Free(u) /\ loop /\ ~running /\ Made < MaxStarts
    /\ running' = TRUE
    /\ task' = Made + 1
    /\ mpc' = [mpc EXCEPT ![Made + 1] = "new"]
    /\ crossed' = (crossed \/ \E v \in Users : ~Free(v))
    /\ UNCHANGED <<loop, upc, deserted, loops, dataVars>>

\* create_task raises, but _running is set already.
StartWithoutLoop(u) ==
    /\ Free(u) /\ ~loop /\ ~running
    /\ running' = TRUE /\ deserted' = TRUE
    /\ UNCHANGED <<loop, task, mpc, upc, crossed, loops, dataVars>>

\* Mutant of Cancel: the task is left to find out by itself.
CancelNothing(k) == mpc

\* Task.cancel(): CancelledError is the next thing the task sees.
Cancel(k) == IF k # 0 /\ Live(k) THEN [mpc EXCEPT ![k] = "doomed"] ELSE mpc

\* With a loop, stop() only cancels the task.
Stop(u) ==
    /\ Free(u) /\ loop /\ running
    /\ running' = FALSE /\ task' = 0
    /\ mpc' = Cancel(task)
    /\ UNCHANGED <<loop, upc, crossed, deserted, loops, dataVars>>

\* Without one it runs the task's loop until the task has ended.
StopWithoutLoop(u) ==
    /\ Free(u) /\ ~loop /\ running
    /\ running' = FALSE /\ task' = 0
    /\ mpc' = IF task = 0 THEN mpc ELSE [mpc EXCEPT ![task] = "done"]
    /\ UNCHANGED <<loop, upc, crossed, deserted, loops, dataVars>>

StopAsync(u) ==
    /\ Free(u) /\ loop /\ running
    /\ running' = FALSE
    /\ mpc' = Cancel(task)
    /\ upc' = [upc EXCEPT ![u] = task]
    /\ UNCHANGED <<loop, task, crossed, deserted, loops, dataVars>>

\* The await ends, or the waiting user is cancelled: suppress() hides both.
StopAsyncReturns(u) ==
    /\ loop /\ ~Free(u)
    /\ upc' = [upc EXCEPT ![u] = 0]
    /\ task' = 0
    /\ UNCHANGED <<loop, running, mpc, crossed, deserted, loops, dataVars>>

-----------------------------------------------------------------------------
(* The monitor task. *)

Goes(k, place) == mpc' = [mpc EXCEPT ![k] = place]

\* Mutant of AtHead: the loop does not look at _running.
AtHeadAlways(k) == Goes(k, "measuring")

\* The head of the loop.
AtHead(k) == Goes(k, IF running THEN "measuring" ELSE "done")

Proceed(k) ==
    /\ loop /\ mpc[k] \in {"new", "sleeping"}
    /\ AtHead(k)
    /\ UNCHANGED <<taskVars, dataVars>>

\* Mutant of Reset: only the warning is rearmed.
ResetWarning(l) ==
    /\ warned' = ((warned \/ l > Warning) /\ ~(l < Warning))
    /\ alarmed' = (alarmed \/ l > Critical)

\* What _check_thresholds remembers: both alerts are rearmed by a sample below
\* the warning threshold, if a warning has been issued.
Reset(l) ==
    LET over == warned \/ l > Warning
    IN  /\ warned' = (over /\ ~(l < Warning))
        /\ alarmed' = ((alarmed \/ l > Critical) /\ ~(over /\ l < Warning))

\* What it logs at this sample, looking at the flags of before.
Logs(l) ==
    LET this(threshold, issued) ==
          IF l > threshold /\ ~issued THEN {Len(taken) + 1} ELSE {}
    IN  [warnings |-> logged.warnings \cup this(Warning, warned),
         errors   |-> logged.errors \cup this(Critical, alarmed)]

\* Mutant of Keep: the newest sample goes.
KeepOldest(l) == IF Len(samples) = MaxHistory THEN samples ELSE Append(samples, l)

Keep(l) ==
    LET more == Append(samples, l)
    IN  IF Len(more) > MaxHistory THEN Tail(more) ELSE more

Sample(k) ==
    /\ loop /\ mpc[k] = "measuring" /\ Len(taken) < MaxSamples
    /\ \E l \in Latencies :
         /\ Reset(l) /\ logged' = Logs(l)
         /\ current' = l /\ samples' = Keep(l)
         /\ taken' = Append(taken, l)
    /\ Goes(k, "sleeping")
    /\ UNCHANGED taskVars

\* Mutant of SampleFails: the exception is not caught.
SampleFailureKills(k) ==
    /\ loop /\ mpc[k] = "measuring"
    /\ Goes(k, "done")
    /\ UNCHANGED <<taskVars, dataVars>>

\* An exception while measuring is logged, and the monitor goes on.
SampleFails(k) ==
    /\ loop /\ mpc[k] = "measuring"
    /\ Goes(k, "sleeping")
    /\ UNCHANGED <<taskVars, dataVars>>

Dies(k) ==
    /\ loop /\ mpc[k] = "doomed"
    /\ Goes(k, "done")
    /\ UNCHANGED <<taskVars, dataVars>>

-----------------------------------------------------------------------------
(* The event loop: it pauses, or ends and takes its tasks with it. *)

LoopPauses ==
    /\ loop /\ loops < MaxLoops /\ loops' = loops + 1
    /\ loop' = FALSE
    /\ UNCHANGED <<running, task, mpc, upc, crossed, deserted, dataVars>>

LoopEnds ==
    /\ loop /\ loops < MaxLoops /\ loops' = loops + 1
    /\ loop' = FALSE
    /\ mpc' = [k \in Monitors |-> IF Live(k) THEN "done" ELSE mpc[k]]
    /\ upc' = [u \in Users |-> 0]
    /\ task' = IF \E u \in Users : ~Free(u) THEN 0 ELSE task
    /\ deserted' = TRUE
    /\ UNCHANGED <<running, crossed, dataVars>>

LoopRuns ==
    /\ ~loop /\ loop' = TRUE
    /\ UNCHANGED <<running, task, mpc, upc, crossed, deserted, loops, dataVars>>

-----------------------------------------------------------------------------
MonitorStep(k) == Proceed(k) \/ Sample(k) \/ SampleFails(k) \/ Dies(k)

Next ==
    \/ \E u \in Users :
         \/ Start(u) \/ StartWithoutLoop(u) \/ Stop(u) \/ StopWithoutLoop(u)
         \/ StopAsync(u) \/ StopAsyncReturns(u)
    \/ \E k \in Monitors : MonitorStep(k)
    \/ LoopPauses \/ LoopEnds \/ LoopRuns

Spec == Init /\ [][Next]_vars

\* While the event loop runs it runs every task that is ready; a sleep ends.
FairSpec == Spec /\ \A k \in Monitors : WF_vars(MonitorStep(k))

-----------------------------------------------------------------------------
(* Properties. *)

\* Every variable stays in its range.
TypeOK ==
    /\ loop \in BOOLEAN /\ running \in BOOLEAN
    /\ task \in 0..MaxStarts /\ upc \in [Users -> 0..MaxStarts]
    /\ mpc \in [Monitors -> {"unborn", "new", "measuring", "sleeping", "doomed",
                             "done"}]
    /\ samples \in Seq(Latencies) /\ Len(samples) <= MaxHistory
    /\ taken \in Seq(Latencies)
    /\ current \in Latencies \cup {0}
    /\ warned \in BOOLEAN /\ alarmed \in BOOLEAN
    /\ logged \in [warnings : SUBSET Nat, errors : SUBSET Nat]
    /\ crossed \in BOOLEAN /\ deserted \in BOOLEAN /\ loops \in Nat

\* The monitors that will sample again if nobody stops them.
AtWork(k) == Live(k) /\ mpc[k] # "doomed"
Working   == {k \in Monitors : AtWork(k)}

\* Lines 240-283: two monitors sample side by side only if somebody called
\* start() while a stop_async() was waiting for the monitor before.
OneMonitor == ~crossed => Cardinality(Working) <= 1

\* Lines 240-247: is_running without a monitor at work needs a start() without
\* an event loop, or a loop that ended under its monitor.
RunningIsMonitored == running /\ ~deserted => Working # {}

\* Lines 206-213: the history is the most recent samples, from whichever
\* monitor, and the snapshot is the newest of them.
HistoryIsRecent ==
    /\ Len(samples) = (IF Len(taken) < MaxHistory THEN Len(taken) ELSE MaxHistory)
    /\ samples = SubSeq(taken, Len(taken) - Len(samples) + 1, Len(taken))
    /\ taken # <<>> => current = taken[Len(taken)]

\* Before sample i a latency over the warning threshold has not come back below it.
WarningOpen(i) ==
    \E j \in 1..(i - 1) :
        taken[j] > Warning /\ \A m \in j..(i - 1) : taken[m] >= Warning

\* Sample i ends an episode: it is the first one back below the warning threshold.
EndsEpisode(i) == WarningOpen(i) /\ taken[i] < Warning

\* The samples before i in the same episode.
EpisodeBefore(i) ==
    {j \in 1..(i - 1) : \A m \in j..(i - 1) : ~EndsEpisode(m)}

FirstOver(threshold) ==
    {i \in DOMAIN taken :
        taken[i] > threshold /\ ~\E j \in EpisodeBefore(i) : taken[j] > threshold}

\* Lines 148-166: in each episode, which lasts until the latency is back below the
\* warning threshold after a warning, every kind of alert is logged at the first
\* sample that calls for it and at no other.  (Should the warning threshold be the
\* higher one, then a spell over the critical threshold alone ends no episode: the
\* error stays issued until a warning has come and gone.)
AlertsOncePerEpisode ==
    logged = [warnings |-> FirstOver(Warning), errors |-> FirstOver(Critical)]

\* Lines 178 and 249-283: after a stop every monitor task ends, also one that
\* nobody cancelled, unless the monitor is started again or the event loop left.
StoppedEnds == ~running ~> running \/ ~loop \/ \A k \in Monitors : ~Live(k)
=============================================================================
