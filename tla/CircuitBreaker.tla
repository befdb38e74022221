--------------------------- MODULE CircuitBreaker ---------------------------
(***************************************************************************)
(* patterns/circuit_breaker.py: the CircuitBreaker async context manager.  *)
(*                                                                         *)
(* Each caller is an asyncio task that runs `async with breaker: ...` any  *)
(* number of times.  The breaker's asyncio.Lock is never held across an    *)
(* await, so it is never contended and `async with self._lock` never       *)
(* suspends: the only point at which another task can run inside           *)
(* __aenter__ is the 1 ms wait for a probe permit, and __aexit__,          *)
(* record_latency and reset are atomic.                                    *)
(*                                                                         *)
(* time.monotonic() is the integer `now`, in units far longer than 1 ms.   *)
(* With LoopMayBlock = FALSE the event loop is responsive: a 1 ms wait is  *)
(* over before the clock ticks.  With TRUE the loop may be blocked for a   *)
(* whole unit while a task waits for its permit.                           *)
(***************************************************************************)
EXTENDS Integers, Sequences, FiniteSets, AsyncSemaphore

CONSTANTS
    Callers,            \* the tasks that use the breaker
    FailureThreshold,   \* failure_threshold
    RateNum, RateDen,   \* error_rate_threshold = RateNum / RateDen
    RateMinimum,        \* the literal 10 of line 177
    HalfOpenMaxCalls,   \* half_open_max_calls
    OpenStateDuration,  \* open_state_duration
    ProbeCount,         \* probe_count
    WindowDuration,     \* window_duration
    LoopMayBlock,       \* may the clock tick during a 1 ms wait?
    MaxTime,            \* bound: the clock stops here
    MaxOps              \* bound: calls of __aenter__, record_latency, reset

\* `x or default` in the constructor replaces a zero by the default for every
\* parameter but probe_count, and a negative duration makes no sense.
ASSUME BreakerAssumption ==
    /\ IsFiniteSet(Callers)
    /\ FailureThreshold \in Nat \ {0}
    /\ RateNum \in Nat \ {0} /\ RateDen \in Nat \ {0}
    /\ RateMinimum \in Nat \ {0}
    /\ HalfOpenMaxCalls \in Nat \ {0}
    /\ OpenStateDuration \in Nat \ {0}
    /\ ProbeCount \in Nat
    /\ WindowDuration \in Nat \ {0}
    /\ LoopMayBlock \in BOOLEAN
    /\ MaxTime \in Nat /\ MaxOps \in Nat

VARIABLES
    now,              \* time.monotonic()
    state,            \* _state
    lastChange,       \* _last_state_change
    window,           \* _request_window, oldest first
    halfOpenSuccess,  \* _half_open_success_count
    sems,             \* every probe semaphore made so far, oldest first
    cur,              \* _half_open_semaphore: an index into sems, 0 for None
    metrics,          \* the counters get_metrics() reports
    pc,               \* where each caller is
    waitsOn,          \* the semaphore a waiting caller is parked on, or 0
    held,             \* _half_open_acquired in the caller's context, or 0
    probeOf,          \* history: the semaphore that admitted the caller, or 0
    log,              \* history: every outcome since the last reset
    ops               \* bound: operations started

breakerVars == <<state, lastChange, halfOpenSuccess, cur>>
callerVars  == <<pc, waitsOn, held, probeOf>>
vars == <<now, window, sems, metrics, log, ops, breakerVars, callerVars>>

States  == {"CLOSED", "OPEN", "HALF_OPEN"}
Outcome == [at : Nat, failed : BOOLEAN]
None    == -1   \* _last_failure_timestamp before any failure

Metrics == [failures : Nat, successes : Nat, requests : Nat, rejected : Nat,
            lastFailure : Nat \cup {None}]

NoMetrics == [failures |-> 0, successes |-> 0, requests |-> 0, rejected |-> 0,
              lastFailure |-> None]

-----------------------------------------------------------------------------
(* The sliding window. *)

\* popleft() as long as the oldest entry is older than the cutoff.
DropOlder(w, cutoff) ==
    LET expired == {i \in 1..Len(w) : \A j \in 1..i : w[j].at < cutoff}
    IN  SubSeq(w, Cardinality(expired) + 1, Len(w))

\* Mutant of Pruned: an entry exactly window_duration old is dropped too.
PrunedAtCutoff(w) == DropOlder(w, now - WindowDuration + 1)

Pruned(w) == DropOlder(w, now - WindowDuration)

Failures(w) == Cardinality({i \in 1..Len(w) : w[i].failed})

RateReached(w) ==
    /\ Len(w) >= RateMinimum
    /\ RateDen * Failures(w) >= RateNum * Len(w)

\* Mutant of ShouldOpen: failure_threshold has to be exceeded, not reached.
ShouldOpenBeyond(w) ==
    w # <<>> /\ (Failures(w) > FailureThreshold \/ RateReached(w))

\* _should_open(), on a window that has just been pruned.
ShouldOpen(w) ==
    w # <<>> /\ (Failures(w) >= FailureThreshold \/ RateReached(w))

-----------------------------------------------------------------------------
Init ==
    /\ now = 0 /\ lastChange = 0
    /\ state = "CLOSED"
    /\ window = <<>> /\ log = <<>>
    /\ halfOpenSuccess = 0
    /\ sems = <<>> /\ cur = 0
    /\ metrics = NoMetrics
    /\ pc = [c \in Callers |-> "idle"]
    /\ waitsOn = [c \in Callers |-> 0]
    /\ held = [c \in Callers |-> 0]
    /\ probeOf = [c \in Callers |-> 0]
    /\ ops = 0

Begin == ops < MaxOps /\ ops' = ops + 1

CooledDown == now - lastChange >= OpenStateDuration

-----------------------------------------------------------------------------
(* __aenter__ *)

EnterClosed(c) ==
    /\ pc[c] = "idle" /\ state = "CLOSED"
    /\ Begin
    /\ pc' = [pc EXCEPT ![c] = "inside"]
    /\ UNCHANGED <<now, window, sems, metrics, log, breakerVars,
                   waitsOn, held, probeOf>>

EnterOpen(c) ==
    /\ pc[c] = "idle" /\ state = "OPEN" /\ ~CooledDown
    /\ Begin
    /\ metrics' = [metrics EXCEPT !.rejected = @ + 1]
    /\ UNCHANGED <<now, window, sems, log, breakerVars, callerVars>>

\* The caller takes a permit of semaphore k of pool, or parks on it.
AcquireProbe(c, pool, k) ==
    \/ /\ CanAcquire(pool[k])
       /\ sems' = [pool EXCEPT ![k] = TakePermit(@)]
       /\ pc' = [pc EXCEPT ![c] = "inside"]
       /\ held' = [held EXCEPT ![c] = k]
       /\ probeOf' = [probeOf EXCEPT ![c] = k]
       /\ UNCHANGED waitsOn
    \/ /\ ~CanAcquire(pool[k])
       /\ sems' = [pool EXCEPT ![k] = Park(@, c)]
       /\ pc' = [pc EXCEPT ![c] = "waiting"]
       /\ waitsOn' = [waitsOn EXCEPT ![c] = k]
       /\ UNCHANGED <<held, probeOf>>

\* The first caller after the cool-down starts a half-open period.
EnterAfterCoolDown(c) ==
    /\ pc[c] = "idle" /\ state = "OPEN" /\ CooledDown
    /\ Begin
    /\ state' = "HALF_OPEN"
    /\ lastChange' = now
    /\ halfOpenSuccess' = 0
    /\ cur' = Len(sems) + 1
    /\ AcquireProbe(c, Append(sems, NewSemaphore(ProbeCount)), Len(sems) + 1)
    /\ UNCHANGED <<now, window, metrics, log>>

\* Line 259, which makes a semaphore for a HALF_OPEN breaker that has none,
\* is left out: HalfOpenHasSemaphore shows it is never reached.
EnterHalfOpen(c) ==
    /\ pc[c] = "idle" /\ state = "HALF_OPEN"
    /\ Begin
    /\ AcquireProbe(c, sems, cur)
    /\ UNCHANGED <<now, window, metrics, log, breakerVars>>

\* The wait for a permit succeeds.  Nothing looks at the state again, and the
\* permit is remembered as one of the semaphore that is current by then.
Remember(c) == held' = [held EXCEPT ![c] = cur]

ResumeProbe(c) ==
    /\ pc[c] = "waiting"
    /\ \E i \in WokenPlaces(sems[waitsOn[c]], c) :
         sems' = [sems EXCEPT ![waitsOn[c]] = Resume(@, i)]
    /\ pc' = [pc EXCEPT ![c] = "inside"]
    /\ Remember(c)
    /\ probeOf' = [probeOf EXCEPT ![c] = waitsOn[c]]
    /\ waitsOn' = [waitsOn EXCEPT ![c] = 0]
    /\ UNCHANGED <<now, window, metrics, log, ops, breakerVars>>

\* Mutant of LeaveQueue: a caller that gives up releases as if it had a permit.
LeaveQueueReleasing(c) ==
    /\ pc[c] = "waiting"
    /\ \E i \in Places(sems[waitsOn[c]], c) :
         sems' = [sems EXCEPT ![waitsOn[c]] = Release(GiveUp(@, i))]
    /\ pc' = [pc EXCEPT ![c] = "idle"]
    /\ waitsOn' = [waitsOn EXCEPT ![c] = 0]
    /\ UNCHANGED <<now, window, log, ops, breakerVars, held, probeOf>>

LeaveQueue(c) ==
    /\ pc[c] = "waiting"
    /\ \E i \in Places(sems[waitsOn[c]], c) :
         sems' = [sems EXCEPT ![waitsOn[c]] = GiveUp(@, i)]
    /\ pc' = [pc EXCEPT ![c] = "idle"]
    /\ waitsOn' = [waitsOn EXCEPT ![c] = 0]
    /\ UNCHANGED <<now, window, log, ops, breakerVars, held, probeOf>>

\* wait_for runs out: the caller is rejected.
TimeOut(c) ==
    /\ LeaveQueue(c)
    /\ metrics' = [metrics EXCEPT !.rejected = @ + 1]

\* The waiting task itself is cancelled: not a rejection.
CancelWait(c) == LeaveQueue(c) /\ UNCHANGED metrics

-----------------------------------------------------------------------------
(* __aexit__, record_latency, reset *)

ReleaseHeld(c) ==
    sems' = IF held[c] = 0 THEN sems
            ELSE [sems EXCEPT ![held[c]] = Release(@)]

\* Mutant of ReturnPermit: the context is cleared but nothing is released.
ReturnNothing(c) == UNCHANGED sems /\ held' = [held EXCEPT ![c] = 0]

\* The permit the caller's context remembers goes back.
ReturnPermit(c) == ReleaseHeld(c) /\ held' = [held EXCEPT ![c] = 0]

Leave(c) ==
    /\ pc[c] = "inside"
    /\ pc' = [pc EXCEPT ![c] = "idle"]
    /\ ReturnPermit(c)
    /\ probeOf' = [probeOf EXCEPT ![c] = 0]
    /\ UNCHANGED waitsOn

Record(failed) == [at |-> now, failed |-> failed]

\* A failure is recorded, the window is pruned, and the breaker opens if the
\* window says so, whatever state it is in: an OPEN breaker starts afresh.
FailAndTryOpen ==
    LET w == Pruned(Append(window, Record(TRUE)))
    IN  /\ window' = w
        /\ log' = Append(log, Record(TRUE))
        /\ IF ShouldOpen(w)
           THEN state' = "OPEN" /\ lastChange' = now
           ELSE UNCHANGED <<state, lastChange>>
        /\ UNCHANGED <<halfOpenSuccess, cur>>

ExitFailure(c) ==
    /\ Leave(c)
    /\ metrics' = [metrics EXCEPT !.requests = @ + 1, !.failures = @ + 1,
                                  !.lastFailure = now]
    /\ \/ /\ state # "HALF_OPEN"
          /\ FailAndTryOpen
       \/ /\ state = "HALF_OPEN"
          /\ window' = Append(window, Record(TRUE))
          /\ log' = Append(log, Record(TRUE))
          /\ state' = "OPEN"
          /\ lastChange' = now
          /\ halfOpenSuccess' = 0
          /\ UNCHANGED cur
    /\ UNCHANGED <<now, ops>>

\* Mutant of ProbeSucceeded: the success just counted is not looked at.
ProbeSucceededLate ==
    /\ halfOpenSuccess' = halfOpenSuccess + 1
    /\ IF halfOpenSuccess >= HalfOpenMaxCalls
       THEN state' = "CLOSED" /\ lastChange' = now
       ELSE UNCHANGED <<state, lastChange>>

\* _check_and_transition_from_half_open() after one more success.
ProbeSucceeded ==
    /\ halfOpenSuccess' = halfOpenSuccess + 1
    /\ IF halfOpenSuccess' >= HalfOpenMaxCalls
       THEN state' = "CLOSED" /\ lastChange' = now
       ELSE UNCHANGED <<state, lastChange>>

ExitSuccess(c) ==
    /\ Leave(c)
    /\ window' = Append(window, Record(FALSE))
    /\ log' = Append(log, Record(FALSE))
    /\ \/ state # "HALF_OPEN" /\ UNCHANGED <<state, lastChange, halfOpenSuccess>>
       \/ state = "HALF_OPEN" /\ ProbeSucceeded
    /\ metrics' = [metrics EXCEPT
                     !.requests = @ + 1, !.successes = @ + 1,
                     !.failures = IF state = "HALF_OPEN" /\ state' = "CLOSED"
                                  THEN 0 ELSE @]
    /\ UNCHANGED <<now, ops, cur>>

\* record_latency() of a request over the latency threshold; one below the
\* threshold, or one recorded while the breaker is not CLOSED, does nothing.
RecordSlow ==
    /\ state = "CLOSED"
    /\ Begin
    /\ metrics' = [metrics EXCEPT !.failures = @ + 1, !.lastFailure = now]
    /\ FailAndTryOpen
    /\ UNCHANGED <<now, sems, callerVars>>

Reset ==
    /\ Begin
    /\ state' = "CLOSED"
    /\ metrics' = NoMetrics
    /\ lastChange' = now
    /\ halfOpenSuccess' = 0
    /\ cur' = 0
    /\ window' = <<>> /\ log' = <<>>
    /\ UNCHANGED <<now, sems, callerVars>>

\* The clock.  A responsive loop ends every 1 ms wait before it moves on.
Tick ==
    /\ now < MaxTime
    /\ LoopMayBlock \/ \A c \in Callers : pc[c] # "waiting"
    /\ now' = now + 1
    /\ UNCHANGED <<window, sems, metrics, log, ops, breakerVars, callerVars>>

-----------------------------------------------------------------------------
Next ==
    \/ \E c \in Callers :
         \/ EnterClosed(c) \/ EnterOpen(c)
         \/ EnterAfterCoolDown(c) \/ EnterHalfOpen(c)
         \/ ResumeProbe(c) \/ TimeOut(c) \/ CancelWait(c)
         \/ ExitFailure(c) \/ ExitSuccess(c)
    \/ RecordSlow
    \/ Reset
    \/ Tick

Spec == Init /\ [][Next]_vars

-----------------------------------------------------------------------------
(* Properties. *)

Probes(e)  == {c \in Callers : pc[c] = "inside" /\ probeOf[c] = e}
Holders(e) == {c \in Callers : pc[c] = "inside" /\ held[c] = e}

\* Every variable of the breaker and of its callers stays in its range.
TypeOK ==
    /\ now \in Nat /\ lastChange \in Nat /\ lastChange <= now
    /\ state \in States
    /\ window \in Seq(Outcome) /\ log \in Seq(Outcome)
    /\ halfOpenSuccess \in Nat
    /\ sems \in Seq(Semaphores(Callers))
    /\ cur \in 0..Len(sems)
    /\ metrics \in Metrics
    /\ pc \in [Callers -> {"idle", "waiting", "inside"}]
    /\ waitsOn \in [Callers -> 0..Len(sems)]
    /\ held \in [Callers -> 0..Len(sems)]
    /\ probeOf \in [Callers -> 0..Len(sems)]
    /\ ops \in Nat

\* Lines 226 and 259: a HALF_OPEN breaker always has its semaphore, so the
\* branch that creates one inside __aenter__ cannot run.
HalfOpenHasSemaphore == state = "HALF_OPEN" => cur # 0

\* Lines 258-284: on a responsive loop no half-open period ever has more than
\* probe_count of its own probes running, through any mixture of waiting,
\* time-outs, cancellations, late failures and resets.
ProbeBound ==
    ~LoopMayBlock =>
        \A e \in 1..Len(sems) : Cardinality(Probes(e)) <= ProbeCount

\* Lines 262-284: no path through __aenter__ and __aexit__ loses a probe permit
\* of the current half-open period, so the breaker cannot get stuck in
\* HALF_OPEN with nobody inside and nothing to hand out.
NoProbeLeak ==
    state = "HALF_OPEN" =>
        Permits(sems[cur]) + Cardinality(Holders(cur)) >= ProbeCount

\* Lines 157-162: pruning is lazy (successes never prune), yet the window is
\* always the end of the log and lacks nothing young enough to count.
WindowIsRecentLog ==
    LET dropped == Len(log) - Len(window)
    IN  /\ dropped >= 0
        /\ window = SubSeq(log, dropped + 1, Len(log))
        /\ \A i \in 1..dropped : log[i].at < now - WindowDuration

\* What the sliding window is meant to count, taken from the whole log.
YoungOutcomes == {i \in 1..Len(log) : log[i].at >= now - WindowDuration}
YoungFailures == {i \in YoungOutcomes : log[i].failed}

ReachesThreshold ==
    \/ Cardinality(YoungFailures) >= FailureThreshold
    \/ /\ Cardinality(YoungOutcomes) >= RateMinimum
       /\ RateDen * Cardinality(YoungFailures)
              >= RateNum * Cardinality(YoungOutcomes)

\* Lines 164-182 and 319-320: a CLOSED breaker leaves that state at the very
\* call that records a failure with which the outcomes of the last
\* window_duration reach the failure count or the error rate, and at no other.
\* Reach, as test_circuit_breaker.py:47 and :396 have it: API.md:150-151 and the
\* docstrings of lines 51 and 211 say "exceed", which the code does not wait for.
OpensExactlyOnRecentFailures ==
    [][ state = "CLOSED" =>
          (state' # "CLOSED" <=>
             /\ Len(log') > Len(log)
             /\ log'[Len(log')].failed
             /\ ReachesThreshold') ]_vars

\* The promise of BreakerContract, kept by this code: the half-open credit is
\* _half_open_success_count, which only means something in HALF_OPEN, and the
\* evidence is every failure recorded since reset().
Contract ==
    INSTANCE BreakerContract WITH
        CoolDown  <- OpenStateDuration,
        Successes <- HalfOpenMaxCalls,
        clock     <- now,
        phase     <- state,
        since     <- lastChange,
        credit    <- IF state = "HALF_OPEN" THEN halfOpenSuccess ELSE 0,
        evidence  <- Cardinality({i \in 1..Len(log) : log[i].failed})

KeepsContract == Contract!CSpec
=============================================================================
