-------------------------- MODULE SemaphoreLimiter --------------------------
(***************************************************************************)
(* patterns/semaphore.py: the SemaphoreLimiter async context manager.      *)
(*                                                                         *)
(* A task suspends only while it waits for a permit: the limiter's lock is *)
(* never held across an await, so what follows acquire() in __aenter__ and *)
(* all of __aexit__ is atomic.  set_max_concurrent replaces the semaphore; *)
(* tasks already parked stay on the old one, and every task that leaves    *)
(* releases into the new one.                                              *)
(*                                                                         *)
(* acquire_timeout is positive here: wait_for(..., timeout=0) gives up     *)
(* before acquire() has run.                                               *)
(***************************************************************************)
EXTENDS Integers, Sequences, FiniteSets, AsyncSemaphore

CONSTANTS Tasks,      \* the tasks that use the limiter
          Limits,     \* the limits set_max_concurrent may be called with
          MaxConcurrent,
          MaxEntries, \* bound: calls of __aenter__
          MaxResizes  \* bound: calls of set_max_concurrent

ASSUME LimiterAssumption ==
    /\ IsFiniteSet(Tasks)
    /\ MaxConcurrent \in Nat \ {0}
    /\ Limits \subseteq Nat \ {0}
    /\ MaxEntries \in Nat /\ MaxResizes \in Nat

VARIABLES
    limit,        \* _max_concurrent
    sems,         \* every semaphore made so far; _semaphore is the last one
    active,       \* _current_active
    peak,         \* _peak_active
    acquisitions, \* _total_acquisitions
    timeouts,     \* _timeout_count
    pc,           \* where each task is
    waitsOn,      \* the semaphore a waiting task is parked on, or 0
    carried,      \* history: the tasks inside or parked at the last resize
    entries       \* bound: calls of __aenter__ so far

vars == <<limit, sems, active, peak, acquisitions, timeouts, pc, waitsOn,
          carried, entries>>

Current == Len(sems)

Inside     == {t \in Tasks : pc[t] = "inside"}
Waiting    == {t \in Tasks : pc[t] = "waiting"}
OldWaiting == {t \in Waiting : waitsOn[t] # Current}

-----------------------------------------------------------------------------
Init ==
    /\ limit = MaxConcurrent
    /\ sems = <<NewSemaphore(MaxConcurrent)>>
    /\ active = 0 /\ peak = 0 /\ acquisitions = 0 /\ timeouts = 0
    /\ pc = [t \in Tasks |-> "idle"]
    /\ waitsOn = [t \in Tasks |-> 0]
    /\ carried = 0 /\ entries = 0

Begin(t) == pc[t] = "idle" /\ entries < MaxEntries /\ entries' = entries + 1

\* The rest of __aenter__ once acquire() has returned.
Admitted(t) ==
    /\ pc' = [pc EXCEPT ![t] = "inside"]
    /\ active' = active + 1
    /\ acquisitions' = acquisitions + 1
    /\ peak' = IF active' > peak THEN active' ELSE peak

EnterNow(t) ==
    /\ Begin(t)
    /\ CanAcquire(sems[Current])
    /\ sems' = [sems EXCEPT ![Current] = TakePermit(@)]
    /\ Admitted(t)
    /\ UNCHANGED <<limit, timeouts, waitsOn, carried>>

EnterAndWait(t) ==
    /\ Begin(t)
    /\ ~CanAcquire(sems[Current])
    /\ sems' = [sems EXCEPT ![Current] = Park(@, t)]
    /\ pc' = [pc EXCEPT ![t] = "waiting"]
    /\ waitsOn' = [waitsOn EXCEPT ![t] = Current]
    /\ UNCHANGED <<limit, active, peak, acquisitions, timeouts, carried>>

ResumeWait(t) ==
    /\ pc[t] = "waiting"
    /\ \E i \in WokenPlaces(sems[waitsOn[t]], t) :
         sems' = [sems EXCEPT ![waitsOn[t]] = Resume(@, i)]
    /\ Admitted(t)
    /\ waitsOn' = [waitsOn EXCEPT ![t] = 0]
    /\ UNCHANGED <<limit, timeouts, carried, entries>>

\* Mutant of LeaveQueue: the task that gives up releases the current semaphore,
\* as if it had been admitted.
LeaveQueueReleasing(t) ==
    /\ pc[t] = "waiting"
    /\ \E i \in Places(sems[waitsOn[t]], t) :
         sems' = [sems EXCEPT ![waitsOn[t]] = Release(GiveUp(@, i))]
    /\ pc' = [pc EXCEPT ![t] = "idle"]
    /\ waitsOn' = [waitsOn EXCEPT ![t] = 0]
    /\ UNCHANGED <<limit, active, peak, acquisitions, carried, entries>>

LeaveQueue(t) ==
    /\ pc[t] = "waiting"
    /\ \E i \in Places(sems[waitsOn[t]], t) :
         sems' = [sems EXCEPT ![waitsOn[t]] = GiveUp(@, i)]
    /\ pc' = [pc EXCEPT ![t] = "idle"]
    /\ waitsOn' = [waitsOn EXCEPT ![t] = 0]
    /\ UNCHANGED <<limit, active, peak, acquisitions, carried, entries>>

\* acquire_timeout runs out: AcquisitionTimeoutError.
TimeOut(t) == LeaveQueue(t) /\ timeouts' = timeouts + 1

\* The task is cancelled while it waits.
CancelWait(t) == LeaveQueue(t) /\ UNCHANGED timeouts

\* Mutant of ReleaseCurrent: nothing is released.
ReleaseNothing == UNCHANGED sems

\* __aexit__ releases whatever semaphore is current by then.
ReleaseCurrent == sems' = [sems EXCEPT ![Current] = Release(@)]

Exit(t) ==
    /\ pc[t] = "inside"
    /\ pc' = [pc EXCEPT ![t] = "idle"]
    /\ active' = active - 1
    /\ ReleaseCurrent
    /\ UNCHANGED <<limit, peak, acquisitions, timeouts, waitsOn, carried, entries>>

SetMaxConcurrent(n) ==
    /\ Len(sems) <= MaxResizes
    /\ limit' = n
    /\ sems' = Append(sems, NewSemaphore(n))
    /\ carried' = Cardinality(Inside) + Cardinality(Waiting)
    /\ UNCHANGED <<active, peak, acquisitions, timeouts, pc, waitsOn, entries>>

-----------------------------------------------------------------------------
Next ==
    \/ \E t \in Tasks :
         \/ EnterNow(t) \/ EnterAndWait(t) \/ ResumeWait(t)
         \/ TimeOut(t) \/ CancelWait(t) \/ Exit(t)
    \/ \E n \in Limits : SetMaxConcurrent(n)

Spec == Init /\ [][Next]_vars

\* The event loop runs every woken task, and the block a task is inside of
\* ends; nobody is obliged to come, to time out or to resize.
Fairness == \A t \in Tasks : WF_vars(ResumeWait(t)) /\ WF_vars(Exit(t))

FairSpec == Spec /\ Fairness

-----------------------------------------------------------------------------
(* Properties. *)

\* Every variable of the limiter and of its tasks stays in its range.
TypeOK ==
    /\ limit \in Nat \ {0}
    /\ sems \in Seq(Semaphores(Tasks)) /\ sems # <<>>
    /\ active \in Nat /\ peak \in Nat /\ acquisitions \in Nat
    /\ timeouts \in Nat /\ carried \in Nat /\ entries \in Nat
    /\ pc \in [Tasks -> {"idle", "waiting", "inside"}]
    /\ waitsOn \in [Tasks -> 0..Len(sems)]

\* Lines 102-105 and 116-117: current_active is the number of tasks inside the
\* block, and peak_active has seen it, through every wait that was abandoned.
ActiveCountsInside == active = Cardinality(Inside) /\ active <= peak

\* Lines 62-72, 119 and 145-150: what the limiter really bounds.  The tasks inside
\* never exceed the limit by more than the tasks that were inside or parked
\* when the limit was last changed; without a change, the limit is exact.
ActiveBound == Cardinality(Inside) <= limit + carried

\* Lines 90-119: no wake-up is lost.  A task is left waiting for the current
\* semaphore only while the limit is used up, or while a woken task is on its way
\* in: whoever gave up, was cancelled or came in between has passed its permit on.
NobodyWaitsInVain ==
    \A t \in Waiting : waitsOn[t] = Current =>
        \/ limit <= Cardinality(Inside)
        \/ \E u \in Waiting : /\ waitsOn[u] = Current
                             /\ WokenPlaces(sems[Current], u) # {}

\* Lines 90-119: every task that waits stops waiting, with no help from its
\* time-out, unless the limit is changed: that may leave it on a semaphore
\* which nobody releases any more.
WaitEnds ==
    \A t \in Tasks : pc[t] = "waiting" ~> pc[t] # "waiting" \/ Current > 1
=============================================================================
