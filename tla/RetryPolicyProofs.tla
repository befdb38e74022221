-------------------------- MODULE RetryPolicyProofs --------------------------
(***************************************************************************)
(* What holds of the circuit breaker, and of the retry loops that share    *)
(* one, for any number of callers, any thresholds, durations and budgets,  *)
(* and any length of run.  The theorems about the breaker alone (Spec)     *)
(* come first and use nothing of the retry loops.  Every step of a loop is *)
(* a step of the breaker or leaves it alone, so all of them hold of a      *)
(* breaker driven by retries (RetrySpec); what is left is the loops' own   *)
(* accounting.                                                             *)
(***************************************************************************)
EXTENDS RetryPolicy, AsyncSemaphoreProofs, TLAPS

LOCAL INSTANCE SequenceTheorems
LOCAL INSTANCE FiniteSetTheorems
LOCAL INSTANCE FunctionTheorems

-----------------------------------------------------------------------------
(* Data lemmas. *)

\* A pool with a new semaphore for a new half-open period.
LEMMA PoolAppend ==
    ASSUME NEW pool \in Seq(Semaphores(Callers)), ProbeCount \in Nat,
           NEW p, p = Append(pool, NewSemaphore(ProbeCount))
    PROVE  /\ p \in Seq(Semaphores(Callers))
           /\ Len(pool) \in Nat /\ Len(p) = Len(pool) + 1
           /\ \A e \in 1..Len(pool) : p[e] = pool[e]
           /\ p[Len(pool) + 1] = NewSemaphore(ProbeCount)
<1>1. NewSemaphore(ProbeCount) \in Semaphores(Callers)
  BY NewSemaphorePermits DEF IsSemaphore
<1>. QED
  BY <1>1, AppendProperties, LenProperties

\* popleft() drops a beginning of the window: the k entries before the first that
\* is not older than the cutoff.
LEMMA DropOlderShape ==
    ASSUME NEW w \in Seq(Outcome), NEW cutoff
    PROVE  /\ DropOlder(w, cutoff) \in Seq(Outcome)
           /\ \E k \in 0..Len(w) :
                /\ Len(DropOlder(w, cutoff)) = Len(w) - k
                /\ \A i \in 1..(Len(w) - k) : DropOlder(w, cutoff)[i] = w[i + k]
                /\ \A i \in 1..k : w[i].at < cutoff
                /\ k < Len(w) => ~ (w[k + 1].at < cutoff)
<1> DEFINE expired == {i \in 1..Len(w) : \A j \in 1..i : w[j].at < cutoff}
<1>1. PICK n \in Nat : n = Len(w)
  BY LenProperties
<1>2. PICK k : k = Cardinality(expired)
  OBVIOUS
<1>3. IsFiniteSet(expired) /\ k \in 0..n
  <2>1. IsFiniteSet(1..n) /\ Cardinality(1..n) = n
    BY FS_Interval
  <2>2. expired \in SUBSET (1..n)
    BY <1>1
  <2>. HIDE DEF expired
  <2>3. IsFiniteSet(expired) /\ Cardinality(expired) <= n
    BY <2>1, <2>2, FS_Subset
  <2>. QED
    BY <1>1, <1>2, <2>3, FS_CardinalityType
<1>4. expired = 1..k
  <2>1. ASSUME NEW i \in expired PROVE i \in 1..k
    <3>1. i \in 1..n /\ 1..i \in SUBSET expired
      BY <1>1
    <3>2. Cardinality(1..i) = i
      BY <1>1, <3>1, FS_Interval
    <3>. HIDE DEF expired
    <3>3. Cardinality(1..i) <= Cardinality(expired)
      BY <1>3, <3>1, FS_Subset
    <3>. QED
      BY <1>1, <1>2, <1>3, <3>1, <3>2, <3>3
  <2>. HIDE DEF expired
  <2>2. IsFiniteSet(1..k) /\ Cardinality(1..k) = k
    BY <1>1, <1>3, FS_Interval
  <2>3. expired \in SUBSET (1..k)
    BY <2>1
  <2>. QED
    BY <1>2, <2>2, <2>3, FS_Subset
<1>5. \A i \in 1..k : w[i].at < cutoff
  BY <1>1, <1>3, <1>4
<1>6. k < n => ~ (w[k + 1].at < cutoff)
  <2> SUFFICES ASSUME k < n, w[k + 1].at < cutoff PROVE FALSE
    OBVIOUS
  <2>1. \A j \in 1..(k + 1) : j = k + 1 \/ j \in 1..k
    BY <1>1, <1>3
  <2>2. k + 1 \in expired
    BY <1>1, <1>3, <1>5, <2>1
  <2>. QED
    BY <1>1, <1>3, <1>4, <2>2
<1>7. DropOlder(w, cutoff) = SubSeq(w, k + 1, n)
  BY <1>1, <1>2 DEF DropOlder
<1>. HIDE DEF expired
<1>8. \A i \in (k + 1)..n : w[i] \in Outcome
  <2>1. \A i \in (k + 1)..n : i \in 1..Len(w)
    BY <1>1, <1>3
  <2>. QED
    BY <2>1, ElementOfSeq
<1>9. k + 1 \in Int /\ n \in Int
  BY <1>1, <1>3
<1>10. /\ SubSeq(w, k + 1, n) \in Seq(Outcome)
       /\ Len(SubSeq(w, k + 1, n)) = IF k + 1 <= n THEN n - (k + 1) + 1 ELSE 0
       /\ \A i \in 1..(n - (k + 1) + 1) : SubSeq(w, k + 1, n)[i] = w[(k + 1) + i - 1]
  BY <1>8, <1>9, SubSeqProperties
<1>11. /\ Len(SubSeq(w, k + 1, n)) = n - k
       /\ \A i \in 1..(n - k) : SubSeq(w, k + 1, n)[i] = w[i + k]
  <2>1. n - (k + 1) + 1 = n - k
    BY <1>1, <1>3
  <2>2. \A i \in 1..(n - k) : (k + 1) + i - 1 = i + k
    BY <1>1, <1>3
  <2>. QED
    BY <1>1, <1>3, <1>10, <2>1, <2>2
<1>. QED
  BY <1>1, <1>3, <1>5, <1>6, <1>7, <1>10, <1>11

\* Pruning keeps a window a window.
LEMMA PrunedType ==
    ASSUME NEW w \in Seq(Outcome)
    PROVE  Pruned(w) \in Seq(Outcome)
  BY DropOlderShape DEF Pruned

-----------------------------------------------------------------------------
(* Types. *)

\* A parked caller is parked on a semaphore that exists.
WaitersParked == \A c \in Callers : pc[c] = "waiting" => waitsOn[c] # 0

TypeInv == TypeOK /\ HalfOpenHasSemaphore /\ WaitersParked

\* Facts about the numbers of semaphores and the clock, used all over.
LEMMA TypeFacts ==
    ASSUME TypeInv
    PROVE  /\ Len(sems) \in Nat /\ cur \in Nat
           /\ \A e \in 1..Len(sems) : IsSemaphore(sems[e], Callers)
  BY LenProperties, ElementOfSeq DEF TypeInv, TypeOK, IsSemaphore

\* A new breaker is well typed.
LEMMA InitType == Init => TypeInv
<1>1. NoMetrics \in Metrics
  BY DEF NoMetrics, Metrics, None
<1>. QED
  BY <1>1, BreakerAssumption, EmptySeq
  DEF Init, TypeInv, TypeOK, HalfOpenHasSemaphore, WaitersParked, States

\* What acquiring or parking on a semaphore of a pool does to the callers.
LEMMA AcquireType ==
    ASSUME TypeInv, NEW c \in Callers,
           NEW pool \in Seq(Semaphores(Callers)), NEW k \in 1..Len(pool),
           Len(sems) <= Len(pool),
           AcquireProbe(c, pool, k)
    PROVE  /\ sems' \in Seq(Semaphores(Callers)) /\ Len(sems') = Len(pool)
           /\ pc' \in [Callers -> {"idle", "waiting", "inside"}]
           /\ waitsOn' \in [Callers -> 0..Len(pool)]
           /\ held' \in [Callers -> 0..Len(pool)]
           /\ probeOf' \in [Callers -> 0..Len(pool)]
           /\ WaitersParked'
<1>1. IsSemaphore(pool[k], Callers)
  BY ElementOfSeq DEF IsSemaphore
<1>2. IsSemaphore(Park(pool[k], c), Callers)
  BY <1>1, ParkPermits
<1>3. CanAcquire(pool[k]) => IsSemaphore(TakePermit(pool[k]), Callers)
  BY <1>1, TakePermits
<1>4. Len(pool) \in Nat /\ Len(sems) \in Nat
  BY LenProperties, TypeFacts
<1>5. /\ sems' \in Seq(Semaphores(Callers))
      /\ Len(sems') = Len(pool)
  BY <1>1, <1>2, <1>3, PoolUpdate DEF AcquireProbe
<1>6. /\ waitsOn \in [Callers -> 0..Len(pool)]
      /\ held \in [Callers -> 0..Len(pool)]
      /\ probeOf \in [Callers -> 0..Len(pool)]
  BY <1>4 DEF TypeInv, TypeOK
<1>7. /\ pc \in [Callers -> {"idle", "waiting", "inside"}]
      /\ WaitersParked
  BY DEF TypeInv, TypeOK
<1>8. CASE /\ pc' = [pc EXCEPT ![c] = "inside"]
           /\ held' = [held EXCEPT ![c] = k]
           /\ probeOf' = [probeOf EXCEPT ![c] = k]
           /\ waitsOn' = waitsOn
  BY <1>4, <1>5, <1>6, <1>7, <1>8 DEF WaitersParked
<1>9. CASE /\ pc' = [pc EXCEPT ![c] = "waiting"]
           /\ waitsOn' = [waitsOn EXCEPT ![c] = k]
           /\ held' = held
           /\ probeOf' = probeOf
  BY <1>4, <1>5, <1>6, <1>7, <1>9 DEF WaitersParked
<1>. QED
  BY <1>8, <1>9 DEF AcquireProbe

\* What leaving the block does to the pool and the callers.
LEMMA LeaveType ==
    ASSUME TypeInv, NEW c \in Callers, Leave(c)
    PROVE  /\ sems' \in Seq(Semaphores(Callers)) /\ Len(sems') = Len(sems)
           /\ pc' \in [Callers -> {"idle", "waiting", "inside"}]
           /\ waitsOn' \in [Callers -> 0..Len(sems)]
           /\ held' \in [Callers -> 0..Len(sems)]
           /\ probeOf' \in [Callers -> 0..Len(sems)]
           /\ WaitersParked'
<1>1. held[c] # 0 => /\ held[c] \in 1..Len(sems)
                     /\ IsSemaphore(Release(sems[held[c]]), Callers)
  BY TypeFacts, ReleasePermits DEF TypeInv, TypeOK
<1>2. /\ sems' \in Seq(Semaphores(Callers))
      /\ Len(sems') = Len(sems)
  BY <1>1, PoolUpdate DEF Leave, ReturnPermit, ReleaseHeld, TypeInv, TypeOK
<1>. QED
  BY <1>2, TypeFacts DEF Leave, ReturnPermit, ReleaseHeld, TypeInv, TypeOK, WaitersParked

\* Recording a failure and opening the breaker if it is due.
LEMMA FailType ==
    ASSUME TypeInv, FailAndTryOpen
    PROVE  /\ window' \in Seq(Outcome) /\ log' \in Seq(Outcome)
           /\ state' \in States /\ state' \in {state, "OPEN"}
           /\ lastChange' \in Nat /\ lastChange' <= now
           /\ halfOpenSuccess' = halfOpenSuccess /\ cur' = cur
<1>1. Record(TRUE) \in Outcome
  BY DEF Record, Outcome, TypeInv, TypeOK
<1>2. Append(window, Record(TRUE)) \in Seq(Outcome) /\ log' \in Seq(Outcome)
  BY <1>1, AppendProperties DEF FailAndTryOpen, TypeInv, TypeOK
<1>3. window' \in Seq(Outcome)
  BY <1>2, PrunedType DEF FailAndTryOpen
<1>4. /\ \/ state' = "OPEN" /\ lastChange' = now
         \/ state' = state /\ lastChange' = lastChange
      /\ halfOpenSuccess' = halfOpenSuccess /\ cur' = cur
  BY DEF FailAndTryOpen
<1>5. /\ state \in States /\ lastChange \in Nat /\ lastChange <= now
      /\ now \in Nat
  BY DEF TypeInv, TypeOK
<1>. QED
  BY <1>2, <1>3, <1>4, <1>5 DEF States

\* The counters stay counters: one counter at a time, then the updates the
\* actions make.
LEMMA CounterFields ==
    ASSUME NEW m \in Metrics
    PROVE  /\ m.failures \in Nat /\ m.successes \in Nat
           /\ m.requests \in Nat /\ m.rejected \in Nat
  BY DEF Metrics

\* Any counter can be set to any number.
LEMMA CounterType ==
    ASSUME NEW m \in Metrics, NEW n \in Nat
    PROVE  /\ [m EXCEPT !.failures = n] \in Metrics
           /\ [m EXCEPT !.successes = n] \in Metrics
           /\ [m EXCEPT !.requests = n] \in Metrics
           /\ [m EXCEPT !.rejected = n] \in Metrics
           /\ [m EXCEPT !.lastFailure = n] \in Metrics
  BY DEF Metrics

\* Counting a rejection.
LEMMA RejectMetricsType ==
    ASSUME NEW m \in Metrics
    PROVE  [m EXCEPT !.rejected = @ + 1] \in Metrics
<1>1. m.rejected + 1 \in Nat
  BY CounterFields
<1>. QED
  BY <1>1, CounterType

\* Counting a failure that is not a request.
LEMMA FailureMetricsType ==
    ASSUME NEW m \in Metrics, NEW t \in Nat
    PROVE  [m EXCEPT !.failures = @ + 1, !.lastFailure = t] \in Metrics
<1> DEFINE n == [m EXCEPT !.failures = @ + 1]
<1>1. m.failures + 1 \in Nat
  BY CounterFields
<1>2. n \in Metrics
  BY <1>1, CounterType
<1>3. [m EXCEPT !.failures = @ + 1, !.lastFailure = t] =
        [n EXCEPT !.lastFailure = t]
  OBVIOUS
<1>. HIDE DEF n
<1>. QED
  BY <1>2, <1>3, CounterType

\* Counting a request that failed, or that succeeded.
LEMMA RequestMetricsType ==
    ASSUME NEW m \in Metrics, NEW t \in Nat, NEW b \in BOOLEAN
    PROVE  /\ [m EXCEPT !.requests = @ + 1, !.failures = @ + 1,
                        !.lastFailure = t] \in Metrics
           /\ [m EXCEPT !.requests = @ + 1, !.successes = @ + 1,
                        !.failures = IF b THEN 0 ELSE @] \in Metrics
<1> DEFINE n == [m EXCEPT !.requests = @ + 1]
           q == [n EXCEPT !.successes = @ + 1]
<1>1. m.requests + 1 \in Nat
  BY CounterFields
<1>2. n \in Metrics
  BY <1>1, CounterType
<1>3. [m EXCEPT !.requests = @ + 1, !.failures = @ + 1, !.lastFailure = t] =
        [n EXCEPT !.failures = @ + 1, !.lastFailure = t]
  BY DEF Metrics
<1>4. [m EXCEPT !.requests = @ + 1, !.successes = @ + 1,
                !.failures = IF b THEN 0 ELSE @] =
        [q EXCEPT !.failures = IF b THEN 0 ELSE @]
  BY DEF Metrics
<1>. HIDE DEF n
<1>5. n.successes + 1 \in Nat
  BY <1>2, CounterFields
<1>6. q \in Metrics
  BY <1>2, <1>5, CounterType
<1>. HIDE DEF q
<1>7. (IF b THEN 0 ELSE q.failures) \in Nat
  BY <1>6, CounterFields
<1>. QED
  BY <1>2, <1>3, <1>4, <1>6, <1>7, CounterType, FailureMetricsType

\* Every step of the breaker keeps the types.
LEMMA StepType == TypeInv /\ [Next]_vars => TypeInv'
<1> SUFFICES ASSUME TypeInv, [Next]_vars PROVE TypeInv'
  OBVIOUS
<1> USE DEF TypeInv, HalfOpenHasSemaphore
<1>a. BreakerAssumption
  BY BreakerAssumption
<1>b. /\ Len(sems) \in Nat /\ cur \in Nat
      /\ now \in Nat /\ lastChange \in Nat /\ lastChange <= now
  BY TypeFacts DEF TypeOK
<1>1. ASSUME NEW c \in Callers, EnterClosed(c) PROVE TypeInv'
  BY <1>1, <1>b
  DEF EnterClosed, Begin, TypeOK, WaitersParked, breakerVars
<1>2. ASSUME NEW c \in Callers, EnterOpen(c) PROVE TypeInv'
  <2>1. metrics' \in Metrics
    BY <1>2, RejectMetricsType DEF EnterOpen, TypeOK
  <2>. QED
    BY <1>2, <2>1
    DEF EnterOpen, Begin, TypeOK, WaitersParked, breakerVars, callerVars
<1>3. ASSUME NEW c \in Callers, EnterAfterCoolDown(c) PROVE TypeInv'
  <2> DEFINE pool == Append(sems, NewSemaphore(ProbeCount))
  <2>1. /\ pool \in Seq(Semaphores(Callers))
        /\ Len(pool) = Len(sems) + 1
    BY <1>a, PoolAppend DEF TypeOK, BreakerAssumption
  <2>. HIDE DEF pool
  <2>2. AcquireProbe(c, pool, Len(sems) + 1)
    BY <1>3 DEF EnterAfterCoolDown, pool
  <2>3. Len(sems) + 1 \in 1..Len(pool) /\ Len(sems) <= Len(pool)
    BY <1>b, <2>1
  <2>4. /\ sems' \in Seq(Semaphores(Callers)) /\ Len(sems') = Len(pool)
        /\ pc' \in [Callers -> {"idle", "waiting", "inside"}]
        /\ waitsOn' \in [Callers -> 0..Len(pool)]
        /\ held' \in [Callers -> 0..Len(pool)]
        /\ probeOf' \in [Callers -> 0..Len(pool)]
        /\ WaitersParked'
    BY <2>1, <2>2, <2>3, AcquireType
  <2>5. /\ state' = "HALF_OPEN" /\ lastChange' = now /\ halfOpenSuccess' = 0
        /\ cur' = Len(sems) + 1 /\ ops' = ops + 1
        /\ UNCHANGED <<now, window, metrics, log>>
    BY <1>3 DEF EnterAfterCoolDown, Begin
  <2>. QED
    BY <1>b, <2>1, <2>4, <2>5 DEF TypeOK, States
<1>4. ASSUME NEW c \in Callers, EnterHalfOpen(c) PROVE TypeInv'
  <2>1. cur \in 1..Len(sems) /\ sems \in Seq(Semaphores(Callers))
    BY <1>4 DEF EnterHalfOpen, TypeOK
  <2>2. /\ sems' \in Seq(Semaphores(Callers)) /\ Len(sems') = Len(sems)
        /\ pc' \in [Callers -> {"idle", "waiting", "inside"}]
        /\ waitsOn' \in [Callers -> 0..Len(sems)]
        /\ held' \in [Callers -> 0..Len(sems)]
        /\ probeOf' \in [Callers -> 0..Len(sems)]
        /\ WaitersParked'
    BY <1>4, <1>b, <2>1, AcquireType DEF EnterHalfOpen
  <2>. QED
    BY <1>4, <1>b, <2>2 DEF EnterHalfOpen, Begin, TypeOK, breakerVars
<1>5. ASSUME NEW c \in Callers, ResumeProbe(c) PROVE TypeInv'
  <2>1. waitsOn[c] \in 1..Len(sems)
    BY <1>5, <1>b DEF ResumeProbe, Remember, TypeOK, WaitersParked
  <2>2. PICK i \in WokenPlaces(sems[waitsOn[c]], c) :
          sems' = [sems EXCEPT ![waitsOn[c]] = Resume(@, i)]
    BY <1>5 DEF ResumeProbe, Remember
  <2>3. IsSemaphore(Resume(sems[waitsOn[c]], i), Callers)
    BY <2>1, TypeFacts, ResumePermits
  <2>4. sems' \in Seq(Semaphores(Callers)) /\ Len(sems') = Len(sems)
    BY <2>1, <2>2, <2>3, PoolUpdate DEF TypeOK
  <2>. QED
    BY <1>5, <1>b, <2>4
    DEF ResumeProbe, Remember, TypeOK, WaitersParked, breakerVars
<1>6. ASSUME NEW c \in Callers, LeaveQueue(c), metrics' \in Metrics
      PROVE  TypeInv'
  <2>1. waitsOn[c] \in 1..Len(sems)
    BY <1>6, <1>b DEF LeaveQueue, TypeOK, WaitersParked
  <2>2. PICK i \in Places(sems[waitsOn[c]], c) :
          sems' = [sems EXCEPT ![waitsOn[c]] = GiveUp(@, i)]
    BY <1>6 DEF LeaveQueue
  <2>3. IsSemaphore(GiveUp(sems[waitsOn[c]], i), Callers)
    BY <2>1, TypeFacts, GiveUpPermits
  <2>4. sems' \in Seq(Semaphores(Callers)) /\ Len(sems') = Len(sems)
    BY <2>1, <2>2, <2>3, PoolUpdate DEF TypeOK
  <2>. QED
    BY <1>6, <1>b, <2>4
    DEF LeaveQueue, TypeOK, WaitersParked, breakerVars
<1>7. ASSUME NEW c \in Callers, TimeOut(c) PROVE TypeInv'
  <2>1. metrics' \in Metrics
    BY <1>7, RejectMetricsType DEF TimeOut, TypeOK
  <2>. QED
    BY <1>6, <1>7, <2>1 DEF TimeOut
<1>8. ASSUME NEW c \in Callers, CancelWait(c) PROVE TypeInv'
  BY <1>6, <1>8 DEF CancelWait, TypeOK
<1>9. ASSUME NEW c \in Callers, ExitFailure(c) PROVE TypeInv'
  <2>1. /\ sems' \in Seq(Semaphores(Callers)) /\ Len(sems') = Len(sems)
        /\ pc' \in [Callers -> {"idle", "waiting", "inside"}]
        /\ waitsOn' \in [Callers -> 0..Len(sems)]
        /\ held' \in [Callers -> 0..Len(sems)]
        /\ probeOf' \in [Callers -> 0..Len(sems)]
        /\ WaitersParked'
    BY <1>9, LeaveType DEF ExitFailure
  <2>2. metrics' \in Metrics
    BY <1>9, <1>b, RequestMetricsType DEF ExitFailure, TypeOK
  <2>3. CASE state # "HALF_OPEN" /\ FailAndTryOpen
    <3>1. /\ window' \in Seq(Outcome) /\ log' \in Seq(Outcome)
          /\ state' \in States /\ state' \in {state, "OPEN"}
          /\ lastChange' \in Nat /\ lastChange' <= now
          /\ halfOpenSuccess' = halfOpenSuccess /\ cur' = cur
      BY <2>3, FailType
    <3>. QED
      BY <1>9, <1>b, <2>1, <2>2, <2>3, <3>1 DEF ExitFailure, TypeOK
  <2>4. CASE /\ state = "HALF_OPEN"
             /\ window' = Append(window, Record(TRUE))
             /\ log' = Append(log, Record(TRUE))
             /\ state' = "OPEN" /\ lastChange' = now /\ halfOpenSuccess' = 0
             /\ cur' = cur
    <3>1. window' \in Seq(Outcome) /\ log' \in Seq(Outcome)
      BY <1>b, <2>4, AppendProperties DEF TypeOK, Record, Outcome
    <3>2. UNCHANGED <<now, ops>>
      BY <1>9 DEF ExitFailure
    <3>3. /\ state' = "OPEN" /\ lastChange' = now /\ halfOpenSuccess' = 0
          /\ cur' = cur
      BY <2>4
    <3>. QED
      BY <1>b, <2>1, <2>2, <3>1, <3>2, <3>3 DEF TypeOK, States
  <2>. QED
    BY <1>9, <2>3, <2>4 DEF ExitFailure
<1>10. ASSUME NEW c \in Callers, ExitSuccess(c) PROVE TypeInv'
  <2>1. /\ sems' \in Seq(Semaphores(Callers)) /\ Len(sems') = Len(sems)
        /\ pc' \in [Callers -> {"idle", "waiting", "inside"}]
        /\ waitsOn' \in [Callers -> 0..Len(sems)]
        /\ held' \in [Callers -> 0..Len(sems)]
        /\ probeOf' \in [Callers -> 0..Len(sems)]
        /\ WaitersParked'
    BY <1>10, LeaveType DEF ExitSuccess
  <2>2. metrics' \in Metrics
    <3> DEFINE b == state = "HALF_OPEN" /\ state' = "CLOSED"
    <3>1. metrics' = [metrics EXCEPT !.requests = @ + 1, !.successes = @ + 1,
                                     !.failures = IF b THEN 0 ELSE @]
      BY <1>10 DEF ExitSuccess
    <3>2. b \in BOOLEAN
      OBVIOUS
    <3>. HIDE DEF b
    <3>. QED
      BY <1>b, <3>1, <3>2, RequestMetricsType DEF TypeOK
  <2>3. window' \in Seq(Outcome) /\ log' \in Seq(Outcome)
    BY <1>10, <1>b, AppendProperties DEF ExitSuccess, TypeOK, Record, Outcome
  <2>4. /\ state' \in {state, "CLOSED"}
        /\ lastChange' \in {lastChange, now}
        /\ halfOpenSuccess' \in {halfOpenSuccess, halfOpenSuccess + 1}
    BY <1>10 DEF ExitSuccess, ProbeSucceeded
  <2>5. UNCHANGED <<now, ops, cur>>
    BY <1>10 DEF ExitSuccess
  <2>6. state' = "HALF_OPEN" => state = "HALF_OPEN"
    BY <2>4
  <2>. QED
    BY <1>b, <2>1, <2>2, <2>3, <2>4, <2>5, <2>6 DEF TypeOK, States
<1>11. ASSUME RecordSlow PROVE TypeInv'
  <2>1. metrics' \in Metrics
    BY <1>11, <1>b, FailureMetricsType DEF RecordSlow, TypeOK
  <2>2. /\ window' \in Seq(Outcome) /\ log' \in Seq(Outcome)
        /\ state' \in States /\ state' \in {state, "OPEN"}
        /\ lastChange' \in Nat /\ lastChange' <= now
        /\ halfOpenSuccess' = halfOpenSuccess /\ cur' = cur
    BY <1>11, FailType DEF RecordSlow
  <2>. QED
    BY <1>11, <1>b, <2>1, <2>2
    DEF RecordSlow, Begin, TypeOK, WaitersParked, callerVars
<1>12. ASSUME Reset PROVE TypeInv'
  <2>1. NoMetrics \in Metrics /\ <<>> \in Seq(Outcome)
    BY EmptySeq DEF NoMetrics, Metrics, None
  <2>. QED
    BY <1>12, <1>b, <2>1
    DEF Reset, Begin, TypeOK, WaitersParked, callerVars, States
<1>13. ASSUME Tick PROVE TypeInv'
  BY <1>13, <1>b DEF Tick, TypeOK, WaitersParked, breakerVars, callerVars
<1>14. CASE UNCHANGED vars
  BY <1>14 DEF vars, TypeOK, WaitersParked, breakerVars, callerVars
<1>. QED
  BY <1>1, <1>2, <1>3, <1>4, <1>5, <1>7, <1>8, <1>9, <1>10, <1>11, <1>12,
     <1>13, <1>14 DEF Next

\* The breaker and its callers are always in a state of the right shape, for
\* any number of callers and of half-open periods.
THEOREM TypeCorrect == Spec => []TypeOK
<1>1. Spec => []TypeInv
  BY InitType, StepType, PTL DEF Spec
<1>. QED
  BY <1>1, PTL DEF TypeInv

\* Line 259 is dead code.
THEOREM SemaphoreAlwaysThere == Spec => []HalfOpenHasSemaphore
<1>1. Spec => []TypeInv
  BY InitType, StepType, PTL DEF Spec
<1>. QED
  BY <1>1, PTL DEF TypeInv

-----------------------------------------------------------------------------
(* Permits.  The permits in the hands of a semaphore and the callers that    *)
(* own one of its permits are counted together: every step keeps the sum.    *)

\* A caller outside the block owns nothing.
OutsideHoldsNothing ==
    \A c \in Callers : pc[c] # "inside" => held[c] = 0 /\ probeOf[c] = 0

\* While anybody waits on it, a semaphore is not replaced by another one: the
\* breaker may reopen, but only now, and the cool-down is not over.
WaitersCurrent ==
    \A c \in Callers : pc[c] = "waiting" =>
        /\ cur \in {0, waitsOn[c]}
        /\ state = "OPEN" => lastChange = now

\* A caller gives its permit back where it came from, or not at all.
HeldIsOwn == \A c \in Callers : held[c] \in {0, probeOf[c]}

PermitsAccounted ==
    \A e \in 1..Len(sems) :
        Permits(sems[e]) + Cardinality(Probes(e)) <= ProbeCount

Responsive ==
    ~LoopMayBlock => WaitersCurrent /\ HeldIsOwn /\ PermitsAccounted

PermitInv == TypeInv /\ OutsideHoldsNothing /\ Responsive /\ NoProbeLeak

\* A caller that gets a permit at once remembers it as its probe's.
LEMMA AcquireKeepsOwn ==
    ASSUME TypeInv, HeldIsOwn, NEW c \in Callers, NEW pool, NEW k, AcquireProbe(c, pool, k)
    PROVE  HeldIsOwn'
<1>1. held = [d \in Callers |-> held[d]] /\ probeOf = [d \in Callers |-> probeOf[d]]
  BY DEF TypeInv, TypeOK
<1>2. CASE UNCHANGED <<held, probeOf>>
  BY <1>2 DEF HeldIsOwn
<1>3. CASE held' = [held EXCEPT ![c] = k] /\ probeOf' = [probeOf EXCEPT ![c] = k]
  <2>1. \A d \in Callers : \/ held'[d] = held[d] /\ probeOf'[d] = probeOf[d]
                           \/ held'[d] = probeOf'[d]
    BY <1>1, <1>3
  <2>. QED
    BY <2>1 DEF HeldIsOwn
<1>. QED
  BY <1>2, <1>3 DEF AcquireProbe

\* A step of one caller.
OnlyMoves(c) ==
    \A d \in Callers \ {c} :
        pc'[d] = pc[d] /\ held'[d] = held[d] /\ probeOf'[d] = probeOf[d]

\* The two counts when one caller moves.
LEMMA CallerMoves ==
    ASSUME NEW c \in Callers, OnlyMoves(c), NEW e
    PROVE  /\ Cardinality(Probes(e)) \in Nat /\ Cardinality(Probes(e)') \in Nat
           /\ Cardinality(Probes(e)') = Cardinality(Probes(e))
                                        - (IF c \in Probes(e) THEN 1 ELSE 0)
                                        + (IF c \in Probes(e)' THEN 1 ELSE 0)
           /\ Cardinality(Holders(e)) \in Nat /\ Cardinality(Holders(e)') \in Nat
           /\ Cardinality(Holders(e)') = Cardinality(Holders(e))
                                         - (IF c \in Holders(e) THEN 1 ELSE 0)
                                         + (IF c \in Holders(e)' THEN 1 ELSE 0)
<1>1. IsFiniteSet(Probes(e)) /\ IsFiniteSet(Holders(e))
  BY BreakerAssumption, FS_Subset DEF BreakerAssumption, Probes, Holders
<1>2. Probes(e)' \ {c} = Probes(e) \ {c}
  BY DEF Probes, OnlyMoves
<1>3. Holders(e)' \ {c} = Holders(e) \ {c}
  BY DEF Holders, OnlyMoves
<1>4. /\ Cardinality(Probes(e)) \in Nat /\ Cardinality(Probes(e)') \in Nat
      /\ Cardinality(Probes(e)') = Cardinality(Probes(e))
                                   - (IF c \in Probes(e) THEN 1 ELSE 0)
                                   + (IF c \in Probes(e)' THEN 1 ELSE 0)
  BY <1>1, <1>2, CountMoves
<1>5. /\ Cardinality(Holders(e)) \in Nat /\ Cardinality(Holders(e)') \in Nat
      /\ Cardinality(Holders(e)') = Cardinality(Holders(e))
                                    - (IF c \in Holders(e) THEN 1 ELSE 0)
                                    + (IF c \in Holders(e)' THEN 1 ELSE 0)
  BY <1>1, <1>3, CountMoves
<1>. QED
  BY <1>4, <1>5

\* Acquiring a permit, or parking for one, keeps both sums exactly.
LEMMA AcquireKeepsSums ==
    ASSUME TypeInv, OutsideHoldsNothing, NEW c \in Callers, pc[c] = "idle",
           NEW pool \in Seq(Semaphores(Callers)), NEW k \in 1..Len(pool),
           AcquireProbe(c, pool, k), NEW e \in 1..Len(pool)
    PROVE  /\ Permits(sems'[e]) + Cardinality(Probes(e)') =
                 Permits(pool[e]) + Cardinality(Probes(e))
           /\ Permits(sems'[e]) + Cardinality(Holders(e)') =
                 Permits(pool[e]) + Cardinality(Holders(e))
           /\ OutsideHoldsNothing'
<1>1. held[c] = 0 /\ probeOf[c] = 0
  BY DEF OutsideHoldsNothing
<1>2. IsSemaphore(pool[k], Callers) /\ IsSemaphore(pool[e], Callers)
  BY ElementOfSeq DEF IsSemaphore
<1>3. Permits(pool[k]) \in Nat /\ Permits(pool[e]) \in Nat
  BY <1>2, FieldsOfSemaphore
<1>4. /\ pc \in [Callers -> {"idle", "waiting", "inside"}]
      /\ held = [held EXCEPT ![c] = 0] /\ probeOf = [probeOf EXCEPT ![c] = 0]
      /\ DOMAIN held = Callers /\ DOMAIN probeOf = Callers
  BY <1>1 DEF TypeInv, TypeOK
<1>. e \in Nat \ {0} /\ k \in Nat \ {0}
  BY LenProperties
<1>5. CASE /\ CanAcquire(pool[k])
           /\ sems' = [pool EXCEPT ![k] = TakePermit(@)]
           /\ pc' = [pc EXCEPT ![c] = "inside"]
           /\ held' = [held EXCEPT ![c] = k]
           /\ probeOf' = [probeOf EXCEPT ![c] = k]
  <2>1. /\ IsSemaphore(TakePermit(pool[k]), Callers)
        /\ Permits(TakePermit(pool[k])) = Permits(pool[k]) - 1
    BY <1>2, <1>5, TakePermits
  <2>2. Permits(sems'[e]) = Permits(pool[e]) - (IF k = e THEN 1 ELSE 0)
    BY <1>3, <1>5, <2>1, PoolUpdate
  <2>3. /\ Cardinality(Probes(e)) \in Nat /\ Cardinality(Holders(e)) \in Nat
        /\ Cardinality(Probes(e)') =
              Cardinality(Probes(e)) + (IF k = e THEN 1 ELSE 0)
        /\ Cardinality(Holders(e)') =
              Cardinality(Holders(e)) + (IF k = e THEN 1 ELSE 0)
    <3>1. OnlyMoves(c)
      BY <1>4, <1>5 DEF OnlyMoves
    <3>2. c \notin Probes(e) /\ c \notin Holders(e)
      BY DEF Probes, Holders
    <3>3. (c \in Probes(e)' <=> k = e) /\ (c \in Holders(e)' <=> k = e)
      BY <1>4, <1>5 DEF Probes, Holders
    <3>. QED
      BY <3>1, <3>2, <3>3, CallerMoves
  <2>4. OutsideHoldsNothing'
    BY <1>4, <1>5 DEF OutsideHoldsNothing
  <2>. QED
    BY <1>3, <2>1, <2>2, <2>3, <2>4, SMTT(20)
<1>6. CASE /\ sems' = [pool EXCEPT ![k] = Park(@, c)]
           /\ pc' = [pc EXCEPT ![c] = "waiting"]
           /\ held' = held
           /\ probeOf' = probeOf
  <2>1. /\ IsSemaphore(Park(pool[k], c), Callers)
        /\ Permits(Park(pool[k], c)) = Permits(pool[k])
    BY <1>2, ParkPermits
  <2>2. Permits(sems'[e]) = Permits(pool[e])
    BY <1>6, <2>1, PoolUpdate
  <2>3. /\ Cardinality(Probes(e)) \in Nat /\ Cardinality(Holders(e)) \in Nat
        /\ Cardinality(Probes(e)') = Cardinality(Probes(e))
        /\ Cardinality(Holders(e)') = Cardinality(Holders(e))
    <3>1. OnlyMoves(c)
      BY <1>4, <1>6 DEF OnlyMoves
    <3>2. c \notin Probes(e) /\ c \notin Holders(e)
      BY DEF Probes, Holders
    <3>3. c \notin Probes(e)' /\ c \notin Holders(e)'
      BY <1>4, <1>6 DEF Probes, Holders
    <3>. QED
      BY <3>1, <3>2, <3>3, CallerMoves
  <2>4. OutsideHoldsNothing'
    BY <1>1, <1>4, <1>6 DEF OutsideHoldsNothing
  <2>. QED
    BY <1>3, <2>1, <2>2, <2>3, <2>4
<1>. QED
  BY <1>5, <1>6 DEF AcquireProbe

\* Coming in with the permit one was handed.
LEMMA ResumeKeepsSums ==
    ASSUME TypeInv, OutsideHoldsNothing, NEW c \in Callers, ResumeProbe(c),
           NEW e \in 1..Len(sems)
    PROVE  /\ Permits(sems'[e]) + Cardinality(Probes(e)') =
                 Permits(sems[e]) + Cardinality(Probes(e))
           /\ e = cur => Permits(sems'[e]) + Cardinality(Holders(e)')
                           >= Permits(sems[e]) + Cardinality(Holders(e))
           /\ OutsideHoldsNothing'
<1>1. /\ pc[c] = "waiting" /\ held[c] = 0 /\ probeOf[c] = 0
      /\ waitsOn[c] \in 1..Len(sems)
  BY TypeFacts
  DEF ResumeProbe, Remember, OutsideHoldsNothing, TypeInv, TypeOK, WaitersParked
<1>2. PICK i \in WokenPlaces(sems[waitsOn[c]], c) :
        sems' = [sems EXCEPT ![waitsOn[c]] = Resume(@, i)]
  BY DEF ResumeProbe, Remember
<1>3. /\ IsSemaphore(Resume(sems[waitsOn[c]], i), Callers)
      /\ Permits(Resume(sems[waitsOn[c]], i)) = Permits(sems[waitsOn[c]]) - 1
  BY <1>1, TypeFacts, ResumePermits
<1>4. Permits(sems[e]) \in Nat /\ Permits(sems[waitsOn[c]]) \in Nat
  <2>1. /\ IsSemaphore(sems[e], Callers)
        /\ IsSemaphore(sems[waitsOn[c]], Callers)
    BY <1>1, TypeFacts
  <2>. QED
    BY <2>1, FieldsOfSemaphore
<1>5. Permits(sems'[e]) = Permits(sems[e]) - (IF waitsOn[c] = e THEN 1 ELSE 0)
  BY <1>1, <1>2, <1>3, <1>4, PoolUpdate DEF TypeInv, TypeOK
<1>6. /\ OnlyMoves(c) /\ pc'[c] = "inside"
      /\ held'[c] = cur /\ probeOf'[c] = waitsOn[c]
  BY DEF ResumeProbe, Remember, OnlyMoves, TypeInv, TypeOK
<1>7. c \notin Probes(e) /\ c \notin Holders(e)
  BY <1>1 DEF Probes, Holders
<1>8. (c \in Probes(e)' <=> waitsOn[c] = e) /\ (c \in Holders(e)' <=> cur = e)
  BY <1>6 DEF Probes, Holders
<1>9. /\ Cardinality(Probes(e)) \in Nat /\ Cardinality(Holders(e)) \in Nat
      /\ Cardinality(Probes(e)') =
            Cardinality(Probes(e)) + (IF waitsOn[c] = e THEN 1 ELSE 0)
      /\ Cardinality(Holders(e)') =
            Cardinality(Holders(e)) + (IF cur = e THEN 1 ELSE 0)
  BY <1>6, <1>7, <1>8, CallerMoves
<1>10. OutsideHoldsNothing'
  BY <1>6 DEF OutsideHoldsNothing, OnlyMoves
<1>. QED
  BY <1>4, <1>5, <1>9, <1>10, SMTT(20)

\* Giving up the wait.
LEMMA LeaveQueueKeepsSums ==
    ASSUME TypeInv, OutsideHoldsNothing, NEW c \in Callers, LeaveQueue(c),
           NEW e \in 1..Len(sems)
    PROVE  /\ Permits(sems'[e]) = Permits(sems[e])
           /\ Cardinality(Probes(e)') = Cardinality(Probes(e))
           /\ Cardinality(Holders(e)') = Cardinality(Holders(e))
           /\ OutsideHoldsNothing'
<1>1. /\ pc[c] = "waiting" /\ held[c] = 0 /\ probeOf[c] = 0
      /\ waitsOn[c] \in 1..Len(sems)
  BY TypeFacts
  DEF LeaveQueue, OutsideHoldsNothing, TypeInv, TypeOK, WaitersParked
<1>2. PICK i \in Places(sems[waitsOn[c]], c) :
        sems' = [sems EXCEPT ![waitsOn[c]] = GiveUp(@, i)]
  BY DEF LeaveQueue
<1>3. /\ IsSemaphore(GiveUp(sems[waitsOn[c]], i), Callers)
      /\ Permits(GiveUp(sems[waitsOn[c]], i)) = Permits(sems[waitsOn[c]])
  BY <1>1, TypeFacts, GiveUpPermits
<1>4. Permits(sems'[e]) = Permits(sems[e])
  BY <1>1, <1>2, <1>3, PoolUpdate DEF TypeInv, TypeOK
<1>5. /\ OnlyMoves(c) /\ pc'[c] = "idle"
      /\ held'[c] = 0 /\ probeOf'[c] = 0
  BY <1>1 DEF LeaveQueue, OnlyMoves, TypeInv, TypeOK
<1>6. /\ c \notin Probes(e) /\ c \notin Holders(e)
      /\ c \notin Probes(e)' /\ c \notin Holders(e)'
  BY <1>1, <1>5 DEF Probes, Holders
<1>7. /\ Cardinality(Probes(e)') = Cardinality(Probes(e))
      /\ Cardinality(Holders(e)') = Cardinality(Holders(e))
  BY <1>5, <1>6, CallerMoves
<1>8. OutsideHoldsNothing'
  BY <1>5 DEF OutsideHoldsNothing, OnlyMoves
<1>. QED
  BY <1>4, <1>7, <1>8

\* Leaving the block.
LEMMA LeaveKeepsSums ==
    ASSUME TypeInv, OutsideHoldsNothing, NEW c \in Callers, Leave(c),
           NEW e \in 1..Len(sems)
    PROVE  /\ Permits(sems'[e]) + Cardinality(Holders(e)') =
                 Permits(sems[e]) + Cardinality(Holders(e))
           /\ held[c] \in {0, probeOf[c]} =>
                 Permits(sems'[e]) + Cardinality(Probes(e)')
                   <= Permits(sems[e]) + Cardinality(Probes(e))
           /\ OutsideHoldsNothing'
<1>1. /\ pc[c] = "inside" /\ held[c] \in 0..Len(sems) /\ Len(sems) \in Nat
  BY TypeFacts DEF Leave, ReturnPermit, ReleaseHeld, TypeInv, TypeOK
<1>2. Permits(sems[e]) \in Nat
  BY TypeFacts, FieldsOfSemaphore
<1>3. Permits(sems'[e]) = Permits(sems[e]) + (IF held[c] = e THEN 1 ELSE 0)
  <2>1. CASE held[c] = 0
    BY <1>2, <2>1 DEF Leave, ReturnPermit, ReleaseHeld
  <2>2. CASE held[c] # 0
    <3>1. held[c] \in 1..Len(sems)
      BY <1>1, <2>2
    <3>2. /\ IsSemaphore(Release(sems[held[c]]), Callers)
          /\ Permits(Release(sems[held[c]])) = Permits(sems[held[c]]) + 1
      BY <3>1, TypeFacts, ReleasePermits
    <3>3. sems' = [sems EXCEPT ![held[c]] = Release(@)]
      BY <2>2 DEF Leave, ReturnPermit, ReleaseHeld
    <3>. QED
      BY <1>2, <3>1, <3>2, <3>3, PoolUpdate DEF TypeInv, TypeOK
  <2>. QED
    BY <2>1, <2>2
<1>4. /\ OnlyMoves(c) /\ pc'[c] = "idle"
      /\ held'[c] = 0 /\ probeOf'[c] = 0
  BY DEF Leave, ReturnPermit, ReleaseHeld, OnlyMoves, TypeInv, TypeOK
<1>5. /\ c \in Probes(e) <=> probeOf[c] = e
      /\ c \in Holders(e) <=> held[c] = e
      /\ c \notin Probes(e)' /\ c \notin Holders(e)'
  BY <1>1, <1>4 DEF Probes, Holders
<1>6. /\ Cardinality(Probes(e)) \in Nat /\ Cardinality(Holders(e)) \in Nat
      /\ Cardinality(Probes(e)') =
            Cardinality(Probes(e)) - (IF probeOf[c] = e THEN 1 ELSE 0)
      /\ Cardinality(Holders(e)') =
            Cardinality(Holders(e)) - (IF held[c] = e THEN 1 ELSE 0)
  BY <1>4, <1>5, CallerMoves
<1>7. OutsideHoldsNothing'
  BY <1>4 DEF OutsideHoldsNothing, OnlyMoves
<1>. QED
  BY <1>1, <1>2, <1>3, <1>6, <1>7

\* A semaphore that does not exist yet has no probes.
LEMMA FutureSemaphore ==
    ASSUME TypeInv
    PROVE  /\ Cardinality(Probes(Len(sems) + 1)) = 0
           /\ Cardinality(Holders(Len(sems) + 1)) = 0
<1>1. Probes(Len(sems) + 1) = {} /\ Holders(Len(sems) + 1) = {}
  BY TypeFacts DEF Probes, Holders, TypeInv, TypeOK
<1>. QED
  BY <1>1, FS_EmptySet

\* NoProbeLeak spoken of a fixed semaphore, before and after a step.
LEMMA LeakBefore ==
    ASSUME NoProbeLeak, state = "HALF_OPEN", NEW e, e = cur
    PROVE  Permits(sems[e]) + Cardinality(Holders(e)) >= ProbeCount
  BY DEF NoProbeLeak, Holders

\* What a step must leave behind at the current semaphore keeps NoProbeLeak.
LEMMA LeakAfter ==
    ASSUME NEW e, e = cur',
           state' = "HALF_OPEN" =>
               Permits(sems'[e]) + Cardinality(Holders(e)') >= ProbeCount
    PROVE  NoProbeLeak'
  BY DEF NoProbeLeak, Holders

\* A step that moves no caller and touches no semaphore.
LEMMA QuietStep ==
    ASSUME PermitInv, UNCHANGED <<sems, pc, waitsOn, held, probeOf>>,
           state' = "HALF_OPEN" => state = "HALF_OPEN" /\ cur' = cur,
           ~LoopMayBlock => WaitersCurrent'
    PROVE  OutsideHoldsNothing' /\ Responsive' /\ NoProbeLeak'
<1>1. OutsideHoldsNothing'
  BY DEF PermitInv, OutsideHoldsNothing
<1>2. \A e : Probes(e)' = Probes(e) /\ Holders(e)' = Holders(e)
  BY DEF Probes, Holders
<1>3. Responsive'
  BY <1>2 DEF PermitInv, Responsive, HeldIsOwn, PermitsAccounted
<1>4. NoProbeLeak'
  <2>1. PICK e : e = cur'
    OBVIOUS
  <2>2. state' = "HALF_OPEN" =>
          Permits(sems[e]) + Cardinality(Holders(e)) >= ProbeCount
    BY <2>1, LeakBefore DEF PermitInv
  <2>. QED
    BY <1>2, <2>1, <2>2, LeakAfter
<1>. QED
  BY <1>1, <1>3, <1>4

\* Every step keeps the account of the permits.
LEMMA StepPermits == PermitInv /\ [Next]_vars => PermitInv'
<1> SUFFICES ASSUME PermitInv, [Next]_vars
             PROVE  OutsideHoldsNothing' /\ Responsive' /\ NoProbeLeak'
  BY StepType DEF PermitInv
<1>a. /\ TypeInv /\ OutsideHoldsNothing /\ Responsive /\ NoProbeLeak
      /\ TypeInv'
  BY StepType DEF PermitInv
<1>b. /\ Len(sems) \in Nat /\ cur \in 0..Len(sems)
      /\ now \in Nat /\ lastChange \in Nat
      /\ OpenStateDuration \in Nat \ {0} /\ ProbeCount \in Nat
      /\ \A e \in 1..Len(sems) : /\ IsSemaphore(sems[e], Callers)
                                 /\ Permits(sems[e]) \in Nat
  <2>1. /\ Len(sems) \in Nat /\ cur \in 0..Len(sems)
        /\ now \in Nat /\ lastChange \in Nat
    BY <1>a, TypeFacts DEF TypeInv, TypeOK
  <2>2. OpenStateDuration \in Nat \ {0} /\ ProbeCount \in Nat
    BY BreakerAssumption DEF BreakerAssumption
  <2>3. \A e \in 1..Len(sems) : IsSemaphore(sems[e], Callers)
    BY <1>a, TypeFacts
  <2>4. \A e \in 1..Len(sems) : Permits(sems[e]) \in Nat
    BY <2>3, FieldsOfSemaphore
  <2>. QED
    BY <2>1, <2>2, <2>3, <2>4
<1>1. ASSUME NEW c \in Callers, EnterClosed(c)
      PROVE  OutsideHoldsNothing' /\ Responsive' /\ NoProbeLeak'
  <2>1. /\ pc[c] = "idle" /\ held[c] = 0 /\ probeOf[c] = 0
        /\ pc' = [pc EXCEPT ![c] = "inside"]
        /\ state = "CLOSED"
        /\ UNCHANGED <<now, state, cur, lastChange, sems, waitsOn, held, probeOf>>
    BY <1>1, <1>a DEF EnterClosed, OutsideHoldsNothing, breakerVars
  <2>2. OnlyMoves(c) /\ pc'[c] = "inside"
    BY <2>1, <1>a DEF OnlyMoves, TypeInv, TypeOK
  <2>3. \A e \in 1..Len(sems) : Cardinality(Probes(e)') = Cardinality(Probes(e))
    <3> SUFFICES ASSUME NEW e \in 1..Len(sems)
                 PROVE  Cardinality(Probes(e)') = Cardinality(Probes(e))
      OBVIOUS
    <3>1. c \notin Probes(e) /\ c \notin Probes(e)'
      BY <2>1, <1>b DEF Probes
    <3>. QED
      BY <2>2, <3>1, CallerMoves
  <2>4. OutsideHoldsNothing'
    BY <2>1, <2>2, <1>a DEF OutsideHoldsNothing, OnlyMoves
  <2>5. Responsive'
    BY <2>1, <2>2, <2>3, <1>a
    DEF Responsive, WaitersCurrent, HeldIsOwn, PermitsAccounted, OnlyMoves
  <2>6. NoProbeLeak'
    BY <2>1 DEF NoProbeLeak
  <2>. QED
    BY <2>4, <2>5, <2>6
<1>2. ASSUME NEW c \in Callers, EnterOpen(c)
      PROVE  OutsideHoldsNothing' /\ Responsive' /\ NoProbeLeak'
  BY <1>2, <1>a, QuietStep
  DEF EnterOpen, breakerVars, callerVars, Responsive, WaitersCurrent
<1>3. ASSUME NEW c \in Callers, EnterAfterCoolDown(c)
      PROVE  OutsideHoldsNothing' /\ Responsive' /\ NoProbeLeak'
  <2> DEFINE pool == Append(sems, NewSemaphore(ProbeCount))
  <2>1. PICK k : k = Len(sems) + 1
    OBVIOUS
  <2>2. /\ pool \in Seq(Semaphores(Callers)) /\ Len(pool) = k
        /\ k \in 1..Len(pool)
        /\ \A e \in 1..Len(sems) : pool[e] = sems[e]
        /\ Permits(pool[k]) = ProbeCount
    <3>1. /\ pool \in Seq(Semaphores(Callers)) /\ Len(pool) = Len(sems) + 1
          /\ \A e \in 1..Len(sems) : pool[e] = sems[e]
          /\ pool[Len(sems) + 1] = NewSemaphore(ProbeCount)
      BY <1>a, <1>b, PoolAppend DEF TypeInv, TypeOK
    <3>2. Permits(NewSemaphore(ProbeCount)) = ProbeCount
      BY <1>b, NewSemaphorePermits
    <3>. QED
      BY <1>b, <2>1, <3>1, <3>2
  <2>. HIDE DEF pool
  <2>3. /\ AcquireProbe(c, pool, k) /\ pc[c] = "idle"
        /\ cur' = k /\ state' = "HALF_OPEN" /\ state = "OPEN"
        /\ now - lastChange >= OpenStateDuration
    BY <1>3, <2>1 DEF EnterAfterCoolDown, CooledDown, pool
  <2>4. \A e \in 1..Len(pool) :
          /\ Permits(sems'[e]) + Cardinality(Probes(e)') =
                Permits(pool[e]) + Cardinality(Probes(e))
          /\ Permits(sems'[e]) + Cardinality(Holders(e)') =
                Permits(pool[e]) + Cardinality(Holders(e))
          /\ OutsideHoldsNothing'
    BY <1>a, <2>2, <2>3, AcquireKeepsSums
  <2>5. Cardinality(Probes(k)) = 0 /\ Cardinality(Holders(k)) = 0
    BY <1>a, <2>1, FutureSemaphore
  <2>6. Len(sems') = k
    BY <1>a, <1>b, <2>1, <2>2, <2>3, AcquireType
  <2>7. ASSUME ~LoopMayBlock
        PROVE  WaitersCurrent' /\ HeldIsOwn' /\ PermitsAccounted'
    <3>1. \A d \in Callers : pc[d] # "waiting"
      BY <1>a, <1>b, <2>3, <2>7 DEF Responsive, WaitersCurrent
    <3>2. \A d \in Callers : pc'[d] = "waiting" => waitsOn'[d] = k
      BY <1>a, <2>3, <3>1 DEF AcquireProbe, TypeInv, TypeOK
    <3>3. WaitersCurrent'
      BY <2>3, <3>2 DEF WaitersCurrent
    <3>4. HeldIsOwn'
      BY <1>a, <2>3, <2>7, AcquireKeepsOwn DEF Responsive
    <3>5. PermitsAccounted'
      <4> SUFFICES ASSUME NEW e \in 1..k
                   PROVE  Permits(sems'[e]) + Cardinality(Probes(e)') <= ProbeCount
        BY <2>6 DEF PermitsAccounted
      <4>1. CASE e = k
        BY <1>b, <2>2, <2>4, <2>5, <4>1
      <4>2. CASE e # k
        <5>1. e \in 1..Len(sems) /\ e \in 1..Len(pool)
          BY <1>b, <2>1, <2>2, <4>2
        <5>2. Permits(sems[e]) + Cardinality(Probes(e)) <= ProbeCount
          BY <1>a, <2>7, <5>1 DEF Responsive, PermitsAccounted
        <5>. QED
          BY <2>2, <2>4, <5>1, <5>2
      <4>. QED
        BY <4>1, <4>2
    <3>. QED
      BY <3>3, <3>4, <3>5
  <2>8. NoProbeLeak'
    BY <1>b, <2>2, <2>3, <2>4, <2>5, LeakAfter
  <2>. QED
    BY <2>2, <2>4, <2>7, <2>8 DEF Responsive
<1>4. ASSUME NEW c \in Callers, EnterHalfOpen(c)
      PROVE  OutsideHoldsNothing' /\ Responsive' /\ NoProbeLeak'
  <2>1. PICK k : k = cur
    OBVIOUS
  <2>2. /\ k \in 1..Len(sems) /\ sems \in Seq(Semaphores(Callers))
        /\ AcquireProbe(c, sems, k) /\ pc[c] = "idle"
        /\ state = "HALF_OPEN"
        /\ UNCHANGED <<now, state, cur, lastChange>>
    BY <1>4, <1>a, <1>b, <2>1
    DEF EnterHalfOpen, TypeInv, TypeOK, HalfOpenHasSemaphore, breakerVars
  <2>3. \A e \in 1..Len(sems) :
          /\ Permits(sems'[e]) + Cardinality(Probes(e)') =
                Permits(sems[e]) + Cardinality(Probes(e))
          /\ Permits(sems'[e]) + Cardinality(Holders(e)') =
                Permits(sems[e]) + Cardinality(Holders(e))
          /\ OutsideHoldsNothing'
    BY <1>a, <2>2, AcquireKeepsSums
  <2>4. Len(sems') = Len(sems)
    BY <1>a, <1>b, <2>2, AcquireType
  <2>5. ASSUME ~LoopMayBlock
        PROVE  WaitersCurrent' /\ HeldIsOwn' /\ PermitsAccounted'
    <3>1. WaitersCurrent'
      BY <1>a, <2>1, <2>2, <2>5
      DEF Responsive, WaitersCurrent, AcquireProbe, TypeInv, TypeOK
    <3>2. HeldIsOwn'
      BY <1>a, <2>2, <2>5, AcquireKeepsOwn DEF Responsive
    <3>3. PermitsAccounted'
      BY <1>a, <2>3, <2>4, <2>5 DEF Responsive, PermitsAccounted
    <3>. QED
      BY <3>1, <3>2, <3>3
  <2>6. NoProbeLeak'
    BY <1>a, <2>1, <2>2, <2>3, LeakBefore, LeakAfter
  <2>. QED
    BY <2>2, <2>3, <2>5, <2>6 DEF Responsive
<1>5. ASSUME NEW c \in Callers, ResumeProbe(c)
      PROVE  OutsideHoldsNothing' /\ Responsive' /\ NoProbeLeak'
  <2>1. \A e \in 1..Len(sems) :
          /\ Permits(sems'[e]) + Cardinality(Probes(e)') =
                Permits(sems[e]) + Cardinality(Probes(e))
          /\ e = cur => Permits(sems'[e]) + Cardinality(Holders(e)')
                          >= Permits(sems[e]) + Cardinality(Holders(e))
          /\ OutsideHoldsNothing'
    BY <1>5, <1>a, ResumeKeepsSums
  <2>2. /\ pc[c] = "waiting" /\ OnlyMoves(c)
        /\ pc'[c] = "inside" /\ held'[c] = cur /\ probeOf'[c] = waitsOn[c]
        /\ \A d \in Callers \ {c} : waitsOn'[d] = waitsOn[d]
        /\ UNCHANGED <<now, state, cur, lastChange>>
    BY <1>5, <1>a DEF ResumeProbe, Remember, OnlyMoves, TypeInv, TypeOK, breakerVars
  <2>3. waitsOn[c] \in 1..Len(sems)
    BY <1>a, <1>b, <2>2 DEF TypeInv, TypeOK, WaitersParked
  <2>4. Len(sems') = Len(sems)
    <3>1. PICK i \in WokenPlaces(sems[waitsOn[c]], c) :
            sems' = [sems EXCEPT ![waitsOn[c]] = Resume(@, i)]
      BY <1>5 DEF ResumeProbe, Remember
    <3>2. IsSemaphore(Resume(sems[waitsOn[c]], i), Callers)
      BY <1>b, <2>3, ResumePermits
    <3>. QED
      BY <1>a, <2>3, <3>1, <3>2, PoolUpdate DEF TypeInv, TypeOK
  <2>5. ASSUME ~LoopMayBlock
        PROVE  WaitersCurrent' /\ HeldIsOwn' /\ PermitsAccounted'
    <3>1. WaitersCurrent'
      BY <1>a, <2>2, <2>5 DEF Responsive, WaitersCurrent, OnlyMoves
    <3>2. HeldIsOwn'
      BY <1>a, <2>2, <2>5 DEF Responsive, WaitersCurrent, HeldIsOwn, OnlyMoves
    <3>3. PermitsAccounted'
      BY <1>a, <2>1, <2>4, <2>5 DEF Responsive, PermitsAccounted
    <3>. QED
      BY <3>1, <3>2, <3>3
  <2>6. NoProbeLeak'
    <3>1. PICK e : e = cur
      OBVIOUS
    <3>2. CASE state = "HALF_OPEN"
      <4>1. e \in 1..Len(sems)
        BY <1>a, <1>b, <3>1, <3>2 DEF TypeInv, HalfOpenHasSemaphore
      <4>2. /\ Permits(sems[e]) + Cardinality(Holders(e)) >= ProbeCount
            /\ Permits(sems'[e]) + Cardinality(Holders(e)')
                  >= Permits(sems[e]) + Cardinality(Holders(e))
        BY <1>a, <2>1, <3>1, <3>2, <4>1, LeakBefore
      <4>3. /\ Cardinality(Holders(e)) \in Nat /\ Cardinality(Holders(e)') \in Nat
            /\ Permits(sems[e]) \in Nat /\ Permits(sems'[e]) \in Nat
        <5>1. IsSemaphore(sems'[e], Callers)
          BY <1>a, <2>4, <4>1, ElementOfSeq DEF TypeInv, TypeOK, IsSemaphore
        <5>. QED
          BY <1>b, <2>2, <4>1, <5>1, CallerMoves, FieldsOfSemaphore
      <4>. QED
        BY <1>b, <2>2, <3>1, <4>2, <4>3, LeakAfter
    <3>3. CASE state # "HALF_OPEN"
      BY <2>2, <3>3 DEF NoProbeLeak
    <3>. QED
      BY <3>2, <3>3
  <2>. QED
    BY <2>1, <2>3, <2>5, <2>6 DEF Responsive
<1>6. ASSUME NEW c \in Callers, LeaveQueue(c)
      PROVE  OutsideHoldsNothing' /\ Responsive' /\ NoProbeLeak'
  <2>1. \A e \in 1..Len(sems) :
          /\ Permits(sems'[e]) = Permits(sems[e])
          /\ Cardinality(Probes(e)') = Cardinality(Probes(e))
          /\ Cardinality(Holders(e)') = Cardinality(Holders(e))
          /\ OutsideHoldsNothing'
    BY <1>6, <1>a, LeaveQueueKeepsSums
  <2>2. /\ pc[c] = "waiting" /\ OnlyMoves(c) /\ pc'[c] = "idle"
        /\ \A d \in Callers \ {c} : waitsOn'[d] = waitsOn[d]
        /\ UNCHANGED <<now, state, cur, lastChange, held, probeOf>>
    BY <1>6, <1>a DEF LeaveQueue, OnlyMoves, TypeInv, TypeOK, breakerVars
  <2>3. waitsOn[c] \in 1..Len(sems)
    BY <1>a, <1>b, <2>2 DEF TypeInv, TypeOK, WaitersParked
  <2>4. Len(sems') = Len(sems)
    <3>1. PICK i \in Places(sems[waitsOn[c]], c) :
            sems' = [sems EXCEPT ![waitsOn[c]] = GiveUp(@, i)]
      BY <1>6 DEF LeaveQueue
    <3>2. IsSemaphore(GiveUp(sems[waitsOn[c]], i), Callers)
      BY <1>b, <2>3, GiveUpPermits
    <3>. QED
      BY <1>a, <2>3, <3>1, <3>2, PoolUpdate DEF TypeInv, TypeOK
  <2>5. ASSUME ~LoopMayBlock
        PROVE  WaitersCurrent' /\ HeldIsOwn' /\ PermitsAccounted'
    <3>1. WaitersCurrent'
      BY <1>a, <2>2, <2>5 DEF Responsive, WaitersCurrent, OnlyMoves
    <3>2. HeldIsOwn'
      BY <1>a, <2>2, <2>5 DEF Responsive, HeldIsOwn
    <3>3. PermitsAccounted'
      BY <1>a, <2>1, <2>4, <2>5 DEF Responsive, PermitsAccounted
    <3>. QED
      BY <3>1, <3>2, <3>3
  <2>6. NoProbeLeak'
    <3>1. PICK e : e = cur
      OBVIOUS
    <3>2. state = "HALF_OPEN" => e \in 1..Len(sems)
      BY <1>a, <1>b, <3>1 DEF TypeInv, HalfOpenHasSemaphore
    <3>. QED
      BY <1>a, <2>1, <2>2, <3>1, <3>2, LeakBefore, LeakAfter
  <2>. QED
    BY <2>1, <2>3, <2>5, <2>6 DEF Responsive

<1>7. ASSUME NEW c \in Callers, Leave(c), UNCHANGED <<now, cur>>,
             state' = "HALF_OPEN" => state = "HALF_OPEN",
             state' = "OPEN" => \/ lastChange' = now
                                \/ state = "OPEN" /\ lastChange' = lastChange
      PROVE  OutsideHoldsNothing' /\ Responsive' /\ NoProbeLeak'
  <2>1. \A e \in 1..Len(sems) :
          /\ Permits(sems'[e]) + Cardinality(Holders(e)') =
                Permits(sems[e]) + Cardinality(Holders(e))
          /\ held[c] \in {0, probeOf[c]} =>
                Permits(sems'[e]) + Cardinality(Probes(e)')
                  <= Permits(sems[e]) + Cardinality(Probes(e))
          /\ OutsideHoldsNothing'
    BY <1>7, <1>a, LeaveKeepsSums
  <2>2. /\ pc[c] = "inside" /\ OnlyMoves(c) /\ pc'[c] = "idle"
        /\ held'[c] = 0 /\ probeOf'[c] = 0
        /\ waitsOn' = waitsOn
    BY <1>7, <1>a DEF Leave, ReturnPermit, ReleaseHeld, OnlyMoves, TypeInv, TypeOK
  <2>3. Len(sems') = Len(sems)
    BY <1>7, <1>a, LeaveType
  <2>4. OutsideHoldsNothing'
    BY <1>a, <2>2 DEF OutsideHoldsNothing, OnlyMoves
  <2>5. ASSUME ~LoopMayBlock
        PROVE  WaitersCurrent' /\ HeldIsOwn' /\ PermitsAccounted'
    <3>1. WaitersCurrent'
      BY <1>7, <1>a, <2>2, <2>5 DEF Responsive, WaitersCurrent, OnlyMoves
    <3>2. HeldIsOwn'
      BY <1>a, <2>2, <2>5 DEF Responsive, HeldIsOwn, OnlyMoves
    <3>3. PermitsAccounted'
      <4> SUFFICES ASSUME NEW e \in 1..Len(sems)
                   PROVE  Permits(sems'[e]) + Cardinality(Probes(e)') <= ProbeCount
        BY <2>3 DEF PermitsAccounted
      <4>1. /\ Permits(sems'[e]) + Cardinality(Probes(e)')
                 <= Permits(sems[e]) + Cardinality(Probes(e))
            /\ Permits(sems[e]) + Cardinality(Probes(e)) <= ProbeCount
        BY <1>a, <2>1, <2>5 DEF Responsive, PermitsAccounted, HeldIsOwn
      <4>2. /\ Cardinality(Probes(e)) \in Nat /\ Cardinality(Probes(e)') \in Nat
            /\ Permits(sems[e]) \in Nat /\ Permits(sems'[e]) \in Nat
        <5>1. IsSemaphore(sems'[e], Callers)
          BY <1>a, <2>3, ElementOfSeq DEF TypeInv, TypeOK, IsSemaphore
        <5>. QED
          BY <1>b, <2>2, <5>1, CallerMoves, FieldsOfSemaphore
      <4>. QED
        BY <1>b, <4>1, <4>2
    <3>. QED
      BY <3>1, <3>2, <3>3
  <2>6. NoProbeLeak'
    <3>1. PICK e : e = cur
      OBVIOUS
    <3>2. state = "HALF_OPEN" => e \in 1..Len(sems)
      BY <1>a, <1>b, <3>1 DEF TypeInv, HalfOpenHasSemaphore
    <3>. QED
      BY <1>7, <1>a, <2>1, <3>1, <3>2, LeakBefore, LeakAfter
  <2>. QED
    BY <2>4, <2>5, <2>6 DEF Responsive
<1>8. ASSUME NEW c \in Callers, ExitFailure(c)
      PROVE  OutsideHoldsNothing' /\ Responsive' /\ NoProbeLeak'
  <2>1. /\ Leave(c) /\ UNCHANGED <<now, cur>>
        /\ \/ state' = "OPEN" /\ lastChange' = now
           \/ state' = state /\ lastChange' = lastChange /\ state # "HALF_OPEN"
    BY <1>8 DEF ExitFailure, FailAndTryOpen
  <2>. QED
    BY <1>7, <2>1
<1>9. ASSUME NEW c \in Callers, ExitSuccess(c)
      PROVE  OutsideHoldsNothing' /\ Responsive' /\ NoProbeLeak'
  <2>1. /\ Leave(c) /\ UNCHANGED <<now, cur>>
        /\ \/ state' = "CLOSED"
           \/ state' = state /\ lastChange' = lastChange
    BY <1>9 DEF ExitSuccess, ProbeSucceeded
  <2>. QED
    BY <1>7, <2>1
<1>10. ASSUME RecordSlow
       PROVE  OutsideHoldsNothing' /\ Responsive' /\ NoProbeLeak'
  <2>1. /\ UNCHANGED <<now, cur, sems, pc, waitsOn, held, probeOf>>
        /\ state = "CLOSED"
        /\ state' = "CLOSED" \/ (state' = "OPEN" /\ lastChange' = now)
    BY <1>10 DEF RecordSlow, FailAndTryOpen, callerVars
  <2>2. ~LoopMayBlock => WaitersCurrent'
    BY <1>a, <2>1 DEF Responsive, WaitersCurrent
  <2>. QED
    BY <2>1, <2>2, QuietStep
<1>11. ASSUME Reset
       PROVE  OutsideHoldsNothing' /\ Responsive' /\ NoProbeLeak'
  <2>1. /\ UNCHANGED <<sems, pc, waitsOn, held, probeOf>>
        /\ state' = "CLOSED" /\ cur' = 0
    BY <1>11 DEF Reset, callerVars
  <2>2. WaitersCurrent'
    BY <2>1 DEF WaitersCurrent
  <2>. QED
    BY <2>1, <2>2, QuietStep
<1>12. ASSUME Tick
       PROVE  OutsideHoldsNothing' /\ Responsive' /\ NoProbeLeak'
  <2>1. /\ UNCHANGED <<state, cur, sems, pc, waitsOn, held, probeOf>>
        /\ LoopMayBlock \/ \A c \in Callers : pc[c] # "waiting"
    BY <1>12 DEF Tick, callerVars, breakerVars
  <2>2. ~LoopMayBlock => WaitersCurrent'
    BY <2>1 DEF WaitersCurrent
  <2>. QED
    BY <2>1, <2>2, QuietStep
<1>13. CASE UNCHANGED vars
  <2>1. UNCHANGED <<now, state, cur, lastChange, sems, pc, waitsOn, held, probeOf>>
    BY <1>13 DEF vars, callerVars, breakerVars
  <2>2. ~LoopMayBlock => WaitersCurrent'
    BY <1>a, <2>1 DEF Responsive, WaitersCurrent
  <2>. QED
    BY <2>1, <2>2, QuietStep
<1>. QED
  BY <1>1, <1>2, <1>3, <1>4, <1>5, <1>6, <1>8, <1>9, <1>10, <1>11, <1>12, <1>13
  DEF Next, TimeOut, CancelWait

\* A new breaker accounts for all of its permits.
LEMMA InitPermits == Init => PermitInv
<1> SUFFICES ASSUME Init PROVE OutsideHoldsNothing /\ Responsive /\ NoProbeLeak
  BY InitType DEF PermitInv
<1>1. Len(sems) = 0
  BY DEF Init
<1>. QED
  BY <1>1 DEF Init, OutsideHoldsNothing, Responsive, WaitersCurrent, HeldIsOwn,
              PermitsAccounted, NoProbeLeak

\* The permit invariant holds in every state of every run.
LEMMA PermitsCorrect == Spec => []PermitInv
  BY InitPermits, StepPermits, PTL DEF Spec

\* For any number of callers and any thresholds, a responsive loop never runs
\* more probes of one half-open period than probe_count.
THEOREM ProbesBounded == Spec => []ProbeBound
<1>1. PermitInv => ProbeBound
  <2> SUFFICES ASSUME PermitInv, ~LoopMayBlock, NEW e \in 1..Len(sems)
               PROVE  Cardinality(Probes(e)) <= ProbeCount
    BY DEF ProbeBound
  <2>1. IsSemaphore(sems[e], Callers)
    BY TypeFacts DEF PermitInv
  <2>2. Permits(sems[e]) \in Nat /\ Permits(sems[e]) >= 0
    BY <2>1, FieldsOfSemaphore
  <2>3. Permits(sems[e]) + Cardinality(Probes(e)) <= ProbeCount
    BY DEF PermitInv, Responsive, PermitsAccounted
  <2>4. Cardinality(Probes(e)) \in Nat /\ ProbeCount \in Nat
    <3>1. IsFiniteSet(Probes(e))
      BY BreakerAssumption, FS_Subset DEF BreakerAssumption, Probes
    <3>. QED
      BY <3>1, FS_CardinalityType, BreakerAssumption DEF BreakerAssumption
  <2>. QED
    BY <2>2, <2>3, <2>4
<1>. QED
  BY <1>1, PermitsCorrect, PTL

\* Even when the loop is blocked at the worst moment, no probe permit of the
\* current half-open period is ever lost.
THEOREM NoPermitLost == Spec => []NoProbeLeak
<1>1. PermitInv => NoProbeLeak
  BY DEF PermitInv
<1>. QED
  BY <1>1, PermitsCorrect, PTL

-----------------------------------------------------------------------------
(* The contract. *)

\* The failures recorded since the last reset: the contract's evidence.
Evidence == {i \in 1..Len(log) : log[i].failed}

\* A half-open period is over with the success that completes it.
CreditLeft == state = "HALF_OPEN" => halfOpenSuccess < HalfOpenMaxCalls

\* Recording an outcome adds it to the evidence just if it is a failure.
LEMMA EvidenceGrows ==
    ASSUME TypeInv, NEW failed \in BOOLEAN, log' = Append(log, Record(failed))
    PROVE  /\ Cardinality(Evidence) \in Nat
           /\ failed = TRUE => Cardinality(Evidence') = Cardinality(Evidence) + 1
           /\ failed = FALSE => Cardinality(Evidence') = Cardinality(Evidence)
<1>1. log \in Seq(Outcome) /\ Record(failed) \in Outcome /\ Record(failed).failed = failed
  BY DEF TypeInv, TypeOK, Record, Outcome
<1>2. PICK n : n = Len(log) + 1
  OBVIOUS
<1>3. /\ Len(log) \in Nat /\ Len(log') = n
      /\ \A i \in 1..Len(log) : log'[i] = log[i]
      /\ log'[n] = Record(failed)
  BY <1>1, <1>2, AppendProperties, LenProperties
<1>4. Evidence' = IF failed THEN Evidence \cup {n} ELSE Evidence
  BY <1>1, <1>2, <1>3 DEF Evidence
<1>5. n \notin Evidence
  BY <1>2, <1>3 DEF Evidence
<1>6. IsFiniteSet(Evidence)
  <2>1. Evidence \in SUBSET (1..Len(log)) /\ IsFiniteSet(1..Len(log))
    BY <1>3, FS_Interval DEF Evidence
  <2>. QED
    BY <2>1, FS_Subset
<1>7. /\ Cardinality(Evidence) \in Nat
      /\ Cardinality(Evidence \cup {n}) = Cardinality(Evidence) + 1
  BY <1>5, <1>6, FS_AddElement, FS_CardinalityType
<1>. QED
  BY <1>4, <1>7

\* A failure that is recorded outside a half-open period only counts, or opens
\* the breaker.
LEMMA FailureKeepsContract ==
    ASSUME TypeInv, FailAndTryOpen, state # "HALF_OPEN", now' = now
    PROVE  Contract!Fail \/ Contract!Open
<1>1. log' = Append(log, Record(TRUE)) /\ UNCHANGED halfOpenSuccess
      /\ \/ state' = "OPEN" /\ lastChange' = now
         \/ UNCHANGED <<state, lastChange>>
  BY DEF FailAndTryOpen
<1>2. Cardinality(Evidence') = Cardinality(Evidence) + 1
  BY <1>1, EvidenceGrows
<1>. QED
  BY <1>1, <1>2 DEF Contract!Fail, Contract!Open, Evidence

\* A step that neither moves the breaker nor records a failure is a stutter.
LEMMA QuietContract ==
    ASSUME UNCHANGED <<now, state, lastChange, halfOpenSuccess>>,
           Cardinality(Evidence') = Cardinality(Evidence)
    PROVE  UNCHANGED Contract!cvars
  BY DEF Contract!cvars, Evidence

\* A new breaker is one the contract starts with.
LEMMA ContractInit == Init => Contract!CInit /\ CreditLeft
<1> SUFFICES ASSUME Init PROVE Contract!CInit /\ CreditLeft
  OBVIOUS
<1>1. Evidence = {}
  BY DEF Init, Evidence
<1>2. Cardinality({}) = 0
  BY FS_EmptySet
<1>. QED
  BY <1>1, <1>2 DEF Init, Contract!CInit, CreditLeft, Evidence

\* Every step of the breaker is one the contract allows, or none at all.
LEMMA ContractStep ==
    TypeInv /\ CreditLeft /\ [Next]_vars =>
        [Contract!CNext]_(Contract!cvars) /\ CreditLeft'
<1> SUFFICES ASSUME TypeInv, CreditLeft, [Next]_vars
             PROVE  [Contract!CNext]_(Contract!cvars) /\ CreditLeft'
  OBVIOUS
<1>0. /\ now \in Nat /\ lastChange \in Nat /\ halfOpenSuccess \in Nat /\ state \in States
      /\ HalfOpenMaxCalls \in Nat /\ HalfOpenMaxCalls >= 1 /\ OpenStateDuration \in Nat
  BY BreakerAssumption DEF TypeInv, TypeOK, BreakerAssumption
<1>1. ASSUME UNCHANGED <<now, state, lastChange, halfOpenSuccess, log>>
      PROVE  UNCHANGED Contract!cvars /\ CreditLeft'
  <2>1. Evidence' = Evidence
    BY <1>1 DEF Evidence
  <2>. QED
    BY <1>1, <2>1, QuietContract DEF CreditLeft
<1>2. ASSUME NEW c \in Callers,
             \/ EnterClosed(c) \/ EnterOpen(c) \/ EnterHalfOpen(c)
             \/ ResumeProbe(c) \/ TimeOut(c) \/ CancelWait(c)
      PROVE  UNCHANGED Contract!cvars /\ CreditLeft'
  BY <1>2, <1>1 DEF EnterClosed, EnterOpen, EnterHalfOpen, ResumeProbe, TimeOut,
                    CancelWait, LeaveQueue, breakerVars
<1>3. ASSUME NEW c \in Callers, EnterAfterCoolDown(c)
      PROVE  Contract!Probe /\ CreditLeft'
  <2>1. /\ state = "OPEN" /\ now - lastChange >= OpenStateDuration
        /\ state' = "HALF_OPEN" /\ lastChange' = now /\ halfOpenSuccess' = 0
        /\ UNCHANGED <<now, log>>
    BY <1>3 DEF EnterAfterCoolDown, CooledDown
  <2>2. now >= lastChange + OpenStateDuration
    BY <1>0, <2>1
  <2>. QED
    BY <1>0, <2>1, <2>2 DEF Contract!Probe, CreditLeft
<1>4. ASSUME NEW c \in Callers, ExitFailure(c)
      PROVE  (Contract!Fail \/ Contract!Open) /\ CreditLeft'
  <2>1. CASE state # "HALF_OPEN"
    <3>1. FailAndTryOpen /\ now' = now
      BY <1>4, <2>1 DEF ExitFailure
    <3>. QED
      BY <2>1, <3>1, FailureKeepsContract DEF FailAndTryOpen, CreditLeft
  <2>2. CASE state = "HALF_OPEN"
    <3>1. /\ log' = Append(log, Record(TRUE)) /\ now' = now
          /\ state' = "OPEN" /\ lastChange' = now
      BY <1>4, <2>2 DEF ExitFailure
    <3>2. Cardinality(Evidence') = Cardinality(Evidence) + 1
      BY <3>1, EvidenceGrows
    <3>. QED
      BY <3>1, <3>2 DEF Contract!Open, CreditLeft, Evidence
  <2>. QED
    BY <2>1, <2>2
<1>5. ASSUME NEW c \in Callers, ExitSuccess(c)
      PROVE  [Contract!CNext]_(Contract!cvars) /\ CreditLeft'
  <2>1. log' = Append(log, Record(FALSE)) /\ now' = now
    BY <1>5 DEF ExitSuccess
  <2>2. Cardinality(Evidence') = Cardinality(Evidence)
    <3>1. FALSE \in BOOLEAN
      OBVIOUS
    <3>. QED
      BY <2>1, <3>1, EvidenceGrows
  <2>3. CASE state # "HALF_OPEN"
    <3>1. UNCHANGED <<now, state, lastChange, halfOpenSuccess>>
      BY <1>5, <2>1, <2>3 DEF ExitSuccess
    <3>. QED
      BY <2>2, <2>3, <3>1, QuietContract DEF CreditLeft
  <2>4. CASE state = "HALF_OPEN"
    <3>1. ProbeSucceeded /\ halfOpenSuccess < HalfOpenMaxCalls
      BY <1>5, <2>4 DEF ExitSuccess, CreditLeft
    <3>2. CASE halfOpenSuccess' >= HalfOpenMaxCalls
      <4>1. /\ state' = "CLOSED" /\ lastChange' = now
            /\ halfOpenSuccess + 1 = HalfOpenMaxCalls
        BY <1>0, <3>1, <3>2 DEF ProbeSucceeded
      <4>2. Contract!Close
        BY <2>1, <2>2, <2>4, <4>1 DEF Contract!Close, Evidence
      <4>. QED
        BY <4>1, <4>2 DEF Contract!CNext, CreditLeft
    <3>3. CASE ~ (halfOpenSuccess' >= HalfOpenMaxCalls)
      <4>1. /\ UNCHANGED <<state, lastChange>>
            /\ halfOpenSuccess' = halfOpenSuccess + 1
            /\ halfOpenSuccess + 1 < HalfOpenMaxCalls
        BY <1>0, <3>1, <3>3 DEF ProbeSucceeded
      <4>2. Contract!Credit
        BY <2>1, <2>2, <2>4, <4>1 DEF Contract!Credit, Evidence
      <4>. QED
        BY <4>1, <4>2 DEF Contract!CNext, CreditLeft
    <3>. QED
      BY <3>2, <3>3
  <2>. QED
    BY <2>3, <2>4
<1>6. ASSUME RecordSlow
      PROVE  (Contract!Fail \/ Contract!Open) /\ CreditLeft'
  <2>1. FailAndTryOpen /\ state = "CLOSED" /\ now' = now
    BY <1>6 DEF RecordSlow
  <2>. QED
    BY <2>1, FailureKeepsContract DEF FailAndTryOpen, CreditLeft
<1>7. ASSUME Reset PROVE Contract!ForceClosed /\ CreditLeft'
  <2>1. /\ state' = "CLOSED" /\ lastChange' = now /\ log' = <<>> /\ now' = now
    BY <1>7 DEF Reset
  <2>2. Evidence' = {} /\ Cardinality({}) = 0
    BY <2>1, FS_EmptySet DEF Evidence
  <2>3. Cardinality(Evidence') = 0
    BY <2>2
  <2>. QED
    BY <2>1, <2>3 DEF Contract!ForceClosed, CreditLeft, Evidence
<1>8. ASSUME Tick PROVE Contract!Advance /\ CreditLeft'
  BY <1>8 DEF Tick, breakerVars, Contract!Advance, CreditLeft
<1>9. CASE UNCHANGED vars
  BY <1>9, <1>1 DEF vars, breakerVars
<1>. QED
  BY <1>2, <1>3, <1>4, <1>5, <1>6, <1>7, <1>8, <1>9 DEF Next, Contract!CNext

\* For any callers, thresholds and durations, and on a loop that may be blocked,
\* the breaker implements the contract.
THEOREM ContractKept == Spec => KeepsContract
<1>1. Spec => []TypeInv
  BY InitType, StepType, PTL DEF Spec
<1>. QED
  BY <1>1, ContractInit, ContractStep, PTL DEF Spec, KeepsContract, Contract!CSpec

-----------------------------------------------------------------------------
(* The sliding window. *)

\* A window w is the end of the log l, from which d entries have been dropped,
\* all of them older than the cutoff.
EndsLog(w, l, d, cutoff) ==
    /\ d \in Nat /\ Len(l) = Len(w) + d
    /\ \A i \in 1..Len(w) : w[i] = l[i + d]
    /\ \A i \in 1..d : l[i].at < cutoff

WindowEndsLog == \E d \in Nat : EndsLog(window, log, d, now - WindowDuration)

\* Outcomes are logged in the order of time.
InOrder(l, t) ==
    \A i \in 1..Len(l) : /\ l[i].at <= t
                         /\ \A j \in i..Len(l) : l[i].at <= l[j].at

LogInOrder == InOrder(log, now)

WindowInv == TypeInv /\ WindowEndsLog /\ LogInOrder

\* Recording an outcome keeps the order.
LEMMA RecordInOrder ==
    ASSUME NEW l \in Seq(Outcome), NEW t \in Nat, InOrder(l, t),
           NEW r \in Outcome, r.at = t, NEW m, m = Append(l, r)
    PROVE  InOrder(m, t)
<1>1. PICK n : n = Len(l) /\ n \in Nat
  BY LenProperties
<1>2. /\ Len(m) = n + 1 /\ m[n + 1] = r
      /\ \A i \in 1..n : m[i] = l[i] /\ l[i].at \in Nat
  <2>1. \A i \in 1..n : l[i] \in Outcome
    BY <1>1, ElementOfSeq
  <2>2. \A i \in 1..n : l[i].at \in Nat
    BY <2>1 DEF Outcome
  <2>. QED
    BY <1>1, <2>2, AppendProperties
<1>3. ASSUME NEW i \in 1..(n + 1)
      PROVE  m[i].at <= t /\ \A j \in i..(n + 1) : m[i].at <= m[j].at
  <2>1. CASE i = n + 1
    BY <1>1, <1>2, <2>1
  <2>2. CASE i \in 1..n
    <3>1. m[i].at <= t
      BY <1>1, <1>2, <2>2 DEF InOrder
    <3>2. ASSUME NEW j \in i..(n + 1) PROVE m[i].at <= m[j].at
      <4>1. CASE j = n + 1
        BY <1>2, <3>1, <4>1
      <4>2. CASE j \in i..n
        <5>1. j \in 1..n
          BY <1>1, <2>2, <4>2
        <5>. QED
          BY <1>1, <1>2, <2>2, <4>2, <5>1 DEF InOrder
      <4>. QED
        BY <1>1, <4>1, <4>2
    <3>. QED
      BY <3>1, <3>2
  <2>. QED
    BY <1>1, <2>1, <2>2
<1>. QED
  BY <1>2, <1>3 DEF InOrder

\* Recording an outcome in window and log lets one end with the other.
LEMMA RecordEndsLog ==
    ASSUME NEW w \in Seq(Outcome), NEW l \in Seq(Outcome), NEW d, NEW cutoff,
           EndsLog(w, l, d, cutoff), NEW r \in Outcome,
           NEW v, v = Append(w, r), NEW m, m = Append(l, r)
    PROVE  EndsLog(v, m, d, cutoff)
<1>1. PICK n : n = Len(w) /\ n \in Nat
  BY LenProperties
<1>2. d \in Nat /\ Len(l) = n + d
  BY <1>1 DEF EndsLog
<1>3. /\ Len(v) = n + 1 /\ v[n + 1] = r /\ \A i \in 1..n : v[i] = w[i]
      /\ Len(m) = (n + d) + 1 /\ m[(n + d) + 1] = r
      /\ \A i \in 1..(n + d) : m[i] = l[i]
  BY <1>1, <1>2, AppendProperties
<1>4. \A i \in 1..n : i + d \in 1..(n + d)
  BY <1>1, <1>2
<1>5. \A i \in 1..d : i \in 1..(n + d)
  BY <1>1, <1>2
<1>6. ASSUME NEW i \in 1..(n + 1) PROVE v[i] = m[i + d]
  <2>1. CASE i = n + 1
    <3>1. i + d = (n + d) + 1
      BY <1>1, <1>2, <2>1
    <3>. QED
      BY <1>3, <2>1, <3>1
  <2>2. CASE i \in 1..n
    BY <1>1, <1>3, <1>4, <2>2 DEF EndsLog
  <2>3. i = n + 1 \/ i \in 1..n
    BY <1>1
  <2>. QED
    BY <2>1, <2>2, <2>3
<1>7. \A i \in 1..d : m[i].at < cutoff
  BY <1>3, <1>5 DEF EndsLog
<1>. QED
  BY <1>1, <1>2, <1>3, <1>6, <1>7 DEF EndsLog

\* So does pruning, and it leaves no old entry at the front.
LEMMA PruneEndsLog ==
    ASSUME NEW w \in Seq(Outcome), NEW l \in Seq(Outcome), NEW d, NEW cutoff,
           EndsLog(w, l, d, cutoff)
    PROVE  LET v == DropOlder(w, cutoff)
           IN  /\ v \in Seq(Outcome)
               /\ \E e \in Nat : EndsLog(v, l, e, cutoff)
               /\ Len(v) > 0 => ~ (v[1].at < cutoff)
               /\ Len(v) = 0 => \A i \in 1..Len(w) : w[i].at < cutoff
<1>1. PICK v : v = DropOlder(w, cutoff)
  OBVIOUS
<1>2. PICK n : n = Len(w) /\ n \in Nat
  BY LenProperties
<1>3. PICK k \in 0..n :
         /\ v \in Seq(Outcome) /\ Len(v) = n - k
         /\ \A i \in 1..(n - k) : v[i] = w[i + k]
         /\ \A i \in 1..k : w[i].at < cutoff
         /\ k < n => ~ (w[k + 1].at < cutoff)
  BY <1>1, <1>2, DropOlderShape
<1>4. /\ d \in Nat /\ Len(l) = n + d
      /\ \A i \in 1..n : w[i] = l[i + d]
      /\ \A i \in 1..d : l[i].at < cutoff
  BY <1>2 DEF EndsLog
<1>5. d + k \in Nat /\ Len(l) = Len(v) + (d + k)
  BY <1>2, <1>3, <1>4
<1>6. ASSUME NEW i \in 1..Len(v) PROVE v[i] = l[i + (d + k)]
  <2>1. i \in 1..(n - k) /\ i + k \in 1..n /\ (i + k) + d = i + (d + k)
    BY <1>2, <1>3, <1>4
  <2>. QED
    BY <1>3, <1>4, <2>1
<1>7. ASSUME NEW i \in 1..(d + k) PROVE l[i].at < cutoff
  <2>1. CASE i \in 1..d
    BY <1>4, <2>1
  <2>2. CASE i \notin 1..d
    <3>1. i - d \in 1..k /\ i - d \in 1..n /\ (i - d) + d = i
      BY <1>2, <1>3, <1>4, <2>2
    <3>. QED
      BY <1>3, <1>4, <3>1
  <2>. QED
    BY <2>1, <2>2
<1>8. EndsLog(v, l, d + k, cutoff)
  BY <1>5, <1>6, <1>7 DEF EndsLog
<1>9. Len(v) > 0 => ~ (v[1].at < cutoff)
  <2> SUFFICES ASSUME Len(v) > 0 PROVE ~ (v[1].at < cutoff)
    OBVIOUS
  <2>1. 1 \in 1..(n - k) /\ 1 + k = k + 1 /\ k < n
    BY <1>2, <1>3
  <2>. QED
    BY <1>3, <2>1
<1>10. Len(v) = 0 => \A i \in 1..n : w[i].at < cutoff
  <2> SUFFICES ASSUME Len(v) = 0 PROVE k = n
    BY <1>3
  <2>. QED
    BY <1>2, <1>3
<1>. QED
  BY <1>1, <1>2, <1>3, <1>5, <1>8, <1>9, <1>10

\* Shifting the places of a set keeps their number.
LEMMA ShiftCount ==
    ASSUME NEW n \in Nat, NEW d \in Nat, NEW S \in SUBSET (1..n),
           NEW T, \A i \in S : i + d \in T, \A t \in T : \E i \in S : t = i + d
    PROVE  Cardinality(T) = Cardinality(S)
<1> DEFINE f == [i \in S |-> i + d]
<1>1. S \subseteq Nat
  OBVIOUS
<1>2. f \in [S -> T] /\ (\A a, b \in S : f[a] = f[b] => a = b)
      /\ \A t \in T : \E a \in S : f[a] = t
  BY <1>1
<1>. HIDE DEF f
<1>3. f \in Bijection(S, T)
  BY <1>2, Fun_IsBij
<1>4. ExistsBijection(S, T)
  BY <1>3, Fun_ExistsBij
<1>5. IsFiniteSet(S)
  <2>1. IsFiniteSet(1..n)
    BY FS_Interval
  <2>. QED
    BY <2>1, FS_Subset
<1>. QED
  BY <1>4, <1>5, FS_Bijection

\* When no entry at the front of the window is old, the window holds exactly the
\* young outcomes of the log, and its failures are theirs.
LEMMA CountsAgree ==
    ASSUME NEW w \in Seq(Outcome), NEW l \in Seq(Outcome), NEW d, NEW cutoff \in Int,
           EndsLog(w, l, d, cutoff), NEW t, InOrder(l, t),
           Len(w) > 0 => ~ (w[1].at < cutoff)
    PROVE  LET young == {i \in 1..Len(l) : l[i].at >= cutoff}
           IN  /\ Cardinality(young) = Len(w)
               /\ Cardinality({i \in young : l[i].failed}) = Failures(w)
<1>1. PICK n \in Nat : n = Len(w)
  BY LenProperties
<1>2. /\ d \in Nat /\ Len(l) = n + d
      /\ \A i \in 1..n : w[i] = l[i + d]
      /\ \A i \in 1..d : l[i].at < cutoff
  BY <1>1 DEF EndsLog
<1>3. \A i \in 1..(n + d) : l[i].at \in Nat
  <2>1. \A i \in 1..(n + d) : l[i] \in Outcome
    BY <1>2, ElementOfSeq
  <2>. QED
    BY <2>1 DEF Outcome
<1>4. PICK young : young = {i \in 1..Len(l) : l[i].at >= cutoff}
  OBVIOUS
<1>5. ASSUME NEW i \in 1..n PROVE i + d \in 1..(n + d) /\ l[i + d].at >= cutoff
  <2>1. 1 \in 1..n /\ 1 + d \in 1..(n + d) /\ i + d \in 1..(n + d)
        /\ i + d \in (1 + d)..(n + d)
    BY <1>2
  <2>2. l[1 + d].at >= cutoff
    BY <1>1, <1>2, <1>3, <2>1
  <2>3. l[1 + d].at <= l[i + d].at
    BY <1>2, <2>1 DEF InOrder
  <2>. QED
    BY <1>3, <2>1, <2>2, <2>3
<1>6. ASSUME NEW i \in 1..(n + d), l[i].at >= cutoff
      PROVE  i - d \in 1..n /\ (i - d) + d = i
  <2>1. i \notin 1..d
    BY <1>2, <1>3, <1>6
  <2>. QED
    BY <1>2, <2>1
<1>7. /\ \A i \in 1..n : i + d \in young
      /\ \A j \in young : \E i \in 1..n : j = i + d
  <2>1. \A j \in young : j \in 1..(n + d) /\ l[j].at >= cutoff
    BY <1>2, <1>4
  <2>2. ASSUME NEW j \in young PROVE \E i \in 1..n : j = i + d
    <3>1. j - d \in 1..n /\ (j - d) + d = j
      BY <1>6, <2>1
    <3>. QED
      BY <3>1
  <2>. QED
    BY <1>2, <1>4, <1>5, <2>2
<1>8. Cardinality(young) = n
  <2>0. (1..n) \in SUBSET (1..n)
    OBVIOUS
  <2>1. Cardinality(young) = Cardinality(1..n)
    BY <1>2, <1>7, <2>0, ShiftCount
  <2>2. Cardinality(1..n) = n
    BY FS_Interval
  <2>. QED
    BY <2>1, <2>2
<1>9. PICK S \in SUBSET (1..n) : S = {i \in 1..n : w[i].failed}
  OBVIOUS
<1>10. PICK T : T = {i \in young : l[i].failed}
  OBVIOUS
<1>11. (\A i \in S : i + d \in T) /\ \A j \in T : \E i \in S : j = i + d
  <2>1. ASSUME NEW j \in T PROVE \E i \in S : j = i + d
    <3>1. PICK i \in 1..n : j = i + d
      BY <1>7, <1>10
    <3>2. i \in S
      BY <1>2, <1>9, <1>10, <3>1
    <3>. QED
      BY <3>1, <3>2
  <2>2. ASSUME NEW i \in S PROVE i + d \in T
    BY <1>2, <1>7, <1>9, <1>10
  <2>. QED
    BY <2>1, <2>2
<1>12. Cardinality(T) = Cardinality(S)
  BY <1>2, <1>11, ShiftCount
<1>13. Failures(w) = Cardinality(S)
  BY <1>1, <1>9 DEF Failures
<1>. QED
  BY <1>1, <1>4, <1>8, <1>10, <1>12, <1>13

\* Recording a success, or a failure of a probe: nothing is pruned.
LEMMA RecordStep ==
    ASSUME WindowInv, NEW failed \in BOOLEAN, now' = now,
           window' = Append(window, Record(failed)), log' = Append(log, Record(failed))
    PROVE  WindowEndsLog' /\ LogInOrder'
<1>1. /\ window \in Seq(Outcome) /\ log \in Seq(Outcome) /\ now \in Nat
      /\ Record(failed) \in Outcome /\ Record(failed).at = now
  BY DEF WindowInv, TypeInv, TypeOK, Record, Outcome
<1>2. LogInOrder'
  BY <1>1, RecordInOrder DEF WindowInv, LogInOrder
<1>3. PICK d \in Nat : EndsLog(window, log, d, now - WindowDuration)
  BY DEF WindowInv, WindowEndsLog
<1>4. EndsLog(window', log', d, now - WindowDuration)
  BY <1>1, <1>3, RecordEndsLog
<1>. QED
  BY <1>2, <1>4 DEF WindowEndsLog

\* Recording a failure and pruning: the window then is the young part of the log.
LEMMA FailStep ==
    ASSUME WindowInv, FailAndTryOpen, now' = now
    PROVE  /\ WindowEndsLog' /\ LogInOrder'
           /\ ShouldOpen(window') <=> ReachesThreshold'
<1>1. /\ window \in Seq(Outcome) /\ log \in Seq(Outcome) /\ now \in Nat
      /\ Record(TRUE) \in Outcome /\ Record(TRUE).at = now
      /\ WindowDuration \in Nat /\ WindowDuration >= 1
  BY BreakerAssumption DEF WindowInv, TypeInv, TypeOK, Record, Outcome, BreakerAssumption
<1>2. PICK w, cutoff : w = Append(window, Record(TRUE)) /\ cutoff = now - WindowDuration
  OBVIOUS
<1>3. /\ w \in Seq(Outcome) /\ cutoff \in Int /\ cutoff < now
      /\ Len(w) = Len(window) + 1 /\ w[Len(window) + 1] = Record(TRUE)
      /\ Len(window) \in Nat
  <2>1. cutoff \in Int /\ cutoff < now
    BY <1>1, <1>2
  <2>2. /\ w \in Seq(Outcome) /\ Len(window) \in Nat
        /\ Len(w) = Len(window) + 1 /\ w[Len(window) + 1] = Record(TRUE)
    BY <1>1, <1>2, AppendProperties, LenProperties
  <2>. QED
    BY <2>1, <2>2
<1>4. log' = Append(log, Record(TRUE)) /\ window' = DropOlder(w, cutoff)
  BY <1>2 DEF FailAndTryOpen, Pruned
<1>5. log' \in Seq(Outcome) /\ LogInOrder'
  BY <1>1, <1>4, RecordInOrder, AppendProperties DEF WindowInv, LogInOrder
<1>6. PICK d \in Nat : EndsLog(w, log', d, cutoff)
  <2>1. PICK d \in Nat : EndsLog(window, log, d, cutoff)
    BY <1>2 DEF WindowInv, WindowEndsLog
  <2>2. EndsLog(w, log', d, cutoff)
    BY <1>1, <1>2, <1>4, <2>1, RecordEndsLog
  <2>. QED
    BY <2>2
<1>7. PICK e \in Nat :
         /\ window' \in Seq(Outcome) /\ EndsLog(window', log', e, cutoff)
         /\ Len(window') > 0 => ~ (window'[1].at < cutoff)
         /\ Len(window') = 0 => \A i \in 1..Len(w) : w[i].at < cutoff
  BY <1>3, <1>4, <1>5, <1>6, PruneEndsLog
<1>8. WindowEndsLog'
  BY <1>2, <1>7 DEF WindowEndsLog
<1>9. window' # <<>>
  <2>1. Len(window) + 1 \in 1..Len(w) /\ ~ (w[Len(window) + 1].at < cutoff)
    <3>1. ~ (now < cutoff)
      BY <1>1, <1>3
    <3>2. w[Len(window) + 1].at = now
      BY <1>1, <1>3
    <3>3. Len(window) + 1 \in 1..Len(w)
      BY <1>3
    <3>. QED
      BY <3>1, <3>2, <3>3
  <2>2. Len(window') # 0
    BY <1>7, <2>1
  <2>. QED
    BY <1>7, <2>2, EmptySeq
<1>10. /\ Cardinality(YoungOutcomes') = Len(window')
       /\ Cardinality(YoungFailures') = Failures(window')
  <2>1. InOrder(log', now)
    BY <1>5 DEF LogInOrder
  <2>2. /\ YoungOutcomes' = {i \in 1..Len(log') : log'[i].at >= cutoff}
        /\ YoungFailures' = {i \in YoungOutcomes' : log'[i].failed}
    BY <1>2 DEF YoungOutcomes, YoungFailures
  <2>. QED
    BY <1>3, <1>5, <1>7, <2>1, <2>2, CountsAgree
<1>11. ShouldOpen(window') <=>
          \/ Failures(window') >= FailureThreshold
          \/ /\ Len(window') >= RateMinimum
             /\ RateDen * Failures(window') >= RateNum * Len(window')
  BY <1>9 DEF ShouldOpen, RateReached
<1>12. ReachesThreshold' <=>
          \/ Cardinality(YoungFailures') >= FailureThreshold
          \/ /\ Cardinality(YoungOutcomes') >= RateMinimum
             /\ RateDen * Cardinality(YoungFailures')
                    >= RateNum * Cardinality(YoungOutcomes')
  BY DEF ReachesThreshold
<1>. QED
  BY <1>5, <1>8, <1>10, <1>11, <1>12

\* A step that records nothing, however late it is.
LEMMA QuietWindow ==
    ASSUME WindowInv, UNCHANGED <<window, log>>, now' \in Nat, now' >= now
    PROVE  WindowEndsLog' /\ LogInOrder'
<1>1. /\ log \in Seq(Outcome) /\ now \in Nat /\ WindowDuration \in Nat
  BY BreakerAssumption DEF WindowInv, TypeInv, TypeOK, BreakerAssumption
<1>2. \A i \in 1..Len(log) : log[i].at \in Nat
  <2>1. \A i \in 1..Len(log) : log[i] \in Outcome
    BY <1>1, ElementOfSeq
  <2>. QED
    BY <2>1 DEF Outcome
<1>3. LogInOrder'
  BY <1>1, <1>2 DEF WindowInv, LogInOrder, InOrder
<1>4. PICK d \in Nat : EndsLog(window, log, d, now - WindowDuration)
  BY DEF WindowInv, WindowEndsLog
<1>5. \A i \in 1..d : i \in 1..Len(log)
  <2>1. Len(window) \in Nat /\ Len(log) = Len(window) + d
    BY <1>4, LenProperties DEF EndsLog, WindowInv, TypeInv, TypeOK
  <2>. QED
    BY <2>1
<1>6. \A i \in 1..d : log[i].at < now' - WindowDuration
  BY <1>1, <1>2, <1>4, <1>5 DEF EndsLog
<1>7. EndsLog(window, log, d, now' - WindowDuration)
  BY <1>4, <1>6 DEF EndsLog
<1>. QED
  BY <1>3, <1>7 DEF WindowEndsLog

\* A new breaker has recorded nothing.
LEMMA InitWindow == Init => WindowInv
<1> SUFFICES ASSUME Init PROVE WindowEndsLog /\ LogInOrder
  BY InitType DEF WindowInv
<1>1. Len(window) = 0 /\ Len(log) = 0
  BY DEF Init
<1>2. EndsLog(window, log, 0, now - WindowDuration)
  BY <1>1 DEF EndsLog
<1>. QED
  BY <1>1, <1>2 DEF WindowEndsLog, LogInOrder, InOrder

\* Every step of the breaker keeps the window the end of the log.
LEMMA StepWindow == WindowInv /\ [Next]_vars => WindowInv'
<1> SUFFICES ASSUME WindowInv, [Next]_vars PROVE WindowEndsLog' /\ LogInOrder'
  BY StepType DEF WindowInv
<1>0. now \in Nat
  BY DEF WindowInv, TypeInv, TypeOK
<1>1. ASSUME NEW c \in Callers,
             \/ EnterClosed(c) \/ EnterOpen(c)
             \/ EnterAfterCoolDown(c) \/ EnterHalfOpen(c)
             \/ ResumeProbe(c) \/ TimeOut(c) \/ CancelWait(c)
      PROVE  WindowEndsLog' /\ LogInOrder'
  <2>1. UNCHANGED <<now, window, log>>
    BY <1>1 DEF EnterClosed, EnterOpen, EnterAfterCoolDown, EnterHalfOpen,
                ResumeProbe, TimeOut, CancelWait, LeaveQueue
  <2>2. now' \in Nat /\ now' >= now
    BY <1>0, <2>1
  <2>. QED
    BY <2>1, <2>2, QuietWindow
<1>2. ASSUME NEW c \in Callers, ExitFailure(c)
      PROVE  WindowEndsLog' /\ LogInOrder'
  <2>1. CASE state # "HALF_OPEN"
    <3>1. FailAndTryOpen /\ now' = now
      BY <1>2, <2>1 DEF ExitFailure
    <3>. QED
      BY <3>1, FailStep
  <2>2. CASE state = "HALF_OPEN"
    <3>1. /\ now' = now /\ window' = Append(window, Record(TRUE))
          /\ log' = Append(log, Record(TRUE))
      BY <1>2, <2>2 DEF ExitFailure
    <3>. QED
      BY <3>1, RecordStep
  <2>. QED
    BY <2>1, <2>2
<1>3. ASSUME NEW c \in Callers, ExitSuccess(c)
      PROVE  WindowEndsLog' /\ LogInOrder'
  <2>1. /\ now' = now /\ window' = Append(window, Record(FALSE))
        /\ log' = Append(log, Record(FALSE))
    BY <1>3 DEF ExitSuccess
  <2>. QED
    BY <2>1, RecordStep
<1>4. ASSUME RecordSlow PROVE WindowEndsLog' /\ LogInOrder'
  <2>1. FailAndTryOpen /\ now' = now
    BY <1>4 DEF RecordSlow
  <2>. QED
    BY <2>1, FailStep
<1>5. ASSUME Reset PROVE WindowEndsLog' /\ LogInOrder'
  <2>1. Len(window') = 0 /\ Len(log') = 0
    BY <1>5 DEF Reset
  <2>2. EndsLog(window', log', 0, now' - WindowDuration)
    BY <2>1 DEF EndsLog
  <2>. QED
    BY <2>1, <2>2 DEF WindowEndsLog, LogInOrder, InOrder
<1>6. ASSUME Tick PROVE WindowEndsLog' /\ LogInOrder'
  <2>1. UNCHANGED <<window, log>> /\ now' = now + 1
    BY <1>6 DEF Tick
  <2>2. now' \in Nat /\ now' >= now
    BY <1>0, <2>1
  <2>. QED
    BY <2>1, <2>2, QuietWindow
<1>7. CASE UNCHANGED vars
  <2>1. UNCHANGED <<now, window, log>>
    BY <1>7 DEF vars
  <2>2. now' \in Nat /\ now' >= now
    BY <1>0, <2>1
  <2>. QED
    BY <2>1, <2>2, QuietWindow
<1>. QED
  BY <1>1, <1>2, <1>3, <1>4, <1>5, <1>6, <1>7 DEF Next

\* The window invariant holds in every state of every run.
LEMMA WindowCorrect == Spec => []WindowInv
  BY InitWindow, StepWindow, PTL DEF Spec

\* A sequence that holds the last entries of another is a subsequence of it.
LEMMA EndIsSubSeq ==
    ASSUME NEW w \in Seq(Outcome), NEW l \in Seq(Outcome), NEW d \in Nat,
           Len(l) = Len(w) + d, \A i \in 1..Len(w) : w[i] = l[i + d]
    PROVE  w = SubSeq(l, d + 1, Len(l))
<1>1. PICK n \in Nat : n = Len(w)
  BY LenProperties
<1>2. PICK m \in Nat : m = Len(l) /\ m = n + d
  BY <1>1
<1>3. \A i \in (d + 1)..m : l[i] \in Outcome
  <2>1. \A i \in (d + 1)..m : i \in 1..Len(l)
    BY <1>2
  <2>. QED
    BY <2>1, ElementOfSeq
<1>4. PICK u : u = SubSeq(l, d + 1, m)
  OBVIOUS
<1>5. d + 1 \in Int /\ m \in Int
  BY <1>2
<1>6. /\ u \in Seq(Outcome)
      /\ Len(u) = IF d + 1 <= m THEN m - (d + 1) + 1 ELSE 0
      /\ \A i \in 1..(m - (d + 1) + 1) : u[i] = l[(d + 1) + i - 1]
  BY <1>3, <1>4, <1>5, SubSeqProperties
<1>7. Len(u) = n
  BY <1>1, <1>2, <1>6
<1>8. \A i \in 1..n : u[i] = w[i]
  <2>1. m - (d + 1) + 1 = n /\ \A i \in 1..n : (d + 1) + i - 1 = i + d
    BY <1>1, <1>2
  <2>. QED
    BY <1>1, <1>6, <2>1
<1>9. u = w
  BY <1>1, <1>6, <1>7, <1>8, SeqEqual
<1>. QED
  BY <1>2, <1>4, <1>9

\* For any thresholds and any window_duration, the window is always the end of
\* what has been recorded, and lacks nothing young enough to count.
THEOREM WindowIsRecent == Spec => []WindowIsRecentLog
<1>1. WindowInv => WindowIsRecentLog
  <2> SUFFICES ASSUME WindowInv PROVE WindowIsRecentLog
    OBVIOUS
  <2>1. PICK d \in Nat : EndsLog(window, log, d, now - WindowDuration)
    BY DEF WindowInv, WindowEndsLog
  <2>2. window \in Seq(Outcome) /\ log \in Seq(Outcome)
    BY DEF WindowInv, TypeInv, TypeOK
  <2>3. Len(window) \in Nat /\ Len(log) = Len(window) + d
    BY <2>1, <2>2, LenProperties DEF EndsLog
  <2>4. Len(log) - Len(window) = d
    BY <2>3
  <2>5. window = SubSeq(log, d + 1, Len(log))
    BY <2>1, <2>2, EndIsSubSeq DEF EndsLog
  <2>6. \A i \in 1..d : log[i].at < now - WindowDuration
    BY <2>1 DEF EndsLog
  <2>7. PICK e \in Nat : e = Len(log) - Len(window) /\ e = d
    BY <2>4
  <2>8. e >= 0 /\ window = SubSeq(log, e + 1, Len(log))
    <3>1. e >= 0
      OBVIOUS
    <3>. QED
      BY <2>5, <2>7, <3>1, Zenon
  <2>9. \A i \in 1..e : log[i].at < now - WindowDuration
    BY <2>6, <2>7
  <2>. QED
    BY <2>7, <2>8, <2>9 DEF WindowIsRecentLog
<1>. QED
  BY <1>1, WindowCorrect, PTL

\* What a step of a CLOSED breaker has to do with the recorded outcomes.
OpensIfDue ==
    state = "CLOSED" =>
        (state' # "CLOSED" <=>
            /\ Len(log') > Len(log)
            /\ log'[Len(log')].failed
            /\ ReachesThreshold')

\* The outcome just recorded is the last of the log.
LEMMA LastRecorded ==
    ASSUME NEW l \in Seq(Outcome), NEW r \in Outcome, NEW m, m = Append(l, r)
    PROVE  Len(l) \in Nat /\ Len(m) = Len(l) + 1 /\ m[Len(l) + 1] = r
  BY AppendProperties, LenProperties

\* A failure is recorded: the breaker opens if the recent outcomes say so.
LEMMA FailureOpensIfDue ==
    ASSUME WindowInv, FailAndTryOpen, now' = now
    PROVE  OpensIfDue
<1>1. log' = Append(log, Record(TRUE))
  BY DEF FailAndTryOpen
<1>2. log \in Seq(Outcome) /\ Record(TRUE) \in Outcome /\ Record(TRUE).failed = TRUE
  BY DEF WindowInv, TypeInv, TypeOK, Record, Outcome
<1>3. /\ Len(log) \in Nat /\ Len(log') = Len(log) + 1
      /\ log'[Len(log) + 1] = Record(TRUE)
  BY <1>1, <1>2, LastRecorded
<1>4. Len(log') > Len(log) /\ log'[Len(log')].failed
  <2>1. Len(log') > Len(log)
    BY <1>3
  <2>2. log'[Len(log')].failed
    BY <1>2, <1>3
  <2>. QED
    BY <2>1, <2>2
<1>5. state = "CLOSED" => (state' # "CLOSED" <=> ShouldOpen(window'))
  BY DEF FailAndTryOpen
<1>. QED
  BY <1>4, <1>5, FailStep DEF OpensIfDue

\* Every step of the breaker opens it exactly when it is due.
LEMMA StepOpens == WindowInv /\ [Next]_vars => OpensIfDue \/ UNCHANGED vars
<1> SUFFICES ASSUME WindowInv, Next, state = "CLOSED" PROVE OpensIfDue
  BY DEF OpensIfDue
<1>0. log \in Seq(Outcome) /\ Len(log) \in Nat
  BY LenProperties DEF WindowInv, TypeInv, TypeOK
<1>1. ASSUME state' = "CLOSED", ~ (Len(log') > Len(log)) PROVE OpensIfDue
  BY <1>1 DEF OpensIfDue
<1>2. ASSUME UNCHANGED <<state, log>> PROVE OpensIfDue
  BY <1>0, <1>1, <1>2
<1>3. ASSUME NEW c \in Callers,
             \/ EnterClosed(c) \/ EnterOpen(c)
             \/ EnterAfterCoolDown(c) \/ EnterHalfOpen(c)
             \/ ResumeProbe(c) \/ TimeOut(c) \/ CancelWait(c)
      PROVE  OpensIfDue
  <2>1. UNCHANGED <<state, log>>
    BY <1>3 DEF EnterClosed, EnterOpen, EnterAfterCoolDown, EnterHalfOpen,
                ResumeProbe, TimeOut, CancelWait, LeaveQueue, breakerVars
  <2>. QED
    BY <1>2, <2>1
<1>4. ASSUME NEW c \in Callers, ExitFailure(c) PROVE OpensIfDue
  <2>1. FailAndTryOpen /\ now' = now
    BY <1>4 DEF ExitFailure
  <2>. QED
    BY <2>1, FailureOpensIfDue
<1>5. ASSUME NEW c \in Callers, ExitSuccess(c) PROVE OpensIfDue
  <2>1. state' = state /\ log' = Append(log, Record(FALSE))
    BY <1>5 DEF ExitSuccess
  <2>2. Record(FALSE) \in Outcome /\ Record(FALSE).failed = FALSE
    BY DEF WindowInv, TypeInv, TypeOK, Record, Outcome
  <2>3. Len(log') = Len(log) + 1 /\ log'[Len(log) + 1] = Record(FALSE)
    BY <1>0, <2>1, <2>2, AppendProperties
  <2>4. ~ log'[Len(log')].failed
    BY <2>2, <2>3
  <2>. QED
    BY <2>1, <2>4 DEF OpensIfDue
<1>6. ASSUME RecordSlow PROVE OpensIfDue
  <2>1. FailAndTryOpen /\ now' = now
    BY <1>6 DEF RecordSlow
  <2>. QED
    BY <2>1, FailureOpensIfDue
<1>7. ASSUME Reset PROVE OpensIfDue
  <2>1. state' = "CLOSED" /\ Len(log') = 0
    BY <1>7 DEF Reset
  <2>. QED
    BY <1>0, <1>1, <2>1
<1>8. ASSUME Tick PROVE OpensIfDue
  <2>1. UNCHANGED <<state, log>>
    BY <1>8 DEF Tick, breakerVars
  <2>. QED
    BY <1>2, <2>1
<1>. QED
  BY <1>3, <1>4, <1>5, <1>6, <1>7, <1>8 DEF Next

\* For any thresholds and any window_duration, a CLOSED breaker leaves that state
\* at the call that makes the recent outcomes reach a threshold, and at no other.
THEOREM OpensOnRecentFailures == Spec => OpensExactlyOnRecentFailures
  BY WindowCorrect, StepOpens, PTL DEF Spec, OpensExactlyOnRecentFailures, OpensIfDue

-----------------------------------------------------------------------------
(* The retry loops as users of the breaker. *)

\* A step of the retry loops is a step of the breaker or a stutter of it.
LEMMA StepMaps == [RetryNext]_allVars => [Next]_vars
<1> SUFFICES ASSUME [RetryNext]_allVars PROVE [Next]_vars
  OBVIOUS
<1>1. ASSUME NEW c \in Callers, Refused(c) PROVE UNCHANGED vars
  BY <1>1 DEF Refused
<1>2. ASSUME NEW c \in Callers, Call(c) \/ Retry(c) PROVE Next
  BY <1>2 DEF Call, Retry, EnterBreaker, Next
<1>3. ASSUME NEW c \in Callers, Granted(c) \/ TurnedAway(c) PROVE Next
  BY <1>3 DEF Granted, TurnedAway, Next
<1>4. ASSUME NEW c \in Callers, BudgetTaken(c) PROVE UNCHANGED vars
  BY <1>4 DEF BudgetTaken
<1>5. ASSUME NEW c \in Callers, BudgetGone(c) PROVE Next
  BY <1>5 DEF BudgetGone, Next
<1>6. ASSUME NEW c \in Callers, Succeed(c) \/ FailTransient(c) \/ FailFatal(c)
      PROVE  Next
  BY <1>6 DEF Succeed, FailTransient, FailFatal, Next
<1>7. ASSUME NEW c \in Callers, ReportLatency(c) PROVE [Next]_vars
  BY <1>7 DEF ReportLatency, Next
<1>8. ASSUME NEW c \in Callers, Cancel(c) PROVE [Next]_vars
  BY <1>8 DEF Cancel, Next
<1>9. ResetBudget => UNCHANGED vars
  BY DEF ResetBudget
<1>10. ResetBreaker \/ Clock => Next
  BY DEF ResetBreaker, Clock, Next
<1>11. UNCHANGED allVars => UNCHANGED vars
  BY DEF allVars
<1>. QED
  BY <1>1, <1>2, <1>3, <1>4, <1>5, <1>6, <1>7, <1>8, <1>9, <1>10, <1>11
  DEF RetryNext

\* Callers that run execute_with_metrics use the breaker as CircuitBreaker
\* lets any caller use it: no call of its methods out of order, none missing.
THEOREM RetriesUseBreaker == RetrySpec => Spec
<1>1. RetryInit => Init
  BY DEF RetryInit
<1>. QED
  BY <1>1, StepMaps, PTL DEF RetrySpec, Spec

\* The breaker's types survive the retry loops.
LEMMA BreakerTypes == RetrySpec => [](TypeInv /\ ProbeBound)
<1>1. Spec => []TypeInv
  BY InitType, StepType, PTL DEF Spec
<1>. QED
  BY <1>1, RetriesUseBreaker, ProbesBounded, PTL

\* For any callers, attempts and budget, a responsive loop never has more than
\* probe_count requests of one half-open period out, retries included.
THEOREM RetriesKeepProbeBound == RetrySpec => []ProbeBound
  BY BreakerTypes, PTL

-----------------------------------------------------------------------------
(* The accounting of attempts and requests. *)

\* Where a caller is in execute_with_metrics, where that leaves it in the
\* breaker, and how its requests compare with its attempts there.
Progress(c) ==
    \/ call[c] = "none" /\ pc[c] = "idle" /\ attempt[c] = 0 /\ sent[c] = 0
    \/ call[c] = "entering" /\ pc[c] = "waiting"
       /\ attempt[c] \in 1..MaxAttempts /\ sent[c] = attempt[c] - 1
    \/ call[c] = "admitted" /\ pc[c] = "inside"
       /\ attempt[c] \in 2..MaxAttempts /\ sent[c] = attempt[c] - 1
    \/ call[c] = "calling" /\ pc[c] = "inside"
       /\ attempt[c] \in 1..MaxAttempts /\ sent[c] = attempt[c]
    \/ call[c] = "backoff" /\ pc[c] = "idle"
       /\ attempt[c] \in 1..(MaxAttempts - 1) /\ sent[c] = attempt[c]
    \/ call[c] = "latency" /\ pc[c] = "idle"
       /\ attempt[c] \in 1..MaxAttempts /\ sent[c] \in 0..attempt[c]

\* The caller's tables are functions on the callers.
TablesTyped ==
    /\ call \in [Callers -> CallPlaces]
    /\ attempt \in [Callers -> Nat]
    /\ sent \in [Callers -> Nat]

\* The budget, its window and the histories.
BudgetTyped ==
    /\ spent \in 0..RetryBudget
    /\ windowStart \in 0..now
    /\ refusals \in Nat /\ calls \in Nat
    /\ grants \in Seq(Nat)

OneRunning == \A c, d \in Running : c = d

AllProgress == \A c \in Callers : Progress(c)

LoopsInv == TablesTyped /\ AllProgress /\ OneRunning

-----------------------------------------------------------------------------
(* What a step of the breaker does to the places of its callers. *)

Only(c) == \A d \in Callers \ {c} : pc'[d] = pc[d]

\* Entering moves the caller alone, from idle to wherever it was put.
LEMMA EnterMoves ==
    ASSUME TypeInv, NEW c \in Callers, NEW place, EnterBreaker(c, place)
    PROVE  /\ pc[c] = "idle" /\ Only(c)
           /\ \/ pc'[c] = "inside" /\ Goes(c, place)
              \/ pc'[c] = "waiting" /\ Goes(c, "entering")
              \/ pc'[c] = "idle" /\ Goes(c, "latency")
  BY DEF EnterBreaker, EnterClosed, EnterOpen, EnterAfterCoolDown, EnterHalfOpen,
         AcquireProbe, callerVars, Only, TypeInv, TypeOK

\* Leaving the breaker moves the caller alone, from inside to idle.
LEMMA ExitMoves ==
    ASSUME TypeInv, NEW c \in Callers, ExitFailure(c) \/ ExitSuccess(c)
    PROVE  pc[c] = "inside" /\ pc'[c] = "idle" /\ Only(c)
  BY DEF ExitFailure, ExitSuccess, Leave, Only, TypeInv, TypeOK

\* So does the end of a wait, from waiting to inside or idle.
LEMMA WaitMoves ==
    ASSUME TypeInv, NEW c \in Callers
    PROVE  /\ ResumeProbe(c) => pc[c] = "waiting" /\ pc'[c] = "inside" /\ Only(c)
           /\ LeaveQueue(c) => pc[c] = "waiting" /\ pc'[c] = "idle" /\ Only(c)
  BY DEF ResumeProbe, LeaveQueue, Only, TypeInv, TypeOK

\* One caller moves while nobody else is running, or it is the one running.
LEMMA MoverStep ==
    ASSUME LoopsInv, NEW c \in Callers, LoopFree \/ c \in Running,
           NEW place \in CallPlaces, Goes(c, place),
           NEW i \in Nat, attempt' = [attempt EXCEPT ![c] = i],
           NEW j \in Nat, sent' = [sent EXCEPT ![c] = j],
           Only(c), Progress(c)'
    PROVE  LoopsInv'
<1>1. TablesTyped'
  BY DEF LoopsInv, TablesTyped, Goes
<1>2. ASSUME NEW d \in Callers, d # c
      PROVE  call'[d] = call[d] /\ pc'[d] = pc[d]
             /\ attempt'[d] = attempt[d] /\ sent'[d] = sent[d]
  BY <1>2 DEF LoopsInv, TablesTyped, Goes, Only
<1>3. AllProgress'
  <2> SUFFICES ASSUME NEW d \in Callers PROVE Progress(d)'
    BY DEF AllProgress
  <2>1. CASE d = c
    BY <2>1
  <2>2. CASE d # c
    BY <1>2, <2>2 DEF LoopsInv, AllProgress, Progress
  <2>. QED
    BY <2>1, <2>2
<1>4. \A d \in Running : d = c
  BY DEF LoopsInv, OneRunning, LoopFree
<1>5. OneRunning'
  BY <1>2, <1>4 DEF OneRunning, Running
<1>. QED
  BY <1>1, <1>3, <1>5 DEF LoopsInv

\* A step that moves no caller, in either table.
LEMMA StillStep ==
    ASSUME LoopsInv, UNCHANGED <<call, attempt, sent, pc>>
    PROVE  LoopsInv'
  BY DEF LoopsInv, TablesTyped, AllProgress, Progress, OneRunning, Running

-----------------------------------------------------------------------------
\* No step of the retry loops breaks the accounting.
LEMMA StepLoops == TypeInv /\ LoopsInv /\ [RetryNext]_allVars => LoopsInv'
<1> SUFFICES ASSUME TypeInv, LoopsInv, [RetryNext]_allVars PROVE LoopsInv'
  OBVIOUS
<1>a. /\ MaxAttempts \in Nat /\ MaxAttempts >= 1
      /\ \A c \in Callers : /\ Progress(c)
                            /\ attempt[c] \in Nat /\ sent[c] \in Nat
      /\ attempt \in [Callers -> Nat] /\ sent \in [Callers -> Nat]
      /\ call \in [Callers -> CallPlaces]
  BY RetryAssumption DEF RetryAssumption, LoopsInv, AllProgress, TablesTyped
<1>1. ASSUME NEW c \in Callers, Refused(c) PROVE LoopsInv'
  BY <1>1, StillStep DEF Refused, vars, callerVars
<1>2. ASSUME NEW c \in Callers, Call(c) PROVE LoopsInv'
  <2>1. /\ EnterBreaker(c, "calling") /\ LoopFree
        /\ attempt' = [attempt EXCEPT ![c] = 1]
        /\ sent' = [sent EXCEPT ![c] = IF pc'[c] = "inside" THEN 1 ELSE 0]
    BY <1>2 DEF Call
  <2>2. CASE pc'[c] = "inside"
    <3>1. Goes(c, "calling") /\ sent' = [sent EXCEPT ![c] = 1] /\ Only(c)
      BY <2>1, <2>2, EnterMoves
    <3>2. Progress(c)'
      BY <1>a, <2>1, <2>2, <3>1 DEF Progress, Goes
    <3>. QED
      BY <2>1, <3>1, <3>2, MoverStep DEF CallPlaces
  <2>3. CASE pc'[c] # "inside"
    <3>1. PICK place \in {"entering", "latency"} :
            /\ Goes(c, place) /\ Only(c)
            /\ pc'[c] = IF place = "entering" THEN "waiting" ELSE "idle"
      BY <2>1, <2>3, EnterMoves
    <3>2. sent' = [sent EXCEPT ![c] = 0]
      BY <2>1, <2>3
    <3>3. Progress(c)'
      BY <1>a, <2>1, <3>1, <3>2 DEF Progress, Goes
    <3>. QED
      BY <2>1, <3>1, <3>2, <3>3, MoverStep DEF CallPlaces
  <2>. QED
    BY <2>2, <2>3
<1>3. ASSUME NEW c \in Callers, Retry(c) PROVE LoopsInv'
  <2>1. /\ EnterBreaker(c, "admitted") /\ LoopFree /\ call[c] = "backoff"
        /\ attempt' = [attempt EXCEPT ![c] = attempt[c] + 1]
        /\ sent' = [sent EXCEPT ![c] = sent[c]]
    BY <1>3, <1>a DEF Retry
  <2>2. PICK place \in {"admitted", "entering", "latency"} :
          /\ Goes(c, place) /\ Only(c)
          /\ pc'[c] = IF place = "admitted" THEN "inside"
                      ELSE IF place = "entering" THEN "waiting" ELSE "idle"
    BY <2>1, EnterMoves
  <2>3. attempt[c] \in 1..(MaxAttempts - 1) /\ sent[c] = attempt[c]
    BY <1>a, <2>1 DEF Progress
  <2>4. Progress(c)'
    BY <1>a, <2>1, <2>2, <2>3 DEF Progress, Goes
  <2>5. attempt[c] + 1 \in Nat
    BY <1>a
  <2>. QED
    BY <1>a, <2>1, <2>2, <2>4, <2>5, MoverStep DEF CallPlaces
<1>4. ASSUME NEW c \in Callers, Granted(c) PROVE LoopsInv'
  <2>1. /\ LoopFree /\ call[c] = "entering" /\ ResumeProbe(c)
        /\ attempt' = [attempt EXCEPT ![c] = attempt[c]]
        /\ attempt[c] \in 1..MaxAttempts /\ sent[c] = attempt[c] - 1
    BY <1>4, <1>a DEF Granted, Progress
  <2>2. pc'[c] = "inside" /\ Only(c)
    BY <2>1, WaitMoves
  <2>3. CASE attempt[c] > 1 /\ Goes(c, "admitted") /\ UNCHANGED sent
    <3>1. sent' = [sent EXCEPT ![c] = sent[c]]
      BY <1>a, <2>3
    <3>2. Progress(c)'
      BY <1>a, <2>1, <2>2, <2>3 DEF Progress, Goes
    <3>. QED
      BY <1>a, <2>1, <2>2, <2>3, <3>1, <3>2, MoverStep DEF CallPlaces
  <2>4. CASE attempt[c] = 1 /\ Goes(c, "calling") /\ Sends(c)
    <3>1. sent' = [sent EXCEPT ![c] = 1]
      BY <1>a, <2>1, <2>4 DEF Sends
    <3>2. Progress(c)'
      BY <1>a, <2>1, <2>2, <2>4, <3>1 DEF Progress, Goes
    <3>. QED
      BY <1>a, <2>1, <2>2, <2>4, <3>1, <3>2, MoverStep DEF CallPlaces
  <2>. QED
    BY <1>4, <2>3, <2>4 DEF Granted
<1>5. ASSUME NEW c \in Callers, TurnedAway(c) PROVE LoopsInv'
  <2>1. /\ LoopFree /\ call[c] = "entering" /\ LeaveQueue(c) /\ Goes(c, "latency")
        /\ attempt' = [attempt EXCEPT ![c] = attempt[c]]
        /\ sent' = [sent EXCEPT ![c] = sent[c]]
    BY <1>5, <1>a DEF TurnedAway, TimeOut
  <2>2. pc'[c] = "idle" /\ Only(c)
    BY <2>1, WaitMoves
  <2>3. Progress(c)'
    BY <1>a, <2>1, <2>2 DEF Progress, Goes
  <2>. QED
    BY <1>a, <2>1, <2>2, <2>3, MoverStep DEF CallPlaces
<1>6. ASSUME NEW c \in Callers, BudgetTaken(c) PROVE LoopsInv'
  <2>1. /\ c \in Running /\ call[c] = "admitted" /\ Goes(c, "calling")
        /\ attempt' = [attempt EXCEPT ![c] = attempt[c]]
        /\ sent' = [sent EXCEPT ![c] = sent[c] + 1]
        /\ pc' = pc
    BY <1>6, <1>a DEF BudgetTaken, Running, Sends, vars, callerVars
  <2>2. Progress(c)' /\ Only(c) /\ sent[c] + 1 \in Nat
    BY <1>a, <2>1 DEF Progress, Goes, Only
  <2>. QED
    BY <1>a, <2>1, <2>2, MoverStep DEF CallPlaces
<1>7. ASSUME NEW c \in Callers, BudgetGone(c) PROVE LoopsInv'
  <2>1. /\ c \in Running /\ call[c] = "admitted" /\ Goes(c, "latency")
        /\ attempt' = [attempt EXCEPT ![c] = attempt[c]]
        /\ sent' = [sent EXCEPT ![c] = sent[c]]
        /\ ExitFailure(c)
    BY <1>7, <1>a DEF BudgetGone, Running
  <2>2. pc'[c] = "idle" /\ Only(c)
    BY <2>1, ExitMoves
  <2>3. Progress(c)'
    BY <1>a, <2>1, <2>2 DEF Progress, Goes
  <2>. QED
    BY <1>a, <2>1, <2>2, <2>3, MoverStep DEF CallPlaces
<1>8. ASSUME NEW c \in Callers, Succeed(c) \/ FailTransient(c) \/ FailFatal(c)
      PROVE  LoopsInv'
  <2>1. /\ LoopFree /\ call[c] = "calling"
        /\ ExitFailure(c) \/ ExitSuccess(c)
        /\ attempt' = [attempt EXCEPT ![c] = attempt[c]]
        /\ sent' = [sent EXCEPT ![c] = sent[c]]
    BY <1>8, <1>a DEF Succeed, FailTransient, FailFatal
  <2>2. PICK place \in {"latency", "backoff"} :
          /\ Goes(c, place)
          /\ place = "backoff" => ~ LastAttempt(c)
    BY <1>8 DEF Succeed, FailTransient, FailFatal
  <2>3. pc'[c] = "idle" /\ Only(c)
    BY <2>1, ExitMoves
  <2>4. attempt[c] \in 1..MaxAttempts /\ sent[c] = attempt[c]
    BY <1>a, <2>1 DEF Progress
  <2>5. Progress(c)'
    BY <1>a, <2>1, <2>2, <2>3, <2>4 DEF Progress, Goes, LastAttempt
  <2>. QED
    BY <1>a, <2>1, <2>2, <2>3, <2>5, MoverStep DEF CallPlaces
<1>9. ASSUME NEW c \in Callers, ReportLatency(c) PROVE LoopsInv'
  <2>1. /\ c \in Running /\ call[c] = "latency" /\ Goes(c, "none")
        /\ attempt' = [attempt EXCEPT ![c] = 0]
        /\ sent' = [sent EXCEPT ![c] = 0]
        /\ pc' = pc
    BY <1>9 DEF ReportLatency, Running, RecordSlow, vars, callerVars
  <2>2. Progress(c)' /\ Only(c)
    BY <1>a, <2>1 DEF Progress, Goes, Only
  <2>. QED
    BY <2>1, <2>2, MoverStep DEF CallPlaces
<1>10. ASSUME NEW c \in Callers, Cancel(c) PROVE LoopsInv'
  <2>1. /\ LoopFree /\ Goes(c, "none")
        /\ attempt' = [attempt EXCEPT ![c] = 0]
        /\ sent' = [sent EXCEPT ![c] = 0]
        /\ \/ LeaveQueue(c)
           \/ ExitFailure(c)
           \/ call[c] = "backoff" /\ pc' = pc
    BY <1>10 DEF Cancel, CancelWait, vars, callerVars
  <2>2. pc'[c] = "idle" /\ Only(c)
    BY <1>a, <2>1, WaitMoves, ExitMoves DEF Progress, Only
  <2>3. Progress(c)'
    BY <1>a, <2>1, <2>2 DEF Progress, Goes
  <2>. QED
    BY <2>1, <2>2, <2>3, MoverStep DEF CallPlaces
<1>11. ASSUME ResetBudget \/ ResetBreaker \/ Clock PROVE LoopsInv'
  BY <1>11, StillStep
  DEF ResetBudget, ResetBreaker, Reset, Clock, Tick, vars, callerVars, retryVars
<1>12. CASE UNCHANGED allVars
  BY <1>12, StillStep DEF allVars, vars, callerVars, retryVars
<1>. QED
  BY <1>1, <1>2, <1>3, <1>4, <1>5, <1>6, <1>7, <1>8, <1>9, <1>10, <1>11, <1>12
  DEF RetryNext

\* Nobody has called yet, so the accounts are empty.
LEMMA InitLoops == RetryInit => LoopsInv
<1> SUFFICES ASSUME RetryInit PROVE LoopsInv
  OBVIOUS
<1>1. Running = {}
  BY DEF RetryInit, Running
<1>. QED
  BY <1>1 DEF RetryInit, Init, LoopsInv, TablesTyped, CallPlaces, AllProgress,
              Progress, OneRunning

\* The accounts of attempts and requests are right in every reachable state.
LEMMA LoopsCorrect == RetrySpec => []LoopsInv
  BY InitLoops, StepLoops, BreakerTypes, PTL DEF RetrySpec

\* For any number of callers and attempts, no attempt is counted without its
\* request and no request is sent twice under one attempt.
THEOREM RequestPerAttempt == RetrySpec => []AttemptsAreRequests
<1>1. LoopsInv => AttemptsAreRequests
  BY DEF LoopsInv, AllProgress, Progress, AttemptsAreRequests
<1>. QED
  BY <1>1, LoopsCorrect, PTL

-----------------------------------------------------------------------------
(* The retry budget.  Only the window in force and the one before it can     *)
(* have grants less than a window length apart, and neither exceeds the      *)
(* budget.                                                                   *)

GrantPlaces == 1..Len(grants)

\* Grants are in the order of time and none lies beyond its window.
GrantsOrdered ==
    /\ \A i \in GrantPlaces : /\ grants[i] <= now
                              /\ grants[i] < windowStart + BudgetWindow
    /\ \A i, j \in GrantPlaces : i <= j => grants[i] <= grants[j]

Since(w)  == {j \in GrantPlaces : grants[j] >= w}
Before(w) == {j \in GrantPlaces : grants[j] < w /\ grants[j] > w - BudgetWindow}

BudgetInv ==
    /\ BudgetTyped
    /\ GrantsOrdered
    /\ Cardinality(Since(windowStart)) <= spent
    /\ Cardinality(Before(windowStart)) <= RetryBudget
    /\ TwoBudgetsPerSpan

\* The start of the window that _check_budget() leaves in force.
WindowNow == IF WindowOver THEN now ELSE windowStart

\* The numbers and sets that the budget's invariant speaks of, and their types.
LEMMA BudgetTypes ==
    ASSUME TypeInv, BudgetInv
    PROVE  /\ now \in Nat /\ windowStart \in Nat /\ windowStart <= now
           /\ RetryBudget \in Nat /\ BudgetWindow \in Nat /\ BudgetWindow >= 1
           /\ spent \in Nat /\ spent <= RetryBudget
           /\ Len(grants) \in Nat /\ \A i \in GrantPlaces : grants[i] \in Nat
           /\ \A w : /\ IsFiniteSet(Since(w)) /\ Cardinality(Since(w)) \in Nat
                     /\ IsFiniteSet(Before(w)) /\ Cardinality(Before(w)) \in Nat
<1>1. /\ now \in Nat /\ windowStart \in Nat /\ windowStart <= now
      /\ RetryBudget \in Nat /\ BudgetWindow \in Nat /\ BudgetWindow >= 1
      /\ spent \in Nat /\ spent <= RetryBudget
      /\ grants \in Seq(Nat)
  BY RetryAssumption DEF RetryAssumption, TypeInv, TypeOK, BudgetInv, BudgetTyped
<1>2. Len(grants) \in Nat /\ \A i \in GrantPlaces : grants[i] \in Nat
  BY <1>1 DEF GrantPlaces
<1>3. IsFiniteSet(GrantPlaces)
  BY <1>2, FS_Interval DEF GrantPlaces
<1>4. ASSUME NEW w
      PROVE  /\ IsFiniteSet(Since(w)) /\ Cardinality(Since(w)) \in Nat
             /\ IsFiniteSet(Before(w)) /\ Cardinality(Before(w)) \in Nat
  <2>1. Since(w) \subseteq GrantPlaces /\ Before(w) \subseteq GrantPlaces
    BY DEF Since, Before
  <2>. QED
    BY <1>3, <2>1, FS_Subset, FS_CardinalityType
<1>. QED
  BY <1>1, <1>2, <1>4

\* Rolling the window over keeps the two counts: what the old window granted
\* is all that lies less than a window length before the new one.
LEMMA WindowRolls ==
    ASSUME TypeInv, BudgetInv
    PROVE  /\ WindowNow \in 0..now /\ now < WindowNow + BudgetWindow
           /\ windowStart <= WindowNow
           /\ SpentNow \in 0..RetryBudget
           /\ Cardinality(Since(WindowNow)) <= SpentNow
           /\ Cardinality(Before(WindowNow)) <= RetryBudget
<1>1. CASE WindowOver
  <2>1. WindowNow = now /\ SpentNow = 0 /\ now >= windowStart + BudgetWindow
    BY <1>1, BudgetTypes DEF WindowNow, SpentNow, WindowOver
  <2>2. Since(now) = {}
    BY <2>1, BudgetTypes DEF Since, BudgetInv, GrantsOrdered
  <2>3. Before(now) \subseteq Since(windowStart)
    BY <2>1, BudgetTypes DEF Before, Since
  <2>4. Cardinality(Before(now)) <= Cardinality(Since(windowStart))
    BY <2>3, BudgetTypes, FS_Subset
  <2>. QED
    BY <2>1, <2>2, <2>4, BudgetTypes, FS_EmptySet DEF BudgetInv
<1>2. CASE ~ WindowOver
  BY <1>2, BudgetTypes DEF WindowNow, SpentNow, WindowOver, BudgetInv
<1>. QED
  BY <1>1, <1>2

\* A step that only looks at the budget, or lets time pass.
LEMMA BudgetQuiet ==
    ASSUME TypeInv, BudgetInv, UNCHANGED <<spent, windowStart, grants>>,
           now' \in Nat, now' >= now, refusals' \in Nat, calls' \in Nat
    PROVE  BudgetInv'
<1>1. BudgetTyped'
  BY BudgetTypes DEF BudgetInv, BudgetTyped
<1>2. GrantsOrdered'
  BY BudgetTypes DEF BudgetInv, GrantsOrdered, GrantPlaces
<1>. QED
  BY <1>1, <1>2 DEF BudgetInv, Since, Before, GrantPlaces, TwoBudgetsPerSpan

\* A refused retry rolls the window over and grants nothing.
LEMMA BudgetRefuses ==
    ASSUME TypeInv, BudgetInv, NewWindow, spent' = SpentNow,
           UNCHANGED <<now, grants, refusals, calls>>
    PROVE  BudgetInv'
<1>1. windowStart' = WindowNow
  BY DEF NewWindow, WindowNow
<1>2. BudgetTyped'
  BY <1>1, WindowRolls DEF BudgetInv, BudgetTyped
<1>3. GrantsOrdered'
  BY <1>1, WindowRolls, BudgetTypes DEF BudgetInv, GrantsOrdered, GrantPlaces
<1>4. Since(windowStart)' = Since(WindowNow) /\ Before(windowStart)' = Before(WindowNow)
  BY <1>1 DEF Since, Before, GrantPlaces
<1>. QED
  BY <1>2, <1>3, <1>4, WindowRolls DEF BudgetInv, TwoBudgetsPerSpan

\* A granted retry adds one grant to the window in force; a span that reaches
\* it lies in that window and the one before.
LEMMA BudgetGrants ==
    ASSUME TypeInv, BudgetInv, NewWindow, SpentNow < RetryBudget,
           spent' = SpentNow + 1, grants' = Append(grants, now),
           UNCHANGED <<now, refusals, calls>>
    PROVE  BudgetInv'
<1>0. PICK w, n, g : w = WindowNow /\ n = Len(grants) + 1 /\ g = grants'
  OBVIOUS
<1>1. /\ windowStart' = w /\ w \in Nat /\ now \in Nat /\ w <= now
      /\ now < w + BudgetWindow /\ windowStart \in Nat /\ windowStart <= w
      /\ RetryBudget \in Nat /\ BudgetWindow \in Nat /\ BudgetWindow >= 1
      /\ SpentNow \in Nat
  BY <1>0, WindowRolls, BudgetTypes DEF NewWindow, WindowNow
<1>2. /\ Cardinality(Since(w)) <= SpentNow /\ Cardinality(Since(w)) \in Nat
      /\ IsFiniteSet(Since(w))
      /\ Cardinality(Before(w)) <= RetryBudget /\ Cardinality(Before(w)) \in Nat
      /\ IsFiniteSet(Before(w))
  BY <1>0, WindowRolls, BudgetTypes
<1>3. /\ GrantPlaces' = GrantPlaces \cup {n} /\ n \notin GrantPlaces
      /\ g[n] = now
      /\ \A i \in GrantPlaces : /\ g[i] = grants[i] /\ grants[i] \in Nat
                                /\ i < n
      /\ n \in Nat /\ GrantPlaces \subseteq Nat
      /\ g \in Seq(Nat) /\ Len(g) = n
  BY <1>0, BudgetTypes DEF GrantPlaces, BudgetInv, BudgetTyped
<1>4. BudgetTyped'
  BY <1>0, <1>1, <1>3 DEF BudgetInv, BudgetTyped
<1>5. GrantsOrdered'
  <2>1. ASSUME NEW i \in GrantPlaces'
        PROVE  /\ g[i] \in Nat /\ g[i] <= now
               /\ g[i] < w + BudgetWindow
    <3>1. CASE i = n
      BY <1>1, <1>3, <3>1
    <3>2. CASE i \in GrantPlaces
      <4>1. grants[i] <= now /\ grants[i] < windowStart + BudgetWindow
        BY <3>2 DEF BudgetInv, GrantsOrdered
      <4>. QED
        BY <1>1, <1>3, <3>2, <4>1
    <3>. QED
      BY <1>3, <3>1, <3>2
  <2>2. ASSUME NEW i \in GrantPlaces', NEW j \in GrantPlaces', i <= j
        PROVE  g[i] <= g[j]
    <3>1. CASE j = n
      BY <1>3, <2>1, <3>1
    <3>2. CASE j # n
      <4>1. i \in GrantPlaces /\ j \in GrantPlaces
        BY <1>3, <2>2, <3>2
      <4>. QED
        BY <1>3, <2>2, <4>1 DEF BudgetInv, GrantsOrdered
    <3>. QED
      BY <3>1, <3>2
  <2>. QED
    BY <1>0, <1>1, <2>1, <2>2 DEF GrantsOrdered
<1>6. Since(w)' = Since(w) \cup {n} /\ n \notin Since(w)
  BY <1>0, <1>1, <1>3 DEF Since
<1>7. Before(w)' = Before(w)
  <2>1. Before(w)' = {j \in GrantPlaces \cup {n} : g[j] < w /\ g[j] > w - BudgetWindow}
    BY <1>0, <1>3 DEF Before
  <2>2. /\ \A j \in GrantPlaces : g[j] = grants[j]
        /\ ~ (g[n] < w)
    BY <1>1, <1>3
  <2>. QED
    BY <2>1, <2>2 DEF Before
<1>8. /\ IsFiniteSet(Since(w)')
      /\ Cardinality(Since(w)') = Cardinality(Since(w)) + 1
  BY <1>2, <1>6, FS_AddElement
<1>9. TwoBudgetsPerSpan'
  <2> DEFINE S(i) == {j \in i..n : g[j] < g[i] + BudgetWindow}
  <2> SUFFICES ASSUME NEW i \in GrantPlaces'
               PROVE  Cardinality(S(i)) <= 2 * RetryBudget
    BY <1>0, <1>3 DEF TwoBudgetsPerSpan, GrantPlaces
  <2>1. GrantPlaces' = 1..n
    BY <1>3 DEF GrantPlaces
  <2>2. CASE g[i] > w - BudgetWindow
    <3> DEFINE U == Since(w)' \cup Before(w)'
    <3>1. ASSUME NEW j \in S(i) PROVE j \in U
      <4>1. j \in GrantPlaces' /\ i <= j
        BY <1>3, <2>1
      <4>2. g[i] <= g[j] /\ g[i] \in Nat /\ g[j] \in Nat
        BY <1>0, <1>1, <1>3, <1>5, <4>1 DEF GrantsOrdered
      <4>3. g[j] > w - BudgetWindow
        BY <1>1, <2>2, <4>2
      <4>4. g[j] >= w \/ g[j] < w
        BY <1>1, <4>2
      <4>. QED
        BY <1>0, <4>1, <4>3, <4>4 DEF Since, Before
    <3>2. /\ IsFiniteSet(U)
          /\ Cardinality(U) = Cardinality(Since(w)') + Cardinality(Before(w)')
                               - Cardinality(Since(w)' \cap Before(w)')
      BY <1>2, <1>7, <1>8, FS_Union
    <3>3. Cardinality(Since(w)' \cap Before(w)') \in Nat
      <4>1. IsFiniteSet(Since(w)' \cap Before(w)')
        BY <1>8, FS_Subset
      <4>. QED
        BY <4>1, FS_CardinalityType
    <3>4. Cardinality(U) <= 2 * RetryBudget /\ Cardinality(U) \in Nat
      BY <1>1, <1>2, <1>7, <1>8, <3>2, <3>3, FS_CardinalityType
    <3>5. Cardinality(S(i)) <= Cardinality(U) /\ Cardinality(S(i)) \in Nat
      <4>1. S(i) \subseteq U
        BY <3>1
      <4>. QED
        BY <3>2, <4>1, FS_Subset, FS_CardinalityType
    <3>. HIDE DEF S, U
    <3>. QED
      BY <1>1, <3>4, <3>5
  <2>3. CASE ~ (g[i] > w - BudgetWindow)
    <3>1. /\ i \in GrantPlaces /\ g[i] = grants[i]
          /\ ~ (g[n] < grants[i] + BudgetWindow)
      BY <1>1, <1>3, <2>3
    <3>2. \A j : j \in i..n /\ j # n <=> j \in i..Len(grants)
      BY <1>0, <1>3, <3>1, BudgetTypes, SMTT(20)
    <3>3. \A j \in i..Len(grants) : g[j] = grants[j]
      BY <1>3, <3>1, BudgetTypes DEF GrantPlaces
    <3>4. S(i) = {j \in i..Len(grants) : grants[j] < grants[i] + BudgetWindow}
      BY <3>1, <3>2, <3>3
    <3>. QED
      BY <3>1, <3>4 DEF BudgetInv, TwoBudgetsPerSpan, GrantPlaces
  <2>. QED
    BY <2>2, <2>3
<1>10. windowStart' = w
  BY <1>1
<1>11. /\ Cardinality(Since(windowStart)') <= spent'
       /\ Cardinality(Before(windowStart)') <= RetryBudget
  <2>1. Since(windowStart)' = Since(w)' /\ Before(windowStart)' = Before(w)'
    BY <1>10 DEF Since, Before
  <2>. QED
    BY <1>1, <1>2, <1>7, <1>8, <2>1
<1>. QED
  BY <1>4, <1>5, <1>9, <1>11 DEF BudgetInv

\* The clock never runs backwards.
LEMMA ClockForward ==
    ASSUME TypeInv, [Next]_vars
    PROVE  now' \in Nat /\ now' >= now
<1>1. now \in Nat
  BY DEF TypeInv, TypeOK
<1>2. now' = now \/ now' = now + 1
  BY DEF Next, EnterClosed, EnterOpen, EnterAfterCoolDown, EnterHalfOpen,
         ResumeProbe, TimeOut, CancelWait, LeaveQueue, ExitFailure, ExitSuccess,
         RecordSlow, Reset, Tick, vars
<1>. QED
  BY <1>1, <1>2

\* No step of the retry loops overdraws the budget.
LEMMA StepBudget == TypeInv /\ BudgetInv /\ [RetryNext]_allVars => BudgetInv'
<1> SUFFICES ASSUME TypeInv, BudgetInv, [RetryNext]_allVars PROVE BudgetInv'
  OBVIOUS
<1>a. now' \in Nat /\ now' >= now
  BY StepMaps, ClockForward
<1>b. refusals \in Nat /\ calls \in Nat
  BY DEF BudgetInv, BudgetTyped
<1>1. ASSUME UNCHANGED <<spent, windowStart, grants>>,
             refusals' \in Nat, calls' \in Nat
      PROVE  BudgetInv'
  BY <1>1, <1>a, BudgetQuiet
<1>2. ASSUME NEW c \in Callers,
             \/ Refused(c) \/ Call(c) \/ Retry(c) \/ Granted(c) \/ TurnedAway(c)
             \/ Succeed(c) \/ FailTransient(c) \/ FailFatal(c)
             \/ ReportLatency(c) \/ Cancel(c)
      PROVE  BudgetInv'
  BY <1>2, <1>b, <1>1
  DEF Refused, Call, Retry, Granted, TurnedAway, Succeed, FailTransient,
      FailFatal, ReportLatency, Cancel, Counted
<1>3. ASSUME NEW c \in Callers, BudgetTaken(c) PROVE BudgetInv'
  BY <1>3, BudgetGrants DEF BudgetTaken, vars
<1>4. ASSUME NEW c \in Callers, BudgetGone(c) PROVE BudgetInv'
  BY <1>4, BudgetRefuses DEF BudgetGone, ExitFailure
<1>5. ASSUME ResetBudget PROVE BudgetInv'
  <2>1. /\ spent' = 0 /\ grants' = <<>> /\ windowStart' = windowStart
        /\ now' = now /\ refusals' \in Nat /\ calls' \in Nat
    BY <1>5, <1>b DEF ResetBudget, Counted, vars
  <2>2. GrantPlaces' = {}
    BY <2>1 DEF GrantPlaces
  <2>3. BudgetTyped'
    BY <2>1, BudgetTypes DEF BudgetTyped
  <2>4. Since(windowStart)' = {} /\ Before(windowStart)' = {}
    BY <2>2 DEF Since, Before
  <2>5. GrantsOrdered'
    BY <2>2 DEF GrantsOrdered
  <2>6. TwoBudgetsPerSpan'
    BY <2>2 DEF TwoBudgetsPerSpan, GrantPlaces
  <2>. QED
    BY <2>1, <2>3, <2>4, <2>5, <2>6, BudgetTypes, FS_EmptySet DEF BudgetInv
<1>6. ASSUME ResetBreaker \/ Clock PROVE BudgetInv'
  BY <1>6, <1>b, <1>1 DEF ResetBreaker, Clock, Counted, retryVars
<1>7. CASE UNCHANGED allVars
  BY <1>7, <1>b, <1>1 DEF allVars, retryVars
<1>. QED
  BY <1>2, <1>3, <1>4, <1>5, <1>6, <1>7 DEF RetryNext

\* Nothing is spent at the start.
LEMMA InitBudget == RetryInit => BudgetInv
<1> SUFFICES ASSUME RetryInit PROVE BudgetInv
  OBVIOUS
<1>1. /\ now = 0 /\ spent = 0 /\ windowStart = 0 /\ refusals = 0 /\ calls = 0
      /\ grants = <<>> /\ RetryBudget \in Nat
  BY RetryAssumption DEF RetryInit, Init, RetryAssumption
<1>2. GrantPlaces = {}
  BY <1>1 DEF GrantPlaces
<1>3. Since(windowStart) = {} /\ Before(windowStart) = {}
  BY <1>2 DEF Since, Before
<1>4. BudgetTyped /\ GrantsOrdered
  BY <1>1, <1>2 DEF BudgetTyped, GrantsOrdered
<1>5. TwoBudgetsPerSpan
  BY <1>2 DEF TwoBudgetsPerSpan, GrantPlaces
<1>6. /\ Cardinality(Since(windowStart)) <= spent
      /\ Cardinality(Before(windowStart)) <= RetryBudget
  <2>1. Cardinality({}) = 0
    BY FS_EmptySet
  <2>2. spent = 0 /\ RetryBudget >= 0
    BY <1>1
  <2>. QED
    BY <1>3, <2>1, <2>2
<1>. QED
  BY <1>4, <1>5, <1>6 DEF BudgetInv

\* The budget's accounts are right in every reachable state.
LEMMA BudgetCorrect == RetrySpec => []BudgetInv
  BY InitBudget, StepBudget, BreakerTypes, PTL DEF RetrySpec

\* For any budget and window length, whatever the callers do, no span of one
\* window length ever sees more than twice the budget in granted retries.
THEOREM BudgetBound == RetrySpec => []TwoBudgetsPerSpan
<1>1. BudgetInv => TwoBudgetsPerSpan
  BY DEF BudgetInv
<1>. QED
  BY <1>1, BudgetCorrect, PTL

-----------------------------------------------------------------------------
(* Types, and the breaker that nobody can reopen. *)

\* Every variable of the retry loops stays in its range: no execution begins
\* more than max_attempts attempts, and only one task runs at a time.
THEOREM RetryTypeCorrect == RetrySpec => []RetryTypeOK
<1>1. TypeInv /\ LoopsInv /\ BudgetInv => RetryTypeOK
  <2> SUFFICES ASSUME TypeInv, LoopsInv, BudgetInv PROVE RetryTypeOK
    OBVIOUS
  <2>1. /\ attempt \in [Callers -> 0..MaxAttempts]
        /\ sent \in [Callers -> 0..MaxAttempts]
    <3>1. ASSUME NEW c \in Callers
          PROVE  attempt[c] \in 0..MaxAttempts /\ sent[c] \in 0..MaxAttempts
      BY RetryAssumption
      DEF RetryAssumption, LoopsInv, TablesTyped, AllProgress, Progress
    <3>. QED
      BY <3>1 DEF LoopsInv, TablesTyped
  <2>2. Cardinality(Running) <= 1
    <3>1. CASE Running = {}
      BY <3>1, FS_EmptySet
    <3>2. ASSUME NEW c \in Running PROVE Cardinality(Running) <= 1
      <4>1. Running = {c}
        BY DEF LoopsInv, OneRunning
      <4>2. Cardinality({c}) = 1
        BY FS_Singleton
      <4>. QED
        BY <4>1, <4>2
    <3>. QED
      BY <3>1, <3>2
  <2>. QED
    BY <2>1, <2>2
    DEF RetryTypeOK, TypeInv, LoopsInv, TablesTyped, BudgetInv, BudgetTyped
<1>. QED
  BY <1>1, BreakerTypes, LoopsCorrect, BudgetCorrect, PTL

\* For any callers and thresholds: when the breaker is OPEN and no execution is
\* under way, no step but reset() takes it out of OPEN, and none begins one.
THEOREM StuckUntilReset == RetrySpec => StuckOpenWithoutRetries
<1> DEFINE Stuck ==
      state = "OPEN" /\ (\A c \in Callers : call[c] = "none") =>
          \/ state' = "OPEN" /\ \A c \in Callers : call'[c] = "none"
          \/ state' = "CLOSED" /\ log' = <<>>
<1>1. [RetryNext]_allVars => Stuck \/ UNCHANGED allVars
  <2> SUFFICES ASSUME RetryNext, state = "OPEN", \A c \in Callers : call[c] = "none"
               PROVE  \/ state' = "OPEN" /\ call' = call
                      \/ state' = "CLOSED" /\ log' = <<>>
    OBVIOUS
  <2>1. ASSUME NEW c \in Callers,
               \/ Refused(c) \/ Call(c) \/ Retry(c) \/ Granted(c) \/ TurnedAway(c)
               \/ BudgetTaken(c) \/ BudgetGone(c)
               \/ Succeed(c) \/ FailTransient(c) \/ FailFatal(c)
               \/ ReportLatency(c)
        PROVE  state' = "OPEN" /\ call' = call
    BY <2>1
    DEF Refused, Call, NotOpen, Retry, Granted, TurnedAway, BudgetTaken,
        BudgetGone, Succeed, FailTransient, FailFatal, ReportLatency,
        vars, breakerVars
  <2>2. ASSUME NEW c \in Callers PROVE ~ Cancel(c)
    BY DEF Cancel
  <2>3. ResetBudget \/ Clock => state' = "OPEN" /\ call' = call
    BY DEF ResetBudget, Clock, Tick, retryVars, vars, breakerVars
  <2>4. ResetBreaker => state' = "CLOSED" /\ log' = <<>>
    BY DEF ResetBreaker, Reset
  <2>. QED
    BY <2>1, <2>2, <2>3, <2>4 DEF RetryNext
<1>. QED
  BY <1>1, PTL DEF RetrySpec, StuckOpenWithoutRetries
=============================================================================
