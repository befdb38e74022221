--------------------------- MODULE EngineRunProofs ---------------------------
(***************************************************************************)
(* Theorems about SemaphoreLimiter, for any set of tasks, any limits and   *)
(* any number of changes of the limit, and about EngineRun.  The executor  *)
(* is one more user of the limiter: what it does to the limiter is what    *)
(* the limiter's own specification allows, so that the limiter's theorems  *)
(* carry over.                                                             *)
(***************************************************************************)
EXTENDS EngineRun, AsyncSemaphoreProofs

LOCAL INSTANCE Functions
LOCAL INSTANCE FiniteSetTheorems
LOCAL INSTANCE SequenceTheorems

-----------------------------------------------------------------------------
(* The limiter. *)

\* A parked task is parked on a semaphore that exists.
WaitersParked == \A t \in Tasks : pc[t] = "waiting" => waitsOn[t] # 0

TypeInv == TypeOK /\ WaitersParked

\* The permits of the current semaphore, the tasks inside and the tasks parked
\* on a semaphore that was replaced: whoever is none of these holds nothing.
Budget ==
    Permits(sems[Current]) + Cardinality(Inside) + Cardinality(OldWaiting)
        <= limit + carried

\* Every slot of the limit is a permit of the current semaphore or has a task.
SlotsUsed == limit <= Permits(sems[Current]) + Cardinality(Inside)

LimiterInv == TypeInv /\ ActiveCountsInside /\ Budget /\ SlotsUsed

-----------------------------------------------------------------------------
(* Types and counts. *)

\* The numbers and sets the other lemmas speak of.
LEMMA Facts ==
    ASSUME TypeInv
    PROVE  /\ Current \in Nat \ {0} /\ limit \in Nat /\ carried \in Nat
           /\ IsSemaphore(sems[Current], Tasks)
           /\ \A e \in 1..Len(sems) : /\ IsSemaphore(sems[e], Tasks)
                                      /\ Permits(sems[e]) \in Nat
           /\ IsFiniteSet(Inside) /\ Cardinality(Inside) \in Nat
           /\ IsFiniteSet(Waiting) /\ Cardinality(Waiting) \in Nat
           /\ IsFiniteSet(OldWaiting) /\ Cardinality(OldWaiting) \in Nat
<1>1. Len(sems) \in Nat /\ Len(sems) # 0
  BY LenProperties, EmptySeq DEF TypeInv, TypeOK
<1>2. \A e \in 1..Len(sems) : IsSemaphore(sems[e], Tasks)
  BY ElementOfSeq DEF TypeInv, TypeOK, IsSemaphore
<1>3. \A e \in 1..Len(sems) : Permits(sems[e]) \in Nat
  BY <1>2, FieldsOfSemaphore
<1>4. Inside \in SUBSET Tasks /\ Waiting \in SUBSET Tasks
      /\ OldWaiting \in SUBSET Tasks
  BY DEF Inside, Waiting, OldWaiting
<1>5. /\ IsFiniteSet(Inside) /\ IsFiniteSet(Waiting)
      /\ IsFiniteSet(OldWaiting)
  BY <1>4, LimiterAssumption, FS_Subset DEF LimiterAssumption
<1>. QED
  BY <1>1, <1>2, <1>3, <1>5, FS_CardinalityType DEF Current, TypeInv, TypeOK

\* No task but t moves.
OnlyMoves(t) ==
    \A u \in Tasks \ {t} : pc'[u] = pc[u] /\ waitsOn'[u] = waitsOn[u]

\* A step that moves one task only changes a count by that task.
LEMMA OneTaskMoves ==
    ASSUME TypeInv, NEW t \in Tasks, OnlyMoves(t), Current' = Current
    PROVE  /\ Cardinality(Inside') = Cardinality(Inside)
                  - (IF pc[t] = "inside" THEN 1 ELSE 0)
                  + (IF pc'[t] = "inside" THEN 1 ELSE 0)
           /\ Cardinality(OldWaiting') = Cardinality(OldWaiting)
                  - (IF pc[t] = "waiting" /\ waitsOn[t] # Current THEN 1 ELSE 0)
                  + (IF pc'[t] = "waiting" /\ waitsOn'[t] # Current THEN 1 ELSE 0)
           /\ Cardinality(Inside) \in Nat /\ Cardinality(OldWaiting) \in Nat
<1>1. /\ Inside' \ {t} = Inside \ {t}
      /\ (t \in Inside <=> pc[t] = "inside")
      /\ (t \in Inside' <=> pc'[t] = "inside")
  BY DEF Inside, OnlyMoves
<1>2. /\ OldWaiting' \ {t} = OldWaiting \ {t}
      /\ (t \in OldWaiting <=> pc[t] = "waiting" /\ waitsOn[t] # Current)
      /\ (t \in OldWaiting' <=> pc'[t] = "waiting" /\ waitsOn'[t] # Current)
  BY DEF OldWaiting, Waiting, OnlyMoves
<1>3. IsFiniteSet(Inside) /\ IsFiniteSet(OldWaiting)
  BY Facts
<1>4. Cardinality(Inside') = Cardinality(Inside)
          - (IF t \in Inside THEN 1 ELSE 0) + (IF t \in Inside' THEN 1 ELSE 0)
  BY <1>1, <1>3, CountMoves
<1>5. Cardinality(OldWaiting') = Cardinality(OldWaiting)
          - (IF t \in OldWaiting THEN 1 ELSE 0)
          + (IF t \in OldWaiting' THEN 1 ELSE 0)
  BY <1>2, <1>3, CountMoves
<1>. QED
  BY <1>1, <1>2, <1>4, <1>5, Facts

\* A step that replaces semaphore k by s and moves one task keeps the types of
\* the semaphores and of the tasks.
LEMMA OneSemaphoreChanges ==
    ASSUME TypeInv, NEW k \in 1..Len(sems), NEW s, IsSemaphore(s, Tasks),
           sems' = [sems EXCEPT ![k] = s]
    PROVE  /\ sems' \in Seq(Semaphores(Tasks)) /\ sems' # <<>>
           /\ Len(sems') = Len(sems) /\ Current' = Current
           /\ sems'[Current] = IF k = Current THEN s ELSE sems[Current]
<1>1. /\ sems' \in Seq(Semaphores(Tasks))
      /\ Len(sems') = Len(sems)
      /\ \A e \in 1..Len(sems) : sems'[e] = IF e = k THEN s ELSE sems[e]
  BY PoolUpdate DEF TypeInv, TypeOK
<1>2. Current \in 1..Len(sems) /\ Len(sems') # 0
  BY <1>1, Facts DEF Current
<1>3. Len(<<>>) = 0
  BY EmptySeq
<1>. QED
  BY <1>1, <1>2, <1>3 DEF Current

-----------------------------------------------------------------------------
(* One lemma per action. *)

\* The invariant holds when the limiter is made.
LEMMA InitInv == Init => LimiterInv
<1> SUFFICES ASSUME Init PROVE LimiterInv
  OBVIOUS
<1>1. /\ MaxConcurrent \in Nat \ {0} /\ MaxConcurrent \in Nat
      /\ IsFiniteSet(Tasks)
  BY LimiterAssumption DEF LimiterAssumption
<1>2. /\ IsSemaphore(NewSemaphore(MaxConcurrent), Tasks)
      /\ Permits(NewSemaphore(MaxConcurrent)) = MaxConcurrent
  BY <1>1, NewSemaphorePermits
<1>3. /\ sems \in Seq(Semaphores(Tasks)) /\ Len(sems) = 1 /\ sems # <<>>
      /\ sems[1] = NewSemaphore(MaxConcurrent)
  BY <1>2 DEF Init, IsSemaphore
<1>4. TypeInv
  BY <1>1, <1>3 DEF Init, TypeInv, TypeOK, WaitersParked
<1>5. Inside = {} /\ OldWaiting = {}
  BY DEF Init, Inside, OldWaiting, Waiting
<1>6. Cardinality(Inside) = 0 /\ Cardinality(OldWaiting) = 0
  BY <1>5, FS_EmptySet
<1>. QED
  BY <1>1, <1>2, <1>3, <1>4, <1>6
  DEF LimiterInv, ActiveCountsInside, Budget, SlotsUsed, Init, Current

\* A permit is free: it moves from the semaphore to the task.
LEMMA EnterNowInv ==
    ASSUME LimiterInv, NEW t \in Tasks, EnterNow(t)
    PROVE  LimiterInv'
<1> USE DEF LimiterInv
<1>1. /\ IsSemaphore(TakePermit(sems[Current]), Tasks)
      /\ Permits(TakePermit(sems[Current])) = Permits(sems[Current]) - 1
  BY Facts, TakePermits DEF EnterNow
<1>2. Current \in 1..Len(sems) /\ Permits(sems[Current]) \in Nat
  BY Facts DEF Current
<1>3. /\ sems' \in Seq(Semaphores(Tasks)) /\ sems' # <<>>
      /\ Len(sems') = Len(sems) /\ Current' = Current
      /\ sems'[Current] = TakePermit(sems[Current])
  BY <1>1, <1>2, OneSemaphoreChanges DEF EnterNow
<1>4. /\ pc[t] = "idle" /\ pc' = [pc EXCEPT ![t] = "inside"]
      /\ waitsOn' = waitsOn /\ waitsOn' = [waitsOn EXCEPT ![t] = waitsOn[t]]
  BY DEF EnterNow, Begin, Admitted, TypeInv, TypeOK
<1>5. OnlyMoves(t) /\ pc'[t] = "inside" /\ waitsOn'[t] = waitsOn[t]
  BY <1>4 DEF OnlyMoves, TypeInv, TypeOK
<1>6. /\ Cardinality(Inside') = Cardinality(Inside) + 1
      /\ Cardinality(OldWaiting') = Cardinality(OldWaiting)
  BY <1>3, <1>4, <1>5, OneTaskMoves
<1>7. /\ active' = active + 1 /\ acquisitions' = acquisitions + 1
      /\ peak' = (IF active' > peak THEN active' ELSE peak)
      /\ entries' = entries + 1 /\ UNCHANGED <<limit, timeouts, carried>>
  BY DEF EnterNow, Begin, Admitted
<1>8. TypeInv'
  BY <1>2, <1>3, <1>4, <1>7 DEF TypeInv, TypeOK, WaitersParked
<1>9. ActiveCountsInside'
  BY <1>6, <1>7, Facts DEF ActiveCountsInside, TypeInv, TypeOK
<1>10. Budget'
  BY <1>1, <1>2, <1>3, <1>6, <1>7, Facts DEF Budget
<1>11. SlotsUsed'
  BY <1>1, <1>2, <1>3, <1>6, <1>7, Facts DEF SlotsUsed
<1>. QED
  BY <1>8, <1>9, <1>10, <1>11

\* No permit is free: the task parks on the current semaphore.
LEMMA EnterAndWaitInv ==
    ASSUME LimiterInv, NEW t \in Tasks, EnterAndWait(t)
    PROVE  LimiterInv'
<1> USE DEF LimiterInv
<1>1. /\ IsSemaphore(Park(sems[Current], t), Tasks)
      /\ Permits(Park(sems[Current], t)) = Permits(sems[Current])
  BY Facts, ParkPermits
<1>2. Current \in 1..Len(sems) /\ Current # 0 /\ Permits(sems[Current]) \in Nat
  BY Facts DEF Current
<1>3. /\ sems' \in Seq(Semaphores(Tasks)) /\ sems' # <<>>
      /\ Len(sems') = Len(sems) /\ Current' = Current
      /\ sems'[Current] = Park(sems[Current], t)
  BY <1>1, <1>2, OneSemaphoreChanges DEF EnterAndWait
<1>4. /\ pc[t] = "idle" /\ pc' = [pc EXCEPT ![t] = "waiting"]
      /\ waitsOn' = [waitsOn EXCEPT ![t] = Current]
      /\ entries' = entries + 1
      /\ UNCHANGED <<limit, active, peak, acquisitions, timeouts, carried>>
  BY DEF EnterAndWait, Begin
<1>5. OnlyMoves(t) /\ pc'[t] = "waiting" /\ waitsOn'[t] = Current
  BY <1>4 DEF OnlyMoves, TypeInv, TypeOK
<1>6. /\ Cardinality(Inside') = Cardinality(Inside)
      /\ Cardinality(OldWaiting') = Cardinality(OldWaiting)
  BY <1>3, <1>4, <1>5, OneTaskMoves
<1>7. TypeInv'
  BY <1>2, <1>3, <1>4 DEF TypeInv, TypeOK, WaitersParked
<1>8. ActiveCountsInside'
  BY <1>4, <1>6 DEF ActiveCountsInside
<1>9. Budget' /\ SlotsUsed'
  BY <1>1, <1>3, <1>4, <1>6 DEF Budget, SlotsUsed
<1>. QED
  BY <1>7, <1>8, <1>9

\* A woken task takes its permit out of the semaphore it is parked on.
LEMMA ResumeWaitInv ==
    ASSUME LimiterInv, NEW t \in Tasks, ResumeWait(t)
    PROVE  LimiterInv'
<1> USE DEF LimiterInv
<1> DEFINE k == waitsOn[t]
<1>1. k \in 1..Len(sems) /\ pc[t] = "waiting"
  BY Facts DEF ResumeWait, TypeInv, TypeOK, WaitersParked, Current
<1>2. PICK i \in WokenPlaces(sems[k], t) :
        sems' = [sems EXCEPT ![k] = Resume(@, i)]
  BY DEF ResumeWait
<1>3. /\ IsSemaphore(Resume(sems[k], i), Tasks)
      /\ Permits(Resume(sems[k], i)) = Permits(sems[k]) - 1
  BY <1>1, <1>2, Facts, ResumePermits
<1>4. /\ sems' \in Seq(Semaphores(Tasks)) /\ sems' # <<>>
      /\ Len(sems') = Len(sems) /\ Current' = Current
      /\ sems'[Current] = IF k = Current THEN Resume(sems[k], i)
                                         ELSE sems[Current]
  BY <1>1, <1>2, <1>3, OneSemaphoreChanges
<1>5. /\ pc' = [pc EXCEPT ![t] = "inside"]
      /\ waitsOn' = [waitsOn EXCEPT ![t] = 0]
      /\ active' = active + 1 /\ acquisitions' = acquisitions + 1
      /\ peak' = (IF active' > peak THEN active' ELSE peak)
      /\ UNCHANGED <<limit, timeouts, carried, entries>>
  BY DEF ResumeWait, Admitted
<1>6. Permits(sems[k]) \in Nat /\ Permits(sems[Current]) \in Nat
  BY <1>1, Facts, FieldsOfSemaphore DEF Current
<1>7. OnlyMoves(t) /\ pc'[t] = "inside" /\ waitsOn'[t] = 0
  BY <1>5 DEF OnlyMoves, TypeInv, TypeOK
<1>8. /\ Cardinality(Inside') = Cardinality(Inside) + 1
      /\ Cardinality(OldWaiting') = Cardinality(OldWaiting)
                                    - (IF k # Current THEN 1 ELSE 0)
  BY <1>1, <1>4, <1>7, OneTaskMoves
<1>9. TypeInv'
  BY <1>1, <1>4, <1>5 DEF TypeInv, TypeOK, WaitersParked
<1>10. ActiveCountsInside'
  BY <1>5, <1>8, Facts DEF ActiveCountsInside, TypeInv, TypeOK
<1>. HIDE DEF k
<1>11. Permits(sems'[Current']) = Permits(sems[Current])
                                 - (IF k = Current THEN 1 ELSE 0)
  BY <1>3, <1>4, <1>6
<1>12. limit' = limit /\ carried' = carried /\ limit \in Nat /\ carried \in Nat
  BY <1>5, Facts
<1>13. Cardinality(Inside) \in Nat /\ Cardinality(OldWaiting) \in Nat
  BY Facts
<1>14. Budget' /\ SlotsUsed'
  BY <1>6, <1>8, <1>11, <1>12, <1>13 DEF Budget, SlotsUsed
<1>. QED
  BY <1>9, <1>10, <1>14

\* A task that gives up leaves every permit where it was.
LEMMA LeaveQueueInv ==
    ASSUME LimiterInv, NEW t \in Tasks, LeaveQueue(t), timeouts' \in Nat
    PROVE  LimiterInv'
<1> USE DEF LimiterInv
<1> DEFINE k == waitsOn[t]
<1>1. k \in 1..Len(sems) /\ pc[t] = "waiting"
  BY Facts DEF LeaveQueue, TypeInv, TypeOK, WaitersParked, Current
<1>2. PICK i \in Places(sems[k], t) :
        sems' = [sems EXCEPT ![k] = GiveUp(@, i)]
  BY DEF LeaveQueue
<1>3. /\ IsSemaphore(GiveUp(sems[k], i), Tasks)
      /\ Permits(GiveUp(sems[k], i)) = Permits(sems[k])
  BY <1>1, <1>2, Facts, GiveUpPermits
<1>4. /\ sems' \in Seq(Semaphores(Tasks)) /\ sems' # <<>>
      /\ Len(sems') = Len(sems) /\ Current' = Current
      /\ sems'[Current] = IF k = Current THEN GiveUp(sems[k], i)
                                         ELSE sems[Current]
  BY <1>1, <1>2, <1>3, OneSemaphoreChanges
<1>5. /\ pc' = [pc EXCEPT ![t] = "idle"]
      /\ waitsOn' = [waitsOn EXCEPT ![t] = 0]
      /\ UNCHANGED <<limit, active, peak, acquisitions, carried, entries>>
  BY DEF LeaveQueue
<1>6. OnlyMoves(t) /\ pc'[t] = "idle" /\ waitsOn'[t] = 0
  BY <1>5 DEF OnlyMoves, TypeInv, TypeOK
<1>7. /\ Cardinality(Inside') = Cardinality(Inside)
      /\ Cardinality(OldWaiting') <= Cardinality(OldWaiting)
      /\ Cardinality(OldWaiting') \in Int
  BY <1>1, <1>4, <1>6, OneTaskMoves
<1>8. TypeInv'
  BY <1>1, <1>4, <1>5 DEF TypeInv, TypeOK, WaitersParked
<1>9. ActiveCountsInside'
  BY <1>5, <1>7 DEF ActiveCountsInside
<1>10. Permits(sems'[Current]) = Permits(sems[Current])
  BY <1>3, <1>4
<1>11. Permits(sems[Current]) \in Nat
  BY Facts, FieldsOfSemaphore
<1>. HIDE DEF k
<1>12. Budget' /\ SlotsUsed'
  BY <1>4, <1>5, <1>7, <1>10, <1>11, Facts DEF Budget, SlotsUsed
<1>. QED
  BY <1>8, <1>9, <1>12

\* A task that leaves the block puts one permit into the current semaphore.
LEMMA ExitInv ==
    ASSUME LimiterInv, NEW t \in Tasks, Exit(t)
    PROVE  LimiterInv'
<1> USE DEF LimiterInv
<1>1. /\ IsSemaphore(Release(sems[Current]), Tasks)
      /\ Permits(Release(sems[Current])) = Permits(sems[Current]) + 1
  BY Facts, ReleasePermits
<1>2. Current \in 1..Len(sems) /\ Permits(sems[Current]) \in Nat
  BY Facts DEF Current
<1>3. /\ sems' \in Seq(Semaphores(Tasks)) /\ sems' # <<>>
      /\ Len(sems') = Len(sems) /\ Current' = Current
      /\ sems'[Current] = Release(sems[Current])
  BY <1>1, <1>2, OneSemaphoreChanges DEF Exit, ReleaseCurrent
<1>4. /\ pc[t] = "inside" /\ pc' = [pc EXCEPT ![t] = "idle"]
      /\ waitsOn' = waitsOn /\ waitsOn' = [waitsOn EXCEPT ![t] = waitsOn[t]]
      /\ active' = active - 1
      /\ UNCHANGED <<limit, peak, acquisitions, timeouts, carried, entries>>
  BY DEF Exit, TypeInv, TypeOK
<1>5. OnlyMoves(t) /\ pc'[t] = "idle" /\ waitsOn'[t] = waitsOn[t]
  BY <1>4 DEF OnlyMoves, TypeInv, TypeOK
<1>6. /\ Cardinality(Inside') = Cardinality(Inside) - 1
      /\ Cardinality(OldWaiting') = Cardinality(OldWaiting)
  BY <1>3, <1>4, <1>5, OneTaskMoves
<1>7. Cardinality(Inside) # 0
  <2>1. t \in Inside /\ IsFiniteSet(Inside)
    BY <1>4, Facts DEF Inside
  <2>. QED
    BY <2>1, FS_EmptySet
<1>8. active' \in Nat
  BY <1>4, <1>7, Facts DEF ActiveCountsInside
<1>9. TypeInv'
  BY <1>2, <1>3, <1>4, <1>8 DEF TypeInv, TypeOK, WaitersParked
<1>10. ActiveCountsInside'
  BY <1>4, <1>6, Facts DEF ActiveCountsInside, TypeInv, TypeOK
<1>11. Budget' /\ SlotsUsed'
  BY <1>1, <1>2, <1>3, <1>4, <1>6, Facts DEF Budget, SlotsUsed
<1>. QED
  BY <1>9, <1>10, <1>11

\* A new limit: the tasks inside and the tasks parked are carried over.
LEMMA ResizeInv ==
    ASSUME LimiterInv, NEW n \in Limits, SetMaxConcurrent(n)
    PROVE  LimiterInv'
<1> USE DEF LimiterInv
<1>1. n \in Nat \ {0} /\ n \in Nat
  BY LimiterAssumption DEF LimiterAssumption
<1>2. /\ IsSemaphore(NewSemaphore(n), Tasks)
      /\ Permits(NewSemaphore(n)) = n
  BY <1>1, NewSemaphorePermits
<1>3. /\ sems' \in Seq(Semaphores(Tasks)) /\ sems' # <<>>
      /\ Len(sems') = Len(sems) + 1
      /\ sems'[Len(sems) + 1] = NewSemaphore(n)
  BY <1>2, AppendProperties, LenProperties
  DEF SetMaxConcurrent, TypeInv, TypeOK, IsSemaphore
<1>4. /\ limit' = n
      /\ carried' = Cardinality(Inside) + Cardinality(Waiting)
      /\ UNCHANGED <<active, peak, acquisitions, timeouts, pc, waitsOn,
                     entries>>
  BY DEF SetMaxConcurrent
<1>5. Current' = Current + 1 /\ Current \in Nat
  BY <1>3, Facts DEF Current
<1>6. Inside' = Inside /\ OldWaiting' = Waiting
  BY <1>4, <1>5 DEF Inside, OldWaiting, Waiting, TypeInv, TypeOK, Current
<1>7. carried' \in Nat
  BY <1>4, Facts
<1>8. \A e \in 0..Len(sems) : e \in 0..Len(sems')
  BY <1>3, <1>5 DEF Current
<1>9. TypeInv'
  BY <1>1, <1>3, <1>4, <1>7, <1>8 DEF TypeInv, TypeOK, WaitersParked
<1>10. ActiveCountsInside'
  BY <1>4, <1>6 DEF ActiveCountsInside
<1>11. Permits(sems'[Current']) = n
  BY <1>2, <1>3, <1>5 DEF Current
<1>12. Budget' /\ SlotsUsed'
  BY <1>1, <1>4, <1>6, <1>11, Facts DEF Budget, SlotsUsed
<1>. QED
  BY <1>9, <1>10, <1>12

-----------------------------------------------------------------------------
(* The theorems. *)

\* Every step of the limiter keeps the invariant.
LEMMA StepInv == LimiterInv /\ [Next]_vars => LimiterInv'
<1> SUFFICES ASSUME LimiterInv, [Next]_vars PROVE LimiterInv'
  OBVIOUS
<1>1. ASSUME NEW t \in Tasks, TimeOut(t) PROVE LimiterInv'
  <2>1. timeouts' \in Nat
    BY <1>1 DEF TimeOut, LimiterInv, TypeInv, TypeOK
  <2>. QED
    BY <1>1, <2>1, LeaveQueueInv DEF TimeOut
<1>2. ASSUME NEW t \in Tasks, CancelWait(t) PROVE LimiterInv'
  <2>1. timeouts' \in Nat
    BY <1>2 DEF CancelWait, LimiterInv, TypeInv, TypeOK
  <2>. QED
    BY <1>2, <2>1, LeaveQueueInv DEF CancelWait
<1>3. CASE UNCHANGED vars
  BY <1>3
  DEF vars, LimiterInv, TypeInv, TypeOK, WaitersParked, ActiveCountsInside,
      Budget, SlotsUsed, Inside, OldWaiting, Waiting, Current
<1>. QED
  BY <1>1, <1>2, <1>3, EnterNowInv, EnterAndWaitInv, ResumeWaitInv, ExitInv,
     ResizeInv DEF Next

\* The invariant holds in every state of every run.
LEMMA Invariance == Spec => []LimiterInv
  BY InitInv, StepInv, PTL DEF Spec

\* Every variable of the limiter stays in its range.
THEOREM LimiterTypeCorrect == Spec => []TypeOK
<1>1. LimiterInv => TypeOK
  BY DEF LimiterInv, TypeInv
<1>. QED
  BY <1>1, Invariance, PTL

\* current_active is exactly the number of tasks inside the block, and
\* peak_active has seen every one of them, through resizes, time-outs and
\* cancelled waits.
THEOREM ActiveIsExact == Spec => []ActiveCountsInside
<1>1. LimiterInv => ActiveCountsInside
  BY DEF LimiterInv
<1>. QED
  BY <1>1, Invariance, PTL

\* What the limiter bounds, whatever tasks do: the tasks inside exceed the
\* limit by at most the tasks that were inside or parked at the last resize.
THEOREM ActiveIsBounded == Spec => []ActiveBound
<1>1. LimiterInv => ActiveBound
  <2> SUFFICES ASSUME LimiterInv PROVE ActiveBound
    OBVIOUS
  <2>1. /\ Permits(sems[Current]) \in Nat
        /\ Cardinality(OldWaiting) \in Nat /\ Cardinality(Inside) \in Nat
        /\ limit \in Nat /\ carried \in Nat
    BY Facts, FieldsOfSemaphore DEF LimiterInv
  <2>. QED
    BY <2>1 DEF LimiterInv, Budget, ActiveBound
<1>. QED
  BY <1>1, Invariance, PTL

-----------------------------------------------------------------------------
(* Nobody waits in vain. *)

WaitingOn(k) == {t \in Waiting : waitsOn[t] = k}

\* The queue of each semaphore, replaced or not, is the tasks that wait on it.
Parking ==
    \A k \in 1..Len(sems) :
        WellKept(sems[k]) /\ Members(sems[k].waiters) = WaitingOn(k)

\* A step that changes semaphore k and moves a task into its queue, out of it or
\* neither.
LEMMA ParkingMoves ==
    ASSUME TypeInv, Parking, NEW t \in Tasks, OnlyMoves(t),
           NEW k \in 1..Len(sems), NEW s, IsSemaphore(s, Tasks),
           sems' = [sems EXCEPT ![k] = s], WellKept(s),
           pc[t] = "waiting" => waitsOn[t] = k,
           pc'[t] = "waiting" => waitsOn'[t] = k,
           Members(s.waiters) = (Members(sems[k].waiters) \ {t})
                                \cup (IF pc'[t] = "waiting" THEN {t} ELSE {})
    PROVE  Parking'
<1>1. /\ Len(sems') = Len(sems)
      /\ \A e \in 1..Len(sems) : sems'[e] = IF e = k THEN s ELSE sems[e]
  BY PoolUpdate DEF TypeInv, TypeOK
<1>2. ASSUME NEW e \in 1..Len(sems)
      PROVE  WaitingOn(e)' = (WaitingOn(e) \ {t})
                 \cup (IF e = k /\ pc'[t] = "waiting" THEN {t} ELSE {})
  <2>1. \A u \in Tasks \ {t} : u \in WaitingOn(e)' <=> u \in WaitingOn(e)
    BY DEF WaitingOn, Waiting, OnlyMoves
  <2>2. t \in WaitingOn(e)' <=> e = k /\ pc'[t] = "waiting"
    BY DEF WaitingOn, Waiting
  <2>3. WaitingOn(e) \subseteq Tasks /\ WaitingOn(e)' \subseteq Tasks
    BY DEF WaitingOn, Waiting
  <2>. QED
    BY <2>1, <2>2, <2>3
<1>3. \A e \in 1..Len(sems) : e # k => t \notin WaitingOn(e)
  BY DEF WaitingOn, Waiting
<1>4. ASSUME NEW e \in 1..Len(sems)
      PROVE  WellKept(sems'[e]) /\ Members(sems'[e].waiters) = WaitingOn(e)'
  <2>1. CASE e = k
    <3>1. sems'[e] = s /\ Members(sems[k].waiters) = WaitingOn(k)
      BY <1>1, <2>1 DEF Parking
    <3>. QED
      BY <1>2, <2>1, <3>1
  <2>2. CASE e # k
    <3>1. sems'[e] = sems[e] /\ WellKept(sems[e]) /\ Members(sems[e].waiters) = WaitingOn(e)
      BY <1>1, <2>2 DEF Parking
    <3>2. WaitingOn(e)' = (WaitingOn(e) \ {t}) \cup {}
      BY <1>2, <2>2
    <3>3. t \notin WaitingOn(e)
      BY <1>3, <2>2
    <3>4. WaitingOn(e)' = WaitingOn(e)
      BY <3>2, <3>3
    <3>. QED
      BY <3>1, <3>4, Zenon
  <2>. QED
    BY <2>1, <2>2
<1>5. Parking' <=> \A e \in 1..Len(sems') :
                     WellKept(sems'[e]) /\ Members(sems'[e].waiters) = WaitingOn(e)'
  BY DEF Parking
<1>. QED
  BY <1>1, <1>4, <1>5

\* Entering, with or without waiting, keeps the queues.
LEMMA EnterParks ==
    ASSUME LimiterInv, Parking, NEW t \in Tasks, EnterNow(t) \/ EnterAndWait(t)
    PROVE  Parking'
<1>1. /\ IsSemaphore(sems[Current], Tasks) /\ WellKept(sems[Current])
      /\ Current \in 1..Len(sems)
      /\ Members(sems[Current].waiters) = WaitingOn(Current)
  BY Facts DEF LimiterInv, Current, Parking
<1>2. pc[t] = "idle" /\ t \notin WaitingOn(Current)
  BY DEF EnterNow, EnterAndWait, Begin, WaitingOn, Waiting
<1>3. CASE EnterNow(t)
  <2>1. /\ sems' = [sems EXCEPT ![Current] = TakePermit(sems[Current])]
        /\ CanAcquire(sems[Current])
        /\ OnlyMoves(t) /\ pc'[t] = "inside"
    BY <1>3 DEF EnterNow, Admitted, OnlyMoves, LimiterInv, TypeInv, TypeOK
  <2>2. /\ IsSemaphore(TakePermit(sems[Current]), Tasks)
        /\ WellKept(TakePermit(sems[Current]))
        /\ TakePermit(sems[Current]).waiters = sems[Current].waiters
    BY <1>1, <2>1, TakePermits, AcquireKept
  <2>. QED
    BY <1>1, <1>2, <2>1, <2>2, ParkingMoves DEF LimiterInv
<1>4. CASE EnterAndWait(t)
  <2>1. /\ sems' = [sems EXCEPT ![Current] = Park(sems[Current], t)]
        /\ ~CanAcquire(sems[Current])
        /\ OnlyMoves(t) /\ pc'[t] = "waiting" /\ waitsOn'[t] = Current
    BY <1>4 DEF EnterAndWait, OnlyMoves, LimiterInv, TypeInv, TypeOK
  <2>2. /\ IsSemaphore(Park(sems[Current], t), Tasks)
        /\ WellKept(Park(sems[Current], t))
        /\ Members(Park(sems[Current], t).waiters) = Members(sems[Current].waiters) \cup {t}
    BY <1>1, <1>2, <2>1, ParkPermits, ParkKept
  <2>. QED
    BY <1>1, <1>2, <2>1, <2>2, ParkingMoves DEF LimiterInv
<1>. QED
  BY <1>3, <1>4

\* So does a task that stops waiting, admitted or not.
LEMMA LeavingParks ==
    ASSUME LimiterInv, Parking, NEW t \in Tasks, ResumeWait(t) \/ LeaveQueue(t)
    PROVE  Parking'
<1> DEFINE k == waitsOn[t]
<1>1. k \in 1..Len(sems) /\ pc[t] = "waiting"
  BY Facts DEF ResumeWait, LeaveQueue, LimiterInv, TypeInv, TypeOK, WaitersParked, Current
<1>2. IsSemaphore(sems[k], Tasks) /\ WellKept(sems[k])
  BY <1>1, Facts DEF LimiterInv, Parking
<1>3. OnlyMoves(t) /\ pc'[t] # "waiting"
  BY DEF ResumeWait, Admitted, LeaveQueue, OnlyMoves, LimiterInv, TypeInv, TypeOK
<1>4. PICK s : /\ sems' = [sems EXCEPT ![k] = s]
               /\ IsSemaphore(s, Tasks) /\ WellKept(s)
               /\ Members(s.waiters) = Members(sems[k].waiters) \ {t}
  <2>1. CASE ResumeWait(t)
    <3>1. PICK i \in WokenPlaces(sems[k], t) :
            sems' = [sems EXCEPT ![k] = Resume(sems[k], i)]
      BY <2>1 DEF ResumeWait
    <3>. QED
      BY <1>2, <3>1, ResumePermits, ResumeKept
  <2>2. CASE LeaveQueue(t)
    <3>1. PICK i \in Places(sems[k], t) :
            sems' = [sems EXCEPT ![k] = GiveUp(sems[k], i)]
      BY <2>2 DEF LeaveQueue
    <3>. QED
      BY <1>2, <3>1, GiveUpPermits, GiveUpKept
  <2>. QED
    BY <2>1, <2>2
<1>. HIDE DEF k
<1>5. pc[t] = "waiting" => waitsOn[t] = k
  BY DEF k
<1>. QED
  BY <1>1, <1>3, <1>4, <1>5, ParkingMoves DEF LimiterInv

\* Leaving the block moves nobody in any queue.
LEMMA ExitParks ==
    ASSUME LimiterInv, Parking, NEW t \in Tasks, Exit(t)
    PROVE  Parking'
<1>1. /\ IsSemaphore(sems[Current], Tasks) /\ WellKept(sems[Current])
      /\ Current \in 1..Len(sems)
      /\ Members(sems[Current].waiters) = WaitingOn(Current)
  BY Facts DEF LimiterInv, Current, Parking
<1>2. /\ sems' = [sems EXCEPT ![Current] = Release(sems[Current])]
      /\ OnlyMoves(t) /\ pc[t] = "inside" /\ pc'[t] = "idle"
  BY DEF Exit, ReleaseCurrent, OnlyMoves, LimiterInv, TypeInv, TypeOK
<1>3. t \notin WaitingOn(Current)
  BY <1>2 DEF WaitingOn, Waiting
<1>4. /\ IsSemaphore(Release(sems[Current]), Tasks)
      /\ WellKept(Release(sems[Current]))
      /\ Release(sems[Current]).waiters = sems[Current].waiters
  BY <1>1, ReleasePermits, ReleaseKept
<1>. QED
  BY <1>1, <1>2, <1>3, <1>4, ParkingMoves DEF LimiterInv

\* Nobody waits on a semaphore that has just been made.
LEMMA ResizeParks ==
    ASSUME LimiterInv, Parking, NEW n \in Limits, SetMaxConcurrent(n)
    PROVE  Parking'
<1>1. n \in Nat
  BY LimiterAssumption DEF LimiterAssumption
<1>2. /\ sems' = Append(sems, NewSemaphore(n)) /\ pc' = pc /\ waitsOn' = waitsOn
      /\ sems \in Seq(Semaphores(Tasks)) /\ Len(sems) \in Nat
      /\ NewSemaphore(n) \in Semaphores(Tasks)
  BY <1>1, LenProperties, NewSemaphorePermits
  DEF SetMaxConcurrent, LimiterInv, TypeInv, TypeOK, IsSemaphore
<1>3. /\ Len(sems') = Len(sems) + 1
      /\ \A e \in 1..Len(sems) : sems'[e] = sems[e]
      /\ sems'[Len(sems) + 1] = NewSemaphore(n)
  BY <1>2, AppendProperties
<1>4. \A e : WaitingOn(e)' = WaitingOn(e)
  BY <1>2 DEF WaitingOn, Waiting
<1>5. WaitingOn(Len(sems) + 1) = {}
  <2>1. \A u \in Tasks : waitsOn[u] \in 0..Len(sems)
    BY DEF LimiterInv, TypeInv, TypeOK
  <2>. QED
    BY <1>2, <2>1 DEF WaitingOn, Waiting
<1>6. WellKept(NewSemaphore(n)) /\ Members(NewSemaphore(n).waiters) = {}
  BY <1>1, NewSemaphoreKept
<1>7. \A e \in 1..Len(sems') : e \in 1..Len(sems) \/ e = Len(sems) + 1
  BY <1>2, <1>3
<1>. QED
  BY <1>3, <1>4, <1>5, <1>6, <1>7 DEF Parking

\* The queues are right in every reachable state.
LEMMA ParkingHolds == Spec => []Parking
<1>1. Init => Parking
  <2> SUFFICES ASSUME Init PROVE Parking
    OBVIOUS
  <2>1. Len(sems) = 1 /\ sems[1] = NewSemaphore(MaxConcurrent) /\ MaxConcurrent \in Nat
    BY LimiterAssumption DEF Init, LimiterAssumption
  <2>2. \A e : WaitingOn(e) = {}
    BY DEF Init, WaitingOn, Waiting
  <2>3. \A e \in 1..Len(sems) : e = 1
    BY <2>1
  <2>. QED
    BY <2>1, <2>2, <2>3, NewSemaphoreKept DEF Parking
<1>2. LimiterInv /\ Parking /\ [Next]_vars => Parking'
  <2> SUFFICES ASSUME LimiterInv, Parking, [Next]_vars PROVE Parking'
    OBVIOUS
  <2>1. CASE UNCHANGED vars
    BY <2>1 DEF vars, Parking, WaitingOn, Waiting
  <2>. QED
    BY <2>1, EnterParks, LeavingParks, ExitParks, ResizeParks DEF Next, TimeOut, CancelWait
<1>. QED
  BY <1>1, <1>2, Invariance, PTL DEF Spec

\* If nobody who waits on the current semaphore is woken, all slots have a task.
LEMMA SlotsFull ==
    ASSUME LimiterInv, Parking, NEW t \in WaitingOn(Current),
           \A u \in WaitingOn(Current) : WokenPlaces(sems[Current], u) = {}
    PROVE  limit <= Cardinality(Inside)
<1> DEFINE s == sems[Current]
<1>1. /\ Current \in 1..Len(sems) /\ IsSemaphore(s, Tasks) /\ limit \in Nat
      /\ Cardinality(Inside) \in Nat
  BY Facts DEF LimiterInv, Current
<1>2. WellKept(s) /\ Members(s.waiters) = WaitingOn(Current)
  BY <1>1 DEF Parking
<1>3. limit <= Permits(s) + Cardinality(Inside)
  BY DEF LimiterInv, SlotsUsed
<1>. HIDE DEF s
<1>4. /\ s.value \in Nat /\ s.woken \in Nat /\ Len(s.waiters) \in Nat
      /\ s.woken <= Len(s.waiters) /\ Permits(s) = s.value + s.woken
  BY <1>1, FieldsOfSemaphore
<1>5. PICK i \in 1..Len(s.waiters) : s.waiters[i] = t
  BY <1>2 DEF Members
<1>6. s.waiters # <<>>
  BY <1>5, EmptySeq
<1>7. s.woken = 0
  <2> SUFFICES ASSUME s.woken # 0 PROVE FALSE
    OBVIOUS
  <2>1. 1 \in 1..Len(s.waiters) /\ 1 <= s.woken
    BY <1>4
  <2>2. s.waiters[1] \in WaitingOn(Current)
    BY <1>2, <2>1 DEF Members
  <2>3. 1 \in WokenPlaces(s, s.waiters[1])
    BY <2>1 DEF WokenPlaces, Places
  <2>. QED
    BY <2>2, <2>3 DEF s
<1>8. s.value = 0
  BY <1>2, <1>6, <1>7 DEF WellKept, NoneForgotten
<1>. QED
  BY <1>1, <1>3, <1>4, <1>7, <1>8

\* No wake-up is lost, whoever gives up, is cancelled, comes in between or
\* changes the limit: a task is left waiting for the current semaphore only while
\* the limit is used up, or while a woken task is on its way in.
THEOREM NoWakeUpIsLost == Spec => []NobodyWaitsInVain
<1>1. LimiterInv /\ Parking => NobodyWaitsInVain
  <2> SUFFICES ASSUME LimiterInv, Parking, NEW t \in Waiting, waitsOn[t] = Current
               PROVE  \/ limit <= Cardinality(Inside)
                      \/ \E u \in Waiting : /\ waitsOn[u] = Current
                                           /\ WokenPlaces(sems[Current], u) # {}
    BY DEF NobodyWaitsInVain
  <2>. QED
    BY SlotsFull DEF WaitingOn
<1>. QED
  BY <1>1, Invariance, ParkingHolds, PTL

-----------------------------------------------------------------------------
(* The executor as a user of the limiter. *)

\* The executor never changes the limit.
LimitKept == limit = MaxConcurrent /\ carried = 0

\* What the head of the worker's loop does to the limiter.
LEMMA TakeUrlUsesLimiter ==
    ASSUME NEW w \in Tasks, TakeUrl(w)
    PROVE  EnterNow(w) \/ EnterAndWait(w) \/ UNCHANGED vars
<1>. QED
  BY DEF TakeUrl

\* Every step of the executor leaves the limiter alone or is one of its workers
\* entering, waiting, resuming, giving up or leaving.
LEMMA ExecutorStep ==
    ASSUME [EngineNext]_engineVars
    PROVE  \/ \E w \in Tasks : \/ EnterNow(w) \/ EnterAndWait(w) \/ ResumeWait(w)
                               \/ TimeOut(w) \/ CancelWait(w) \/ Exit(w)
           \/ UNCHANGED vars
<1>1. ASSUME NEW c \in Calls, NEW k \in {"run", "stream"}, StartCall(c, k)
      PROVE  UNCHANGED vars
  BY <1>1 DEF StartCall
<1>2. ASSUME NEW c \in Calls, CallStep(c) \/ Abandon(c) PROVE UNCHANGED vars
  BY <1>2 DEF CallStep, JoinEnds, GatherEnds, Yield, StreamEnds, Abandon
<1>3. ASSUME NEW w \in Tasks, WorkerBegins(w) \/ Deliver(w)
      PROVE  EnterNow(w) \/ EnterAndWait(w) \/ UNCHANGED vars
  BY <1>3, TakeUrlUsesLimiter DEF WorkerBegins, Deliver
<1>4. ASSUME NEW w \in Tasks, LimiterGrants(w) PROVE ResumeWait(w)
  BY <1>4 DEF LimiterGrants
<1>5. ASSUME NEW w \in Tasks, FetchEnds(w) PROVE Exit(w) \/ TimeOut(w)
  BY <1>5 DEF FetchEnds
<1>6. ASSUME NEW w \in Tasks, WorkerDies(w)
      PROVE  CancelWait(w) \/ Exit(w) \/ UNCHANGED vars
  BY <1>6 DEF WorkerDies, HandsBack
<1>7. CloseBegins \/ CloseStep => UNCHANGED vars
  BY DEF CloseBegins, CloseStep, CloseForces, CloseReturns
<1>8. UNCHANGED engineVars => UNCHANGED vars
  BY DEF engineVars
<1>. QED
  BY <1>1, <1>2, <1>3, <1>4, <1>5, <1>6, <1>7, <1>8 DEF EngineNext, WorkerStep

\* The executor, with all its calls, workers, cancellations and its close(),
\* uses the limiter as the limiter's specification says.
THEOREM ExecutorUsesLimiter == EngineSpec => Spec
<1>1. EngineInit => Init
  BY DEF EngineInit, NoCalls
<1>2. [EngineNext]_engineVars => [Next]_vars
  BY ExecutorStep DEF Next
<1>. QED
  BY <1>1, <1>2, PTL DEF EngineSpec, Spec

\* No step of the executor changes the limit.
LEMMA LimitStep == LimitKept /\ [EngineNext]_engineVars => LimitKept'
<1> SUFFICES ASSUME LimitKept, [EngineNext]_engineVars PROVE LimitKept'
  OBVIOUS
<1>1. ASSUME NEW w \in Tasks, \/ EnterNow(w) \/ EnterAndWait(w) \/ ResumeWait(w)
                              \/ TimeOut(w) \/ CancelWait(w) \/ Exit(w)
      PROVE  UNCHANGED <<limit, carried>>
  BY <1>1 DEF EnterNow, EnterAndWait, Begin, ResumeWait, Admitted, TimeOut,
              CancelWait, LeaveQueue, Exit
<1>2. UNCHANGED vars => UNCHANGED <<limit, carried>>
  BY DEF vars
<1>. QED
  BY <1>1, <1>2, ExecutorStep DEF LimitKept

\* However many calls share the executor, and however their workers end, no more
\* than max_concurrent requests are out at a time.
THEOREM RequestsNeverExceed == EngineSpec => []RequestsBounded
<1>1. EngineInit => LimitKept
  BY DEF EngineInit, NoCalls, Init, LimitKept
<1>2. ActiveBound /\ LimitKept => RequestsBounded
  BY LimiterAssumption DEF ActiveBound, LimitKept, RequestsBounded, LimiterAssumption
<1>. QED
  BY <1>1, <1>2, LimitStep, ExecutorUsesLimiter, ActiveIsBounded, PTL DEF EngineSpec

-----------------------------------------------------------------------------
(* The accounting of URLs. *)

Busy(c) == Workers(c) \cap ActiveTasks

Exact == \A c \in Calls : unfinished[c] = Len(todo[c]) + Cardinality(Busy(c))

CallTypes ==
    /\ kind \in [Calls -> {"run", "stream"}]
    /\ place \in [Calls -> {"idle", "joining", "gathering", "yielding", "reaping"}
                           \cup Over]
    /\ todo \in [Calls -> Seq(1..UrlCount)]
    /\ unfinished \in [Calls -> 0..UrlCount]
    /\ results \in [Calls -> Seq(1..UrlCount)]
    /\ pending \in [Calls -> Seq(1..UrlCount)]

WorkerTypes ==
    /\ wpc \in [Tasks -> {"unborn", "new", "fetching", "delivering", "done",
                          "cancelled"}]
    /\ wurl \in [Tasks -> 0..UrlCount]
    /\ doomed \subseteq Tasks /\ waited \subseteq Tasks /\ forced \in BOOLEAN
    /\ closing \in {"idle", "waiting", "reaping", "returned"}

\* A worker's place agrees with its call, the limiter, its URL, and with those
\* who cancel it or wait for it.
WorkersAgree ==
    /\ \A w \in Tasks :
         /\ wpc[w] = "unborn" <=> place[w[1]] = "idle"
         /\ wpc[w] = "fetching" <=> pc[w] # "idle"
         /\ w \in ActiveTasks => wurl[w] \in 1..UrlCount
    /\ \A w \in doomed : wpc[w] = "new" \/ w \in ActiveTasks
    /\ \A w \in waited : w \in ActiveTasks \/ Ended(w)

EngineInv == TypeOK /\ CallTypes /\ WorkerTypes /\ WorkersAgree /\ Exact

\* Each worker belongs to a call, and a call has finitely many.
LEMMA TaskOfCall ==
    /\ \A w \in Tasks : w[1] \in Calls
    /\ \A c \in Calls : IsFiniteSet(Workers(c)) /\ IsFiniteSet(Busy(c))
    /\ UrlCount \in Nat
<1>1. \A c \in Calls : Workers(c) \in SUBSET Tasks /\ Busy(c) \in SUBSET Tasks
  BY DEF Workers, Busy
<1>. QED
  BY <1>1, FS_Subset, LimiterAssumption, EngineAssumption
  DEF LimiterAssumption, EngineAssumption

\* When one worker moves, the busy workers of its call change by that worker.
LEMMA BusyMoves ==
    ASSUME WorkerTypes, NEW w \in Tasks, NEW p, Moves(w, p), NEW c \in Calls
    PROVE  /\ Cardinality(Busy(c)) \in Nat /\ Cardinality(Busy(c)') \in Nat
           /\ Cardinality(Busy(c)') = Cardinality(Busy(c))
                - (IF c = w[1] /\ w \in ActiveTasks THEN 1 ELSE 0)
                + (IF c = w[1] /\ p \in {"fetching", "delivering"} THEN 1 ELSE 0)
           /\ c = w[1] /\ w \in ActiveTasks => Cardinality(Busy(c)) >= 1
<1>1. IsFiniteSet(Busy(c))
  BY TaskOfCall
<1>2. /\ Busy(c)' \ {w} = Busy(c) \ {w}
      /\ w \in Busy(c) <=> c = w[1] /\ w \in ActiveTasks
      /\ w \in Busy(c)' <=> c = w[1] /\ p \in {"fetching", "delivering"}
  BY DEF Busy, Workers, ActiveTasks, Moves, WorkerTypes
<1> DEFINE before == Busy(c)
           after  == Busy(c)'
<1>3. IsFiniteSet(before) /\ after \ {w} = before \ {w}
  BY <1>1, <1>2
<1>4. w \in before => Cardinality(before) # 0
  BY <1>1, FS_EmptySet
<1>. HIDE DEF before, after
<1>5. /\ Cardinality(before) \in Nat /\ Cardinality(after) \in Nat
      /\ Cardinality(after) = Cardinality(before)
            - (IF w \in before THEN 1 ELSE 0) + (IF w \in after THEN 1 ELSE 0)
  BY <1>3, CountMoves
<1>. QED
  BY <1>2, <1>4, <1>5 DEF before, after

\* An engine that has not been called satisfies the invariant.
LEMMA EngineInvInit == EngineInit => EngineInv
<1> SUFFICES ASSUME EngineInit PROVE EngineInv
  OBVIOUS
<1>1. TypeOK
  BY InitInv DEF EngineInit, NoCalls, LimiterInv, TypeInv
<1>2. <<>> \in Seq(1..UrlCount) /\ Len(<<>>) = 0
  BY EmptySeq
<1>3. CallTypes /\ WorkerTypes
  <2>1. 0 \in 0..UrlCount
    BY TaskOfCall
  <2>2. CallTypes
    BY <1>2, <2>1 DEF EngineInit, NoCalls, CallTypes
  <2>. QED
    BY <2>1, <2>2 DEF EngineInit, NoCalls, WorkerTypes
<1>4. WorkersAgree
  BY TaskOfCall DEF EngineInit, NoCalls, Init, WorkersAgree, ActiveTasks
<1>5. \A c \in Calls : Busy(c) = {}
  BY DEF EngineInit, NoCalls, Busy, ActiveTasks
<1>6. Exact
  <2>1. Cardinality({}) = 0
    BY FS_EmptySet
  <2>2. \A c \in Calls : unfinished[c] = 0 /\ Len(todo[c]) = 0
    BY <1>2 DEF EngineInit, NoCalls
  <2>3. \A c \in Calls : Cardinality(Busy(c)) = 0
    BY <1>5, <2>1
  <2>. QED
    BY <2>2, <2>3 DEF Exact
<1>. QED
  BY <1>1, <1>3, <1>4, <1>6 DEF EngineInv

-----------------------------------------------------------------------------
(* One lemma per kind of step. *)

\* The workers stand still: what they and their call agree on is kept.
WorkersStand == UNCHANGED <<pc, wpc, wurl, todo, unfinished>>

\* A step in which no worker moves leaves the accounting right.
LEMMA StandingExact ==
    ASSUME Exact, WorkersStand
    PROVE  Exact'
<1>1. \A c \in Calls : Busy(c)' = Busy(c)
  BY DEF WorkersStand, Busy, Workers, ActiveTasks
<1>. QED
  BY <1>1 DEF Exact, WorkersStand

\* A call begins: its workers are new, its URLs queued.
LEMMA StartCallInv ==
    ASSUME EngineInv, NEW c \in Calls, NEW k \in {"run", "stream"}, StartCall(c, k)
    PROVE  EngineInv'
<1>. USE DEF EngineInv
<1>1. /\ \A w \in Workers(c) : wpc[w] = "unborn"
      /\ wpc' = [w \in Tasks |-> IF w \in Workers(c) THEN "new" ELSE wpc[w]]
      /\ UNCHANGED <<wurl, doomed, waited, forced, closing, pc>>
  BY DEF StartCall, WorkersAgree, Workers, vars, closeVars
<1>2. ActiveTasks' = ActiveTasks /\ \A d \in Calls : Busy(d)' = Busy(d)
  BY <1>1 DEF ActiveTasks, Busy, Workers, WorkerTypes
<1>3. Busy(c) = {}
  BY <1>1 DEF Busy, ActiveTasks
<1>4. TypeOK'
  BY DEF StartCall, vars, TypeOK
<1>5. [i \in 1..UrlCount |-> i] \in Seq(1..UrlCount) /\ Len([i \in 1..UrlCount |-> i]) = UrlCount
  BY TaskOfCall
<1>6. CallTypes'
  BY <1>5, TaskOfCall DEF StartCall, FirstPlace, CallTypes
<1>7. WorkerTypes'
  BY <1>1 DEF WorkerTypes
<1>8. WorkersAgree'
  BY <1>1, <1>2, TaskOfCall DEF StartCall, FirstPlace, WorkersAgree, Workers, Ended, WorkerTypes, CallTypes
<1>9. Exact'
  <2>1. Cardinality({}) = 0 /\ UrlCount \in Nat
    BY FS_EmptySet, TaskOfCall
  <2>2. \A d \in Calls \ {c} : unfinished'[d] = unfinished[d] /\ todo'[d] = todo[d]
    BY DEF StartCall, FirstPlace, CallTypes
  <2>3. unfinished'[c] = UrlCount /\ Len(todo'[c]) = UrlCount
    BY <1>5 DEF StartCall, FirstPlace, CallTypes
  <2>4. Cardinality(Busy(c)') = 0
    BY <1>2, <1>3, <2>1
  <2>. QED
    BY <1>2, <2>1, <2>2, <2>3, <2>4 DEF Exact
<1>. QED
  BY <1>4, <1>6, <1>7, <1>8, <1>9

\* Steps of calls and of close(): no worker moves.
LEMMA CallStepInv ==
    ASSUME EngineInv, NEW c \in Calls, CallStep(c) \/ Abandon(c)
    PROVE  EngineInv'
<1>. USE DEF EngineInv
<1>1. WorkersStand /\ UNCHANGED <<vars, kind, closeVars>>
  BY DEF CallStep, JoinEnds, GatherEnds, Yield, StreamEnds, Abandon, WorkersStand,
         workerVars, vars
<1>2. /\ place[c] # "idle"
      /\ \E to \in {"gathering", "yielding", "reaping"} \cup Over :
           place' = [place EXCEPT ![c] = to]
  BY DEF CallStep, JoinEnds, Joined, GatherEnds, Yield, StreamEnds, Starved, Abandon,
         Over, CallTypes
<1>3. /\ doomed \subseteq doomed'
      /\ doomed' \subseteq doomed \cup {w \in Workers(c) : ~Ended(w)}
  BY DEF CallStep, JoinEnds, GatherEnds, Yield, StreamEnds, Abandon, workerVars
<1>4. results' \in [Calls -> Seq(1..UrlCount)] /\ pending' \in [Calls -> Seq(1..UrlCount)]
  <2>1. CASE Yield(c)
    <3>1. /\ Head(pending[c]) \in 1..UrlCount /\ Tail(pending[c]) \in Seq(1..UrlCount)
      BY <2>1, HeadTailProperties DEF Yield, CallTypes
    <3>2. Append(results[c], Head(pending[c])) \in Seq(1..UrlCount)
      BY <3>1, AppendProperties DEF CallTypes
    <3>. QED
      BY <2>1, <3>1, <3>2 DEF Yield, CallTypes
  <2>2. CASE JoinEnds(c) \/ GatherEnds(c) \/ StreamEnds(c) \/ Abandon(c)
    BY <2>2 DEF JoinEnds, GatherEnds, StreamEnds, Abandon, CallTypes
  <2>. QED
    BY <2>1, <2>2 DEF CallStep
<1>5. TypeOK'
  BY <1>1 DEF vars, TypeOK
<1>6. CallTypes'
  BY <1>1, <1>2, <1>4 DEF CallTypes, WorkersStand, Over
<1>7. WorkerTypes'
  BY <1>1, <1>3 DEF WorkerTypes, WorkersStand, Workers, closeVars
<1>8. WorkersAgree'
  <2>1. \A w \in Tasks : wpc'[w] = "unborn" <=> place'[w[1]] = "idle"
    BY <1>1, <1>2, TaskOfCall DEF WorkersAgree, WorkersStand, CallTypes, Over
  <2>2. \A w \in doomed' : wpc'[w] = "new" \/ w \in ActiveTasks'
    <3>1. \A w \in Workers(c) : ~Ended(w) => wpc[w] = "new" \/ w \in ActiveTasks
      BY <1>2 DEF Workers, Ended, ActiveTasks, WorkerTypes, WorkersAgree
    <3>. QED
      BY <1>1, <1>3, <3>1 DEF WorkersAgree, WorkersStand, ActiveTasks
  <2>. QED
    BY <1>1, <2>1, <2>2 DEF WorkersAgree, WorkersStand, ActiveTasks, Ended, closeVars
<1>9. Exact'
  BY <1>1, StandingExact
<1>. QED
  BY <1>5, <1>6, <1>7, <1>8, <1>9

\* close() marks and waits for workers; it moves none and accounts for none.
LEMMA CloseStepInv ==
    ASSUME EngineInv, CloseBegins \/ CloseStep \/ UNCHANGED engineVars
    PROVE  EngineInv'
<1>. USE DEF EngineInv
<1>1. /\ WorkersStand /\ UNCHANGED <<vars, callVars>>
  BY DEF CloseBegins, CloseStep, CloseForces, CloseReturns, WorkersStand, workerVars,
         callVars, vars, engineVars
<1>2. /\ doomed' \subseteq doomed \cup {w \in waited : ~Ended(w)}
      /\ waited' \subseteq waited \cup ActiveTasks
      /\ forced' \in BOOLEAN /\ closing' \in {"idle", "waiting", "reaping", "returned"}
  BY DEF CloseBegins, CloseStep, CloseForces, CloseReturns, workerVars, closeVars,
         engineVars, WorkerTypes
<1>3. TypeOK' /\ CallTypes'
  BY <1>1 DEF vars, TypeOK, callVars, CallTypes
<1>4. WorkerTypes'
  BY <1>1, <1>2 DEF WorkerTypes, WorkersStand, ActiveTasks
<1>5. WorkersAgree'
  BY <1>1, <1>2 DEF WorkersAgree, WorkersStand, ActiveTasks, Ended, callVars
<1>6. Exact'
  BY <1>1, StandingExact
<1>. QED
  BY <1>3, <1>4, <1>5, <1>6

\* A worker moves: its call counts one URL less (d) just if the worker had a URL
\* and has none now, or took one out of the queue (t) without keeping it.
Counted(w, next, d, t) ==
    /\ d \in {0, 1} /\ t \in {0, 1}
    /\ d = t + (IF w \in ActiveTasks THEN 1 ELSE 0)
             - (IF next \in {"fetching", "delivering"} THEN 1 ELSE 0)
    /\ unfinished' = [unfinished EXCEPT ![w[1]] = @ - d]
    /\ \A c \in Calls :
         Len(todo'[c]) = Len(todo[c]) - (IF c = w[1] THEN t ELSE 0)

\* A worker's move that is counted as above leaves the accounting right.
LEMMA MovingExact ==
    ASSUME CallTypes, WorkerTypes, Exact, NEW w \in Tasks, NEW next, Moves(w, next),
           NEW d, NEW t, Counted(w, next, d, t), todo' \in [Calls -> Seq(1..UrlCount)]
    PROVE  Exact' /\ unfinished' \in [Calls -> 0..UrlCount]
<1> SUFFICES ASSUME NEW c \in Calls
             PROVE  /\ unfinished'[c] = Len(todo'[c]) + Cardinality(Busy(c)')
                    /\ unfinished'[c] \in 0..UrlCount
  BY DEF Exact, Counted, CallTypes
<1> DEFINE b  == Cardinality(Busy(c))
           bb == Cardinality(Busy(c)')
<1>1. /\ b \in Nat /\ bb \in Nat
      /\ bb = b - (IF c = w[1] /\ w \in ActiveTasks THEN 1 ELSE 0)
                + (IF c = w[1] /\ next \in {"fetching", "delivering"} THEN 1 ELSE 0)
  BY BusyMoves
<1>2. unfinished[c] = Len(todo[c]) + b
  BY DEF Exact
<1>3. Len(todo[c]) \in Nat /\ Len(todo'[c]) \in Nat
  BY LenProperties DEF CallTypes
<1>4. unfinished[c] \in 0..UrlCount /\ UrlCount \in Nat
  BY TaskOfCall DEF CallTypes
<1>5. unfinished'[c] = unfinished[c] - (IF c = w[1] THEN d ELSE 0)
  BY <1>4 DEF Counted, CallTypes
<1>. HIDE DEF b, bb
<1>6. /\ Len(todo'[c]) = Len(todo[c]) - (IF c = w[1] THEN t ELSE 0)
      /\ d \in {0, 1} /\ t \in {0, 1}
      /\ c = w[1] => bb = b - d + t
  BY <1>1 DEF Counted
<1>7. unfinished'[c] = Len(todo'[c]) + bb
  <2>1. CASE c = w[1]
    <3>1. /\ unfinished'[c] = unfinished[c] - d /\ Len(todo'[c]) = Len(todo[c]) - t
          /\ bb = b - d + t /\ d \in Int /\ t \in Int
      BY <2>1, <1>5, <1>6
    <3>2. ASSUME NEW l \in Nat, NEW n \in Nat PROVE (l + n) - d = (l - t) + (n - d + t)
      BY <3>1
    <3>3. (Len(todo[c]) + b) - d = (Len(todo[c]) - t) + (b - d + t)
      BY <1>1, <1>3, <3>2
    <3>. QED
      BY <1>2, <3>1, <3>3
  <2>2. CASE c # w[1]
    BY <2>2, <1>1, <1>2, <1>3, <1>4, <1>5, <1>6
  <2>. QED
    BY <2>1, <2>2
<1>8. unfinished'[c] \in 0..UrlCount
  <2>1. unfinished'[c] = unfinished[c] \/ unfinished'[c] = unfinished[c] - 1
    BY <1>4, <1>5, <1>6
  <2>2. unfinished'[c] >= 0
    BY <1>1, <1>3, <1>7
  <2>. QED
    BY <1>4, <2>1, <2>2
<1>. QED
  BY <1>7, <1>8 DEF bb

\* A worker moves on, and what it agrees on with others moves with it.
Advances(w, next) ==
    /\ Moves(w, next) /\ wpc[w] \in {"new", "fetching", "delivering"}
    /\ next \in {"fetching", "delivering", "done", "cancelled"}
    /\ UNCHANGED <<kind, place, closeVars>>
    /\ doomed' \subseteq doomed \ {w}
    /\ wurl' \in [Tasks -> 0..UrlCount]
    /\ next \in {"fetching", "delivering"} => wurl'[w] \in 1..UrlCount
    /\ \A v \in Tasks \ {w} : wurl'[v] = wurl[v] /\ pc'[v] = pc[v]
    /\ next = "fetching" <=> pc'[w] # "idle"
    /\ todo' \in [Calls -> Seq(1..UrlCount)]
    /\ results' \in [Calls -> Seq(1..UrlCount)]
    /\ pending' \in [Calls -> Seq(1..UrlCount)]

\* A worker that moves on and is counted as above keeps the invariant.
LEMMA AdvanceInv ==
    ASSUME EngineInv, TypeOK', NEW w \in Tasks, NEW next, Advances(w, next),
           NEW d, NEW t, Counted(w, next, d, t)
    PROVE  EngineInv'
<1>. USE DEF EngineInv
<1>1. Exact' /\ unfinished' \in [Calls -> 0..UrlCount]
  BY MovingExact DEF Advances
<1>2. CallTypes'
  BY <1>1 DEF Advances, CallTypes
<1>3. wpc' \in [Tasks -> {"unborn", "new", "fetching", "delivering", "done",
                          "cancelled"}]
  BY DEF Advances, Moves, WorkerTypes
<1>4. WorkerTypes'
  BY <1>3 DEF Advances, WorkerTypes, closeVars
<1>5. \A v \in Tasks : wpc'[v] = IF v = w THEN next ELSE wpc[v]
  BY DEF Advances, Moves, WorkerTypes
<1>6. \A v \in Tasks \ {w} : /\ v \in ActiveTasks' <=> v \in ActiveTasks
                             /\ Ended(v)' <=> Ended(v)
  BY <1>5 DEF ActiveTasks, Ended
<1>7. /\ w \in ActiveTasks' <=> next \in {"fetching", "delivering"}
      /\ w \in ActiveTasks' \/ Ended(w)'
  BY <1>5 DEF Advances, ActiveTasks, Ended
<1>8. WorkersAgree'
  <2>1. \A v \in Tasks : wpc'[v] = "unborn" <=> place'[v[1]] = "idle"
    BY <1>5 DEF Advances, WorkersAgree
  <2>2. \A v \in Tasks : wpc'[v] = "fetching" <=> pc'[v] # "idle"
    <3>1. /\ next = "fetching" <=> pc'[w] # "idle"
          /\ \A v \in Tasks \ {w} : pc'[v] = pc[v]
      BY DEF Advances
    <3>. QED
      BY <1>5, <3>1 DEF WorkersAgree
  <2>3. \A v \in Tasks : v \in ActiveTasks' => wurl'[v] \in 1..UrlCount
    BY <1>6, <1>7 DEF Advances, WorkersAgree
  <2>4. \A v \in doomed' : wpc'[v] = "new" \/ v \in ActiveTasks'
    BY <1>5, <1>6 DEF Advances, WorkersAgree, WorkerTypes
  <2>5. \A v \in waited' : v \in ActiveTasks' \/ Ended(v)'
    BY <1>6, <1>7 DEF Advances, WorkersAgree, WorkerTypes, closeVars
  <2>. QED
    BY <2>1, <2>2, <2>3, <2>4, <2>5 DEF WorkersAgree
<1>. QED
  BY <1>1, <1>2, <1>4, <1>8

\* What the limiter does to the place of the worker that uses it.
LEMMA LimiterPlaces ==
    ASSUME TypeOK, NEW w \in Tasks
    PROVE  /\ EnterNow(w) \/ EnterAndWait(w) \/ ResumeWait(w) => pc'[w] # "idle"
           /\ TimeOut(w) \/ CancelWait(w) \/ Exit(w) => pc'[w] = "idle"
           /\ ResumeWait(w) \/ TimeOut(w) \/ CancelWait(w) \/ Exit(w) => pc[w] # "idle"
           /\ (\/ EnterNow(w) \/ EnterAndWait(w) \/ ResumeWait(w)
               \/ TimeOut(w) \/ CancelWait(w) \/ Exit(w))
                => \A v \in Tasks \ {w} : pc'[v] = pc[v]
<1>1. EnterNow(w) => pc' = [pc EXCEPT ![w] = "inside"]
  BY DEF EnterNow, Admitted
<1>2. EnterAndWait(w) => pc' = [pc EXCEPT ![w] = "waiting"]
  BY DEF EnterAndWait
<1>3. ResumeWait(w) => pc[w] = "waiting" /\ pc' = [pc EXCEPT ![w] = "inside"]
  BY DEF ResumeWait, Admitted
<1>4. TimeOut(w) \/ CancelWait(w) => pc[w] = "waiting" /\ pc' = [pc EXCEPT ![w] = "idle"]
  BY DEF TimeOut, CancelWait, LeaveQueue
<1>5. Exit(w) => pc[w] = "inside" /\ pc' = [pc EXCEPT ![w] = "idle"]
  BY DEF Exit
<1>6. pc \in [Tasks -> {"idle", "waiting", "inside"}]
  BY DEF TypeOK
<1>. QED
  BY <1>1, <1>2, <1>3, <1>4, <1>5, <1>6

\* What a worker at the head of its loop comes to: it takes a URL, or it is done.
Takes(w, next, t) ==
    /\ Moves(w, next) /\ next \in {"done", "fetching"}
    /\ t = IF next = "fetching" THEN 1 ELSE 0
    /\ wurl' \in [Tasks -> 0..UrlCount]
    /\ next = "fetching" => wurl'[w] \in 1..UrlCount
    /\ \A v \in Tasks \ {w} : wurl'[v] = wurl[v] /\ pc'[v] = pc[v]
    /\ next = "fetching" <=> pc'[w] # "idle"
    /\ todo' \in [Calls -> Seq(1..UrlCount)]
    /\ \A c \in Calls : Len(todo'[c]) = Len(todo[c]) - (IF c = w[1] THEN t ELSE 0)

\* The head of the loop takes the next URL into the limiter, or ends the worker.
LEMMA TakeUrlTakes ==
    ASSUME EngineInv, NEW w \in Tasks, wpc[w] \in {"new", "delivering"}, TakeUrl(w)
    PROVE  \E next, t : Takes(w, next, t)
<1>. USE DEF EngineInv
<1>1. /\ w[1] \in Calls /\ UrlCount \in Nat /\ 0 \in 0..UrlCount
      /\ \A n \in 1..UrlCount : n \in 0..UrlCount
      /\ \A c \in Calls : Len(todo[c]) \in Nat /\ Len(todo[c]) = Len(todo[c]) - 0
      /\ todo \in [Calls -> Seq(1..UrlCount)] /\ wurl \in [Tasks -> 0..UrlCount]
  BY TaskOfCall, LenProperties DEF CallTypes, WorkerTypes
<1>2. CASE todo[w[1]] = <<>>
  <2>1. /\ Moves(w, "done") /\ wurl' = [wurl EXCEPT ![w] = 0]
        /\ todo' = todo /\ pc' = pc
    BY <1>2 DEF TakeUrl, vars
  <2>2. pc[w] = "idle"
    BY DEF WorkersAgree
  <2>3. Takes(w, "done", 0)
    BY <1>1, <2>1, <2>2 DEF Takes
  <2>. QED
    BY <2>3
<1>3. CASE todo[w[1]] # <<>>
  <2> DEFINE q == todo[w[1]]
  <2>1. Head(q) \in 1..UrlCount /\ Tail(q) \in Seq(1..UrlCount) /\ Len(Tail(q)) = Len(q) - 1
    BY <1>1, <1>3, HeadTailProperties
  <2>2. /\ EnterNow(w) \/ EnterAndWait(w)
        /\ Moves(w, "fetching") /\ wurl' = [wurl EXCEPT ![w] = Head(q)]
        /\ todo' = [todo EXCEPT ![w[1]] = Tail(q)]
    BY <1>3 DEF TakeUrl
  <2>3. pc'[w] # "idle" /\ \A v \in Tasks \ {w} : pc'[v] = pc[v]
    BY <2>2, LimiterPlaces
  <2>4. /\ wurl' \in [Tasks -> 0..UrlCount] /\ wurl'[w] \in 1..UrlCount
        /\ \A v \in Tasks \ {w} : wurl'[v] = wurl[v]
    BY <1>1, <2>1, <2>2
  <2>5. /\ todo' \in [Calls -> Seq(1..UrlCount)]
        /\ \A c \in Calls : Len(todo'[c]) = Len(todo[c]) - (IF c = w[1] THEN 1 ELSE 0)
    BY <1>1, <2>1, <2>2
  <2>6. Takes(w, "fetching", 1)
    BY <2>2, <2>3, <2>4, <2>5 DEF Takes
  <2>. QED
    BY <2>6
<1>. QED
  BY <1>2, <1>3

\* Every step of a worker moves it on, with its URL accounted for.
LEMMA WorkerStepInv ==
    ASSUME EngineInv, TypeOK', NEW w \in Tasks, WorkerStep(w)
    PROVE  EngineInv'
<1>. USE DEF EngineInv
<1>0. /\ w[1] \in Calls
      /\ \A c \in Calls : Len(todo[c]) \in Nat /\ Len(todo[c]) = Len(todo[c]) - 0
      /\ unfinished \in [Calls -> 0..UrlCount]
      /\ \A c \in Calls : unfinished[c] = unfinished[c] - 0
  BY TaskOfCall, LenProperties DEF CallTypes
<1>a. unfinished = [unfinished EXCEPT ![w[1]] = @ - 0]
  BY <1>0
<1>1. CASE WorkerBegins(w)
  <2>1. PICK next, t : Takes(w, next, t)
    BY <1>1, TakeUrlTakes DEF WorkerBegins
  <2>2. Advances(w, next)
    BY <1>1, <2>1 DEF WorkerBegins, Takes, Advances, CallTypes
  <2>3. Counted(w, next, 0, t)
    BY <1>1, <1>a, <2>1 DEF WorkerBegins, Takes, Counted, ActiveTasks
  <2>. QED
    BY <2>2, <2>3, AdvanceInv
<1>2. CASE LimiterGrants(w)
  <2>1. /\ ResumeWait(w) /\ UNCHANGED <<callVars, workerVars, closeVars>>
        /\ pc'[w] # "idle" /\ pc[w] # "idle" /\ \A v \in Tasks \ {w} : pc'[v] = pc[v]
    BY <1>2, LimiterPlaces DEF LimiterGrants
  <2>2. CallTypes' /\ WorkerTypes'
    BY <2>1 DEF callVars, workerVars, closeVars, CallTypes, WorkerTypes
  <2>3. WorkersAgree'
    BY <2>1 DEF callVars, workerVars, closeVars, WorkersAgree, ActiveTasks, Ended
  <2>4. Exact'
    BY <2>1 DEF callVars, workerVars, Exact, Busy, Workers, ActiveTasks
  <2>. QED
    BY <2>2, <2>3, <2>4
<1>3. CASE FetchEnds(w)
  <2>1. /\ Exit(w) \/ TimeOut(w)
        /\ Moves(w, "delivering") /\ w \notin doomed
        /\ UNCHANGED <<callVars, wurl, doomed, closeVars>>
    BY <1>3 DEF FetchEnds
  <2>2. pc'[w] = "idle" /\ pc[w] # "idle" /\ \A v \in Tasks \ {w} : pc'[v] = pc[v]
    BY <2>1, LimiterPlaces
  <2>3. wpc[w] = "fetching" /\ w \in ActiveTasks /\ wurl[w] \in 1..UrlCount
    BY <2>2 DEF WorkersAgree, ActiveTasks
  <2>4. Advances(w, "delivering")
    BY <2>1, <2>2, <2>3 DEF Advances, callVars, closeVars, CallTypes, WorkerTypes
  <2>5. Counted(w, "delivering", 0, 0)
    BY <1>0, <1>a, <2>1, <2>3 DEF Counted, callVars
  <2>. QED
    BY <2>4, <2>5, AdvanceInv
<1>4. CASE Deliver(w)
  <2>1. PICK next, t : Takes(w, next, t)
    BY <1>4, TakeUrlTakes DEF Deliver
  <2>2. w \in ActiveTasks /\ wurl[w] \in 1..UrlCount
    BY <1>4 DEF Deliver, ActiveTasks, WorkersAgree
  <2>3. /\ Reported(w, results[w[1]]) \in Seq(1..UrlCount)
        /\ Reported(w, pending[w[1]]) \in Seq(1..UrlCount)
    BY <1>0, <2>2, AppendProperties DEF Reported, CallTypes
  <2>4. /\ results' \in [Calls -> Seq(1..UrlCount)]
        /\ pending' \in [Calls -> Seq(1..UrlCount)]
    BY <1>4, <2>3 DEF Deliver, CallTypes
  <2>5. Advances(w, next)
    BY <1>4, <2>1, <2>4 DEF Deliver, Takes, Advances
  <2>6. Counted(w, next, 1, t)
    BY <1>4, <2>1, <2>2 DEF Deliver, Takes, Counted, TaskDone
  <2>. QED
    BY <2>5, <2>6, AdvanceInv
<1>5. CASE WorkerDies(w)
  <2>1. wpc[w] = "new" \/ w \in ActiveTasks
    BY <1>5 DEF WorkerDies, WorkersAgree
  <2>2. pc'[w] = "idle" /\ \A v \in Tasks \ {w} : pc'[v] = pc[v]
    BY <1>5, LimiterPlaces DEF WorkerDies, HandsBack, vars
  <2>3. Advances(w, "cancelled")
    <3>1. wurl' \in [Tasks -> 0..UrlCount] /\ \A v \in Tasks \ {w} : wurl'[v] = wurl[v]
      BY <1>5, TaskOfCall DEF WorkerDies, WorkerTypes
    <3>. QED
      BY <1>5, <2>1, <2>2, <3>1 DEF WorkerDies, Advances, CallTypes, ActiveTasks
  <2>4. CASE wpc[w] = "new"
    <3>1. Counted(w, "cancelled", 0, 0)
      BY <1>0, <1>5, <1>a, <2>4 DEF WorkerDies, Accounts, Counted, ActiveTasks
    <3>. QED
      BY <2>3, <3>1, AdvanceInv
  <2>5. CASE w \in ActiveTasks
    <3>1. Counted(w, "cancelled", 1, 0)
      BY <1>0, <1>5, <2>5 DEF WorkerDies, Accounts, TaskDone, Counted, ActiveTasks
    <3>. QED
      BY <2>3, <3>1, AdvanceInv
  <2>. QED
    BY <2>1, <2>4, <2>5
<1>. QED
  BY <1>1, <1>2, <1>3, <1>4, <1>5 DEF WorkerStep

-----------------------------------------------------------------------------
\* No step of the executor breaks the invariant.
LEMMA EngineInvStep == EngineInv /\ TypeOK' /\ [EngineNext]_engineVars => EngineInv'
<1>. QED
  BY StartCallInv, CallStepInv, CloseStepInv, WorkerStepInv DEF EngineNext

\* The invariant holds in every reachable state.
LEMMA EngineInvariance == EngineSpec => []EngineInv
<1>. QED
  BY EngineInvInit, EngineInvStep, ExecutorUsesLimiter, LimiterTypeCorrect, PTL
  DEF EngineSpec

\* Calls, workers, close() and the limiter stay within their types, and a worker
\* is in the limiter exactly while it fetches.
THEOREM EngineTypeCorrect == EngineSpec => []EngineTypeOK
<1>1. EngineInv => EngineTypeOK
  BY DEF EngineInv, CallTypes, WorkerTypes, WorkersAgree, EngineTypeOK
<1>. QED
  BY <1>1, EngineInvariance, PTL

\* The count that join() waits for is exact through every error, time-out and
\* cancellation of any number of workers.
THEOREM JoinCountIsExact == EngineSpec => []UnfinishedIsExact
<1>1. EngineInv => UnfinishedIsExact
  BY DEF EngineInv, Exact, Busy, UnfinishedIsExact
<1>. QED
  BY <1>1, EngineInvariance, PTL

-----------------------------------------------------------------------------
(* Every URL of a call is somewhere. *)

Somewhere(c, url) ==
    \/ url \in Range(todo[c]) \/ url \in Range(pending[c]) \/ url \in Range(results[c])
    \/ \E w \in Workers(c) : w \in ActiveTasks /\ wurl[w] = url

\* What a call of run or stream has done with its URLs: no more results than
\* URLs, and none is lost as long as no worker of the call is cancelled.
UrlsKept(c) ==
    /\ place[c] = "idle" => results[c] = <<>> /\ pending[c] = <<>>
    /\ Len(results[c]) + Len(pending[c]) + unfinished[c] <= UrlCount
    /\ place[c] # "idle" /\ (\A w \in Workers(c) : wpc[w] # "cancelled")
         => \A url \in 1..UrlCount : Somewhere(c, url)
    /\ \A w \in Workers(c) : wpc[w] = "done" => todo[c] = <<>>

\* Who may cancel its workers, and what that leaves of its results.
CallKept(c) ==
    /\ place[c] \in {"joining", "gathering"} => kind[c] = "run"
    /\ place[c] \in {"yielding", "reaping"} => kind[c] = "stream"
    /\ place[c] # "idle" /\ kind[c] = "run" => pending[c] = <<>>
    /\ place[c] = "returned" /\ kind[c] = "run" => \A w \in Workers(c) : wpc[w] = "done"
    /\ place[c] = "yielding" /\ ~forced
         => \A w \in Workers(c) : w \notin doomed /\ wpc[w] # "cancelled"
    /\ place[c] \in {"reaping", "returned"} /\ kind[c] = "stream" /\ ~forced
         => Range(results[c]) = 1..UrlCount

AllKept == \A c \in Calls : UrlsKept(c) /\ CallKept(c)

\* The URLs of a sequence that is taken from or added to.
LEMMA UrlRanges ==
    ASSUME NEW q \in Seq(1..UrlCount), NEW url \in 1..UrlCount
    PROVE  /\ q # <<>> => \A x \in Range(q) : x = Head(q) \/ x \in Range(Tail(q))
           /\ \A x : x \in Range(q) \/ x = url => x \in Range(Append(q, url))
           /\ Range(q) \subseteq 1..UrlCount
<1>1. DOMAIN q = 1..Len(q) /\ Len(q) \in Nat /\ \A i \in 1..Len(q) : q[i] \in 1..UrlCount
  BY LenProperties, ElementOfSeq
<1>2. ASSUME q # <<>>, NEW x \in Range(q) PROVE x = Head(q) \/ x \in Range(Tail(q))
  <2>1. PICK i \in 1..Len(q) : x = q[i]
    BY <1>1 DEF Range
  <2>2. /\ Len(Tail(q)) = Len(q) - 1 /\ \A j \in 1..Len(Tail(q)) : Tail(q)[j] = q[j + 1]
        /\ Tail(q) \in Seq(1..UrlCount)
    BY <1>2, HeadTailProperties
  <2>3. DOMAIN Tail(q) = 1..Len(Tail(q))
    BY <2>2, LenProperties
  <2>4. CASE i = 1
    BY <1>2, <2>1, <2>4
  <2>5. CASE i # 1
    <3>1. i - 1 \in 1..Len(Tail(q)) /\ (i - 1) + 1 = i
      BY <1>1, <2>2, <2>5
    <3>. QED
      BY <2>1, <2>2, <2>3, <3>1 DEF Range
  <2>. QED
    BY <2>4, <2>5
<1>3. ASSUME NEW x, x \in Range(q) \/ x = url PROVE x \in Range(Append(q, url))
  <2> DEFINE longer == Append(q, url)
  <2>1. /\ longer \in Seq(1..UrlCount) /\ Len(longer) = Len(q) + 1
        /\ \A i \in 1..Len(q) : longer[i] = q[i]
        /\ longer[Len(q) + 1] = url
    BY AppendProperties
  <2>2. DOMAIN longer = 1..Len(longer)
    BY <2>1, LenProperties
  <2>. HIDE DEF longer
  <2>3. \A i \in 1..Len(q) : i \in 1..Len(longer)
    BY <1>1, <2>1
  <2>4. Len(q) + 1 \in 1..Len(longer)
    BY <1>1, <2>1
  <2>5. x \in Range(longer)
    BY <1>1, <1>3, <2>1, <2>2, <2>3, <2>4 DEF Range
  <2>. QED
    BY <2>5 DEF longer
<1>4. Range(q) \subseteq 1..UrlCount
  BY <1>1 DEF Range
<1>. QED
  BY <1>2, <1>3, <1>4

\* An empty sequence holds no URL.
LEMMA EmptyRange == Range(<<>>) = {}
<1>. QED
  BY DEF Range

\* What a call does not see does not change what it keeps.
SameCall(c) ==
    /\ kind'[c] = kind[c] /\ place'[c] = place[c] /\ todo'[c] = todo[c]
    /\ unfinished'[c] = unfinished[c] /\ results'[c] = results[c]
    /\ pending'[c] = pending[c]
    /\ \A w \in Workers(c) : wurl'[w] = wurl[w] /\ wpc'[w] = wpc[w]
    /\ forced => forced'
    /\ forced' \/ \A w \in Workers(c) : w \in doomed' => w \in doomed

\* A step that leaves a call alone leaves its URLs where they are.
LEMMA SameCallKept ==
    ASSUME NEW c \in Calls, UrlsKept(c), CallKept(c), SameCall(c)
    PROVE  UrlsKept(c)' /\ CallKept(c)'
<1>1. \A url : Somewhere(c, url) => Somewhere(c, url)'
  BY DEF SameCall, Somewhere, ActiveTasks, Workers
<1>2. UrlsKept(c)'
  BY <1>1 DEF SameCall, UrlsKept, Workers
<1>3. CallKept(c)'
  BY DEF SameCall, CallKept, Workers
<1>. QED
  BY <1>2, <1>3

\* Before anything is called, nothing is anywhere.
LEMMA AllKeptInit == EngineInit => AllKept
<1> SUFFICES ASSUME EngineInit, NEW c \in Calls PROVE UrlsKept(c) /\ CallKept(c)
  BY DEF AllKept
<1>1. /\ place[c] = "idle" /\ kind[c] = "run" /\ results[c] = <<>> /\ pending[c] = <<>>
      /\ unfinished[c] = 0 /\ \A w \in Workers(c) : wpc[w] = "unborn"
  BY DEF EngineInit, NoCalls, Workers
<1>2. Len(<<>>) = 0 /\ UrlCount \in Nat
  BY EmptySeq, TaskOfCall
<1>. QED
  BY <1>1, <1>2 DEF UrlsKept, CallKept

\* A call begins with all its URLs queued.
LEMMA StartKept ==
    ASSUME EngineInv, AllKept, NEW c \in Calls, NEW k \in {"run", "stream"}, StartCall(c, k)
    PROVE  AllKept'
<1>. USE DEF EngineInv
<1>1. ASSUME NEW d \in Calls, d # c PROVE UrlsKept(d)' /\ CallKept(d)'
  <2>1. \A w \in Workers(d) : w \in Tasks /\ w \notin Workers(c)
    BY <1>1 DEF Workers
  <2>2. SameCall(d)
    BY <1>1, <2>1 DEF SameCall, StartCall, CallTypes, closeVars
  <2>. QED
    BY <2>2, SameCallKept DEF AllKept
<1> DEFINE urls == [i \in 1..UrlCount |-> i]
<1>2. /\ place[c] = "idle" /\ place'[c] = FirstPlace(k) /\ kind'[c] = k
      /\ todo'[c] = urls /\ unfinished'[c] = UrlCount
      /\ UNCHANGED <<results, pending, doomed, forced>>
      /\ \A w \in Workers(c) : wpc'[w] = "new"
  BY DEF StartCall, CallTypes, Workers, closeVars
<1>3. results[c] = <<>> /\ pending[c] = <<>>
  BY <1>2 DEF AllKept, UrlsKept
<1>4. Range(urls) = 1..UrlCount
  BY DEF Range
<1>5. Len(<<>>) = 0 /\ UrlCount \in Nat
  BY EmptySeq, TaskOfCall
<1>. HIDE DEF urls
<1>6. UrlsKept(c)'
  BY <1>2, <1>3, <1>4, <1>5 DEF UrlsKept, Somewhere, FirstPlace, Workers
<1>7. \A w \in Workers(c) : w \notin doomed
  BY <1>2 DEF WorkersAgree, Workers, ActiveTasks
<1>8. CallKept(c)'
  BY <1>2, <1>3, <1>7 DEF CallKept, FirstPlace, Workers
<1>. QED
  BY <1>1, <1>6, <1>8 DEF AllKept

\* close() only cancels workers when it forces them.
LEMMA CloseKept ==
    ASSUME EngineInv, AllKept, CloseBegins \/ CloseStep \/ UNCHANGED engineVars
    PROVE  AllKept'
<1> SUFFICES ASSUME NEW c \in Calls PROVE SameCall(c)
  BY SameCallKept DEF AllKept
<1>1. UNCHANGED <<kind, place, todo, unfinished, results, pending, wpc, wurl>>
  BY DEF CloseBegins, CloseStep, CloseForces, CloseReturns, workerVars, callVars, engineVars
<1>2. forced' = TRUE \/ UNCHANGED <<doomed, forced>>
  BY DEF CloseBegins, CloseStep, CloseForces, CloseReturns, workerVars, closeVars, engineVars
<1>. QED
  BY <1>1, <1>2 DEF SameCall

\* Every call has a worker.
LEMMA OneWorkerAtLeast == \A c \in Calls : \E w \in Workers(c) : TRUE
<1>1. 1 \in 1..WorkerCount
  BY LimiterAssumption, EngineAssumption DEF WorkerCount, LimiterAssumption, EngineAssumption
<1>2. \A c \in Calls : <<c, 1>> \in Tasks /\ <<c, 1>>[1] = c
  BY <1>1, EngineAssumption DEF EngineAssumption
<1>. QED
  BY <1>2 DEF Workers

\* A stream that nobody interrupted and that has nothing left to do has yielded
\* a result for every URL.
LEMMA NothingLeft ==
    ASSUME EngineInv, NEW c \in Calls, UrlsKept(c), place[c] # "idle",
           \A w \in Workers(c) : wpc[w] # "cancelled" /\ w \notin ActiveTasks,
           todo[c] = <<>>, pending[c] = <<>>
    PROVE  Range(results[c]) = 1..UrlCount
<1>1. \A url \in 1..UrlCount : Somewhere(c, url)
  BY DEF UrlsKept
<1>2. 1..UrlCount \subseteq Range(results[c])
  BY <1>1, EmptyRange DEF Somewhere
<1>3. results[c] \in Seq(1..UrlCount)
  BY DEF EngineInv, CallTypes
<1>4. Range(results[c]) \subseteq 1..UrlCount
  BY <1>3, RangeOfSeq
<1>. QED
  BY <1>2, <1>4

\* Counting for a yield: one result more, one pending result less.
LEMMA YieldCounts ==
    ASSUME NEW n \in Nat, NEW r \in Nat, NEW p \in Nat, NEW u \in Nat, NEW t \in Nat,
           NEW b \in Nat, r + p + u <= n, u = t + b, p # 0
    PROVE  /\ (r + 1) + (p - 1) + u <= n
           /\ r + 1 >= n => p - 1 = 0 /\ t = 0 /\ b = 0
<1>. QED
  OBVIOUS

\* A yielded result is only moved.
LEMMA YieldKept ==
    ASSUME EngineInv, NEW c \in Calls, UrlsKept(c), CallKept(c), Yield(c)
    PROVE  UrlsKept(c)' /\ CallKept(c)'
<1>. USE DEF EngineInv
<1> DEFINE p == pending[c]
           r == results[c]
           first == Head(p)
<1>1. /\ place[c] = "yielding" /\ kind[c] = "stream" /\ p # <<>>
      /\ results' = [results EXCEPT ![c] = Append(r, first)]
      /\ pending' = [pending EXCEPT ![c] = Tail(p)]
      /\ UNCHANGED <<kind, todo, unfinished, wpc, wurl, forced>>
  BY DEF Yield, CallKept, closeVars
<1>2. /\ p \in Seq(1..UrlCount) /\ r \in Seq(1..UrlCount)
      /\ results'[c] = Append(r, first) /\ pending'[c] = Tail(p)
  BY <1>1 DEF CallTypes
<1>3. first \in 1..UrlCount /\ Tail(p) \in Seq(1..UrlCount) /\ Len(Tail(p)) = Len(p) - 1
  BY <1>1, <1>2, HeadTailProperties
<1>a. Len(Append(r, first)) = Len(r) + 1
  BY <1>2, <1>3, AppendProperties
<1>b. Len(p) \in Nat /\ Len(r) \in Nat /\ Len(Tail(p)) \in Nat /\ Len(p) # 0
  BY <1>1, <1>2, <1>3, LenProperties, EmptySeq
<1>4. /\ \A x \in Range(p) : x = first \/ x \in Range(Tail(p))
      /\ \A x : x \in Range(r) \/ x = first => x \in Range(Append(r, first))
  BY <1>1, <1>2, <1>3, UrlRanges
<1>. HIDE DEF first
<1>5. \A url : Somewhere(c, url) => Somewhere(c, url)'
  BY <1>1, <1>2, <1>4 DEF Somewhere, ActiveTasks, Workers
<1>6. /\ unfinished[c] \in Nat /\ UrlCount \in Nat
      /\ unfinished[c] = Len(todo[c]) + Cardinality(Busy(c))
      /\ Len(todo[c]) \in Nat /\ Cardinality(Busy(c)) \in Nat
  BY TaskOfCall, FS_CardinalityType, LenProperties DEF CallTypes, Exact
<1>7. /\ Len(results'[c]) + Len(pending'[c]) + unfinished'[c] <= UrlCount
      /\ Len(results'[c]) >= UrlCount
           => Len(pending'[c]) = 0 /\ Len(todo[c]) = 0 /\ Cardinality(Busy(c)) = 0
  <2>1. Len(r) + Len(p) + unfinished[c] <= UrlCount
    BY DEF UrlsKept
  <2>. HIDE DEF r, p
  <2> DEFINE lr == Len(r)
             lp == Len(p)
             u == unfinished[c]
             t == Len(todo[c])
             b == Cardinality(Busy(c))
  <2>a. /\ lr \in Nat /\ lp \in Nat /\ u \in Nat /\ t \in Nat /\ b \in Nat
        /\ UrlCount \in Nat /\ lr + lp + u <= UrlCount /\ u = t + b /\ lp # 0
    BY <1>b, <1>6, <2>1
  <2>. HIDE DEF lr, lp, u, t, b
  <2>b. /\ (lr + 1) + (lp - 1) + u <= UrlCount
        /\ lr + 1 >= UrlCount => lp - 1 = 0 /\ t = 0 /\ b = 0
    BY <2>a, YieldCounts
  <2>2. /\ (Len(r) + 1) + (Len(p) - 1) + unfinished[c] <= UrlCount
        /\ Len(r) + 1 >= UrlCount
             => Len(p) - 1 = 0 /\ Len(todo[c]) = 0 /\ Cardinality(Busy(c)) = 0
    BY <2>b DEF lr, lp, u, t, b
  <2>3. /\ Len(results'[c]) = Len(r) + 1 /\ Len(pending'[c]) = Len(p) - 1
        /\ unfinished'[c] = unfinished[c]
    BY <1>1, <1>2, <1>3, <1>a
  <2>. QED
    BY <2>2, <2>3, Zenon
<1>8. /\ place'[c] \in {"yielding", "reaping"}
      /\ place'[c] = "yielding" => UNCHANGED doomed
      /\ place'[c] = "reaping" => Len(results'[c]) >= UrlCount
  BY <1>1 DEF Yield, CallTypes
<1>9. UrlsKept(c)'
  BY <1>1, <1>5, <1>7, <1>8 DEF UrlsKept, Workers
<1>10. ASSUME place'[c] = "reaping", ~forced PROVE Range(results'[c]) = 1..UrlCount
  <2>2. Len(pending'[c]) = 0 /\ Len(todo[c]) = 0 /\ Cardinality(Busy(c)) = 0
    BY <1>7, <1>8, <1>10
  <2>3. todo[c] = <<>> /\ pending'[c] = <<>>
    BY <1>2, <1>3, <2>2, EmptySeq DEF CallTypes
  <2>4. Busy(c) = {}
    BY <2>2, TaskOfCall, FS_EmptySet
  <2>5. \A w \in Workers(c) : wpc[w] # "cancelled" /\ w \notin ActiveTasks
    BY <1>1, <1>10, <2>4 DEF CallKept, Busy
  <2>6. \A url \in 1..UrlCount : Somewhere(c, url)'
    BY <1>1, <1>5, <2>5 DEF UrlsKept
  <2>7. todo'[c] = <<>> /\ \A w \in Workers(c)' : w \notin ActiveTasks'
    BY <1>1, <2>3, <2>5 DEF Workers, ActiveTasks
  <2>8. 1..UrlCount \subseteq Range(results'[c])
    BY <2>3, <2>6, <2>7, EmptyRange DEF Somewhere
  <2>9. Range(results'[c]) \subseteq 1..UrlCount
    <3>1. Append(r, first) \in Seq(1..UrlCount)
      BY <1>2, <1>3, AppendProperties
    <3>. QED
      BY <1>2, <3>1, RangeOfSeq
  <2>. QED
    BY <2>8, <2>9
<1>11. CallKept(c)'
  BY <1>1, <1>8, <1>10 DEF CallKept, Workers
<1>. QED
  BY <1>9, <1>11

\* The call's own steps move no URL but the one that is yielded.
LEMMA CallStepKept ==
    ASSUME EngineInv, AllKept, NEW c \in Calls, CallStep(c) \/ Abandon(c)
    PROVE  AllKept'
<1>. USE DEF EngineInv
<1>1. UrlsKept(c) /\ CallKept(c)
  BY DEF AllKept
<1>2. ASSUME NEW d \in Calls, d # c PROVE UrlsKept(d)' /\ CallKept(d)'
  <2>1. \A w \in Workers(d) : w \notin Workers(c)
    BY <1>2 DEF Workers
  <2>2. /\ \A w \in Workers(d) : w \in doomed' => w \in doomed
        /\ UNCHANGED <<kind, todo, unfinished, wpc, wurl, forced>>
    BY <2>1 DEF CallStep, JoinEnds, GatherEnds, Yield, StreamEnds, Abandon, workerVars, closeVars
  <2>3. place'[d] = place[d] /\ results'[d] = results[d] /\ pending'[d] = pending[d]
    BY <1>2 DEF CallStep, JoinEnds, GatherEnds, Yield, StreamEnds, Abandon, CallTypes
  <2>4. SameCall(d)
    BY <2>2, <2>3 DEF SameCall
  <2>. QED
    BY <2>4, SameCallKept DEF AllKept
<1>3. CASE Yield(c)
  BY <1>1, <1>2, <1>3, YieldKept DEF AllKept
<1>4. CASE JoinEnds(c) \/ GatherEnds(c) \/ StreamEnds(c) \/ Abandon(c)
  <2>1. /\ UNCHANGED <<kind, todo, unfinished, results, pending, wpc, wurl, forced>>
        /\ place[c] # "idle" /\ place'[c] \in {"gathering", "returned", "raised"}
    BY <1>4 DEF JoinEnds, Joined, GatherEnds, StreamEnds, Starved, Abandon, workerVars,
                closeVars, CallTypes, Over
  <2>2. \A url : Somewhere(c, url) => Somewhere(c, url)'
    BY <2>1 DEF Somewhere, ActiveTasks, Workers
  <2>3. UrlsKept(c)'
    BY <1>1, <2>1, <2>2 DEF UrlsKept, Workers
  <2>4. CASE JoinEnds(c) \/ GatherEnds(c)
    <3>1. /\ kind[c] = "run"
          /\ place'[c] = "returned" => \A w \in Workers(c) : wpc[w] = "done"
      BY <1>1, <2>4 DEF JoinEnds, Joined, GatherEnds, CallKept, CallTypes
    <3>. QED
      BY <1>1, <1>2, <2>1, <2>3, <3>1 DEF AllKept, CallKept, Workers
  <2>5. CASE Abandon(c)
    <3>1. place'[c] = "raised"
      BY <2>5 DEF Abandon, CallTypes
    <3>. QED
      BY <1>1, <1>2, <2>1, <2>3, <3>1 DEF AllKept, CallKept, Workers
  <2>6. CASE StreamEnds(c)
    <3>1. place'[c] = "returned" /\ kind[c] = "stream" /\ place[c] \in {"yielding", "reaping"}
      BY <1>1, <2>6 DEF StreamEnds, Starved, CallKept, CallTypes
    <3>2. ASSUME ~forced PROVE Range(results[c]) = 1..UrlCount
      <4>1. CASE place[c] = "reaping"
        BY <1>1, <3>1, <3>2, <4>1 DEF CallKept
      <4>2. CASE place[c] = "yielding"
        <5>1. pending[c] = <<>> /\ \A w \in Workers(c) : Ended(w) /\ wpc[w] # "cancelled"
          BY <1>1, <2>6, <3>2, <4>2 DEF StreamEnds, Starved, AllEnded, CallKept
        <5>2. \A w \in Workers(c) : wpc[w] = "done" /\ w \notin ActiveTasks
          BY <5>1 DEF Ended, ActiveTasks
        <5>3. todo[c] = <<>>
          BY <1>1, <5>2, OneWorkerAtLeast DEF UrlsKept
        <5>. QED
          BY <1>1, <2>1, <5>1, <5>2, <5>3, NothingLeft
      <4>. QED
        BY <3>1, <4>1, <4>2
    <3>. QED
      BY <1>1, <1>2, <2>1, <2>3, <3>1, <3>2 DEF AllKept, CallKept, Workers
  <2>. QED
    BY <1>4, <2>4, <2>5, <2>6
<1>. QED
  BY <1>3, <1>4 DEF CallStep

\* The head of the loop takes a URL from the queue into the worker's hands.
LEMMA TakeKept ==
    ASSUME EngineInv, NEW w \in Tasks, TakeUrl(w)
    PROVE  /\ \A d \in Calls \ {w[1]} : todo'[d] = todo[d]
           /\ \A v \in Tasks \ {w} : wurl'[v] = wurl[v]
           /\ \/ todo[w[1]] = <<>> /\ Moves(w, "done") /\ todo'[w[1]] = <<>>
              \/ /\ todo[w[1]] # <<>> /\ Moves(w, "fetching")
                 /\ \A url \in Range(todo[w[1]]) :
                       url \in Range(todo'[w[1]]) \/ wurl'[w] = url
<1>. USE DEF EngineInv
<1> DEFINE q == todo[w[1]]
<1>1. w[1] \in Calls /\ q \in Seq(1..UrlCount) /\ wurl \in [Tasks -> 0..UrlCount]
      /\ todo \in [Calls -> Seq(1..UrlCount)]
  BY TaskOfCall DEF CallTypes, WorkerTypes
<1>2. CASE q = <<>>
  BY <1>1, <1>2 DEF TakeUrl
<1>3. CASE q # <<>>
  <2>1. /\ Moves(w, "fetching") /\ wurl' = [wurl EXCEPT ![w] = Head(q)]
        /\ todo' = [todo EXCEPT ![w[1]] = Tail(q)]
    BY <1>3 DEF TakeUrl
  <2>2. Head(q) \in 1..UrlCount
    BY <1>1, <1>3, HeadTailProperties
  <2>3. \A x \in Range(q) : x = Head(q) \/ x \in Range(Tail(q))
    BY <1>1, <1>3, <2>2, UrlRanges
  <2>. QED
    BY <1>1, <1>3, <2>1, <2>3
<1>. QED
  BY <1>2, <1>3

\* What no step of a worker changes for anybody else.
OthersStay(w) ==
    /\ kind' = kind /\ place' = place /\ forced' = forced /\ doomed' \subseteq doomed
    /\ \A d \in Calls \ {w[1]} :
         /\ todo'[d] = todo[d] /\ unfinished'[d] = unfinished[d]
         /\ results'[d] = results[d] /\ pending'[d] = pending[d]
    /\ \A v \in Tasks \ {w} : wurl'[v] = wurl[v] /\ wpc'[v] = wpc[v]
    /\ wpc[w] \in {"new", "fetching", "delivering"}

\* A worker's step concerns the worker and its call.
LEMMA WorkerStepLocal ==
    ASSUME EngineInv, NEW w \in Tasks, WorkerStep(w)
    PROVE  OthersStay(w)
<1>. USE DEF EngineInv
<1>1. CASE WorkerBegins(w)
  BY <1>1, TakeKept DEF WorkerBegins, OthersStay, Moves, WorkerTypes, CallTypes, closeVars
<1>2. CASE LimiterGrants(w)
  <2>1. wpc[w] = "fetching"
    BY <1>2, LimiterPlaces DEF LimiterGrants, WorkersAgree
  <2>. QED
    BY <1>2, <2>1 DEF LimiterGrants, OthersStay, callVars, workerVars, closeVars
<1>3. CASE FetchEnds(w)
  <2>1. wpc[w] = "fetching"
    BY <1>3, LimiterPlaces DEF FetchEnds, WorkersAgree
  <2>. QED
    BY <1>3, <2>1 DEF FetchEnds, OthersStay, Moves, WorkerTypes, callVars, closeVars
<1>4. CASE Deliver(w)
  <2>1. /\ \A d \in Calls \ {w[1]} : results'[d] = results[d] /\ pending'[d] = pending[d]
        /\ \A d \in Calls \ {w[1]} : unfinished'[d] = unfinished[d]
    BY <1>4 DEF Deliver, TaskDone, CallTypes
  <2>2. TakeUrl(w) /\ UNCHANGED <<kind, place, doomed, closeVars>> /\ wpc[w] = "delivering"
    BY <1>4 DEF Deliver
  <2>3. \A v \in Tasks \ {w} : wpc'[v] = wpc[v]
    BY <2>2, TakeKept DEF Moves, WorkerTypes
  <2>. QED
    BY <2>1, <2>2, <2>3, TakeKept DEF OthersStay, closeVars
<1>5. CASE WorkerDies(w)
  <2>1. wpc[w] \in {"new", "fetching", "delivering"}
    BY <1>5 DEF WorkerDies, WorkersAgree, ActiveTasks
  <2>2. \A d \in Calls \ {w[1]} : unfinished'[d] = unfinished[d]
    BY <1>5 DEF WorkerDies, Accounts, TaskDone, CallTypes
  <2>3. \A v \in Tasks \ {w} : wurl'[v] = wurl[v] /\ wpc'[v] = wpc[v]
    BY <1>5 DEF WorkerDies, Moves, WorkerTypes
  <2>. QED
    BY <1>5, <2>1, <2>2, <2>3 DEF WorkerDies, OthersStay, closeVars
<1>. QED
  BY <1>1, <1>2, <1>3, <1>4, <1>5 DEF WorkerStep

\* A delivered result is the worker's URL, and the only one.
LEMMA DeliverAppends ==
    ASSUME EngineInv, NEW w \in Tasks, Deliver(w)
    PROVE  LET c == w[1] IN
           /\ w \in ActiveTasks /\ wurl[w] \in 1..UrlCount
           /\ unfinished'[c] = unfinished[c] - 1
           /\ \/ /\ kind[c] = "run" /\ pending'[c] = pending[c]
                 /\ results'[c] = Append(results[c], wurl[w])
              \/ /\ kind[c] = "stream" /\ results'[c] = results[c]
                 /\ pending'[c] = Append(pending[c], wurl[w])
<1>. USE DEF EngineInv
<1>1. w[1] \in Calls /\ w \in ActiveTasks /\ wurl[w] \in 1..UrlCount
  BY TaskOfCall DEF Deliver, WorkersAgree, ActiveTasks
<1>2. unfinished'[w[1]] = unfinished[w[1]] - 1
  BY <1>1 DEF Deliver, TaskDone, CallTypes
<1>3. \/ /\ kind[w[1]] = "run" /\ pending' = pending
         /\ results' = [results EXCEPT ![w[1]] = Append(@, wurl[w])]
      \/ /\ kind[w[1]] = "stream" /\ results' = results
         /\ pending' = [pending EXCEPT ![w[1]] = Append(@, wurl[w])]
  BY DEF Deliver, Reported
<1>. QED
  BY <1>1, <1>2, <1>3 DEF CallTypes

\* A worker's step makes results of URLs that were not done, and no more.
LEMMA WorkerCounts ==
    ASSUME EngineInv, NEW w \in Tasks, WorkerStep(w), UrlsKept(w[1])
    PROVE  LET c == w[1]
           IN  Len(results'[c]) + Len(pending'[c]) + unfinished'[c] <= UrlCount
<1>. USE DEF EngineInv
<1> DEFINE c == w[1]
<1>1. /\ c \in Calls /\ UrlCount \in Nat /\ unfinished[c] \in Nat
      /\ Len(results[c]) \in Nat /\ Len(pending[c]) \in Nat
  BY TaskOfCall, LenProperties DEF CallTypes
<1>2. Len(results[c]) + Len(pending[c]) + unfinished[c] <= UrlCount
  BY DEF UrlsKept
<1>. HIDE DEF c
<1> DEFINE r  == Len(results[c])
           p  == Len(pending[c])
           u  == unfinished[c]
           rr == Len(results'[c])
           pp == Len(pending'[c])
           uu == unfinished'[c]
<1> SUFFICES rr + pp + uu <= UrlCount
  BY DEF c
<1>a. r \in Nat /\ p \in Nat /\ u \in Nat /\ UrlCount \in Nat /\ r + p + u <= UrlCount
  BY <1>1, <1>2
<1>3. CASE Deliver(w)
  <2>1. unfinished'[c] = unfinished[c] - 1
    BY <1>3, DeliverAppends DEF c
  <2>2. \/ Len(results'[c]) = Len(results[c]) + 1 /\ Len(pending'[c]) = Len(pending[c])
        \/ Len(results'[c]) = Len(results[c]) /\ Len(pending'[c]) = Len(pending[c]) + 1
    <3>1. results[c] \in Seq(1..UrlCount) /\ pending[c] \in Seq(1..UrlCount)
      BY <1>1 DEF CallTypes
    <3>2. /\ Len(Append(results[c], wurl[w])) = Len(results[c]) + 1
          /\ Len(Append(pending[c], wurl[w])) = Len(pending[c]) + 1
      BY <1>3, <3>1, DeliverAppends, AppendProperties
    <3>. QED
      BY <1>3, <3>2, DeliverAppends DEF c
  <2>. HIDE DEF r, p, u, rr, pp, uu
  <2>3. uu = u - 1
    BY <2>1, Zenon DEF u, uu
  <2>4. \/ rr = r + 1 /\ pp = p
        \/ rr = r /\ pp = p + 1
    BY <2>2, Zenon DEF r, p, rr, pp
  <2>. QED
    BY <1>a, <2>3, <2>4
<1>4. CASE WorkerDies(w)
  <2>1. UNCHANGED <<results, pending>>
    BY <1>4 DEF WorkerDies
  <2>2. unfinished'[c] = unfinished[c] \/ unfinished'[c] = unfinished[c] - 1
    BY <1>1, <1>4 DEF WorkerDies, Accounts, TaskDone, CallTypes, c
  <2>. HIDE DEF r, p, u, rr, pp, uu
  <2>3. rr = r /\ pp = p /\ (uu = u \/ uu = u - 1)
    BY <2>1, <2>2, Zenon DEF r, p, u, rr, pp, uu
  <2>. QED
    BY <1>a, <2>3
<1>5. CASE WorkerBegins(w) \/ LimiterGrants(w) \/ FetchEnds(w)
  BY <1>2, <1>5 DEF WorkerBegins, LimiterGrants, FetchEnds, callVars
<1>. QED
  BY <1>3, <1>4, <1>5 DEF WorkerStep

\* Unless it dies, a worker hands every URL on: from the queue to itself, and
\* from itself to the results.
LEMMA WorkerHandsOn ==
    ASSUME EngineInv, NEW w \in Tasks, WorkerStep(w), wpc'[w] # "cancelled",
           NEW url \in 1..UrlCount, Somewhere(w[1], url)
    PROVE  Somewhere(w[1], url)'
<1>. USE DEF EngineInv
<1> DEFINE c == w[1]
<1>0. c \in Calls /\ w \in Workers(c) /\ OthersStay(w)
  BY TaskOfCall, WorkerStepLocal DEF Workers
<1>a. \A v \in Workers(c) \ {w} : v \in ActiveTasks => v \in ActiveTasks' /\ wurl'[v] = wurl[v]
  BY <1>0 DEF OthersStay, ActiveTasks, Workers
<1>1. ASSUME TakeUrl(w), url \in Range(todo[c]) PROVE Somewhere(c, url)'
  <2>1. todo[c] # <<>>
    BY <1>1, EmptyRange
  <2>2. Moves(w, "fetching") /\ (url \in Range(todo'[c]) \/ wurl'[w] = url)
    BY <1>1, <2>1, TakeKept
  <2>3. w \in ActiveTasks'
    BY <2>2 DEF Moves, ActiveTasks, WorkerTypes
  <2>. QED
    BY <1>0, <2>2, <2>3 DEF Somewhere, Workers
<1>2. CASE WorkerBegins(w)
  <2>1. TakeUrl(w) /\ UNCHANGED <<results, pending>> /\ w \notin ActiveTasks
    BY <1>2 DEF WorkerBegins, ActiveTasks
  <2>. QED
    BY <1>a, <1>1, <2>1 DEF Somewhere, Workers
<1>3. CASE LimiterGrants(w)
  BY <1>3 DEF LimiterGrants, callVars, workerVars, Somewhere, Workers, ActiveTasks
<1>4. CASE FetchEnds(w)
  <2>1. UNCHANGED <<todo, results, pending, wurl>> /\ Moves(w, "delivering")
    BY <1>4 DEF FetchEnds, callVars
  <2>2. w \in ActiveTasks'
    BY <2>1 DEF Moves, ActiveTasks, WorkerTypes
  <2>. QED
    BY <1>a, <2>1, <2>2 DEF Somewhere, Workers
<1>5. CASE Deliver(w)
  <2>1. TakeUrl(w)
    BY <1>5 DEF Deliver
  <2>2. /\ wurl[w] \in 1..UrlCount
        /\ \/ results'[c] = Append(results[c], wurl[w]) /\ pending'[c] = pending[c]
           \/ pending'[c] = Append(pending[c], wurl[w]) /\ results'[c] = results[c]
    BY <1>5, DeliverAppends
  <2>3. results[c] \in Seq(1..UrlCount) /\ pending[c] \in Seq(1..UrlCount)
    BY <1>0 DEF CallTypes
  <2>4. /\ url \in Range(results[c]) \/ url = wurl[w]
             => url \in Range(Append(results[c], wurl[w]))
        /\ url \in Range(pending[c]) \/ url = wurl[w]
             => url \in Range(Append(pending[c], wurl[w]))
    BY <2>2, <2>3, UrlRanges
  <2>5. ASSUME url \in Range(results[c]) \/ url \in Range(pending[c]) \/ url = wurl[w]
        PROVE  url \in Range(results'[c]) \/ url \in Range(pending'[c])
    BY <2>2, <2>4, <2>5
  <2>. QED
    BY <1>a, <1>1, <2>1, <2>5 DEF Somewhere, Workers
<1>6. CASE WorkerDies(w)
  BY <1>6 DEF WorkerDies, Moves, WorkerTypes
<1>. QED
  BY <1>2, <1>3, <1>4, <1>5, <1>6 DEF WorkerStep

\* A worker's step keeps what its call, and every other call, keeps.
LEMMA WorkerKept ==
    ASSUME EngineInv, AllKept, NEW w \in Tasks, WorkerStep(w)
    PROVE  AllKept'
<1>. USE DEF EngineInv
<1> DEFINE c == w[1]
<1>0. c \in Calls /\ w \in Workers(c) /\ OthersStay(w)
  BY TaskOfCall, WorkerStepLocal DEF Workers
<1>1. ASSUME NEW d \in Calls, d # c PROVE UrlsKept(d)' /\ CallKept(d)'
  <2>1. \A v \in Workers(d) : v \in Tasks \ {w}
    BY <1>1 DEF Workers
  <2>2. SameCall(d)
    BY <1>0, <1>1, <2>1 DEF SameCall, OthersStay
  <2>. QED
    BY <2>2, SameCallKept DEF AllKept
<1>2. UrlsKept(c) /\ CallKept(c)
  BY <1>0 DEF AllKept
<1>3. place[c] # "idle" /\ place'[c] = place[c] /\ kind'[c] = kind[c] /\ forced' = forced
  BY <1>0 DEF OthersStay, WorkersAgree
<1>4. \A v \in Workers(c) \ {w} : wpc'[v] = wpc[v] /\ (v \in doomed' => v \in doomed)
  BY <1>0 DEF OthersStay, Workers
<1>5. Len(results'[c]) + Len(pending'[c]) + unfinished'[c] <= UrlCount
  BY <1>2, WorkerCounts
<1>6. ASSUME \A v \in Workers(c) : wpc'[v] # "cancelled", NEW url \in 1..UrlCount
      PROVE  Somewhere(c, url)'
  <2>1. \A v \in Workers(c) : wpc[v] # "cancelled"
    BY <1>0, <1>4, <1>6 DEF OthersStay
  <2>2. Somewhere(c, url)
    BY <1>2, <1>3, <2>1 DEF UrlsKept
  <2>. QED
    BY <1>0, <1>6, <2>2, WorkerHandsOn
<1>7. /\ todo[c] = <<>> => todo'[c] = <<>>
      /\ wpc'[w] = "done" => todo'[c] = <<>>
  <2>1. CASE TakeUrl(w)
    BY <2>1, TakeKept DEF Moves, WorkerTypes
  <2>2. CASE LimiterGrants(w) \/ FetchEnds(w) \/ WorkerDies(w)
    BY <1>0, <2>2 DEF LimiterGrants, FetchEnds, WorkerDies, callVars, workerVars, Moves,
                      WorkerTypes, OthersStay
  <2>. QED
    BY <2>1, <2>2 DEF WorkerStep, WorkerBegins, Deliver
<1>8. UrlsKept(c)'
  <2>1. \A v \in Workers(c) : wpc'[v] = "done" => todo'[c] = <<>>
    BY <1>2, <1>4, <1>7 DEF UrlsKept
  <2>. QED
    BY <1>3, <1>5, <1>6, <2>1 DEF UrlsKept, Workers
<1>9. /\ kind[c] = "run" => pending'[c] = pending[c]
      /\ kind[c] = "stream" => results'[c] = results[c]
  <2>1. CASE Deliver(w)
    BY <2>1, DeliverAppends
  <2>2. CASE WorkerBegins(w) \/ LimiterGrants(w) \/ FetchEnds(w) \/ WorkerDies(w)
    BY <2>2 DEF WorkerBegins, LimiterGrants, FetchEnds, WorkerDies, callVars
  <2>. QED
    BY <2>1, <2>2 DEF WorkerStep
<1>10. wpc'[w] = "cancelled" \/ w \in doomed' => w \in doomed
  <2>1. wpc'[w] = "cancelled" => WorkerDies(w)
    <3>1. CASE TakeUrl(w)
      BY <3>1, TakeKept DEF Moves, WorkerTypes
    <3>2. CASE LimiterGrants(w) \/ FetchEnds(w)
      BY <1>0, <3>2 DEF LimiterGrants, FetchEnds, workerVars, Moves, WorkerTypes, OthersStay
    <3>. QED
      BY <3>1, <3>2 DEF WorkerStep, WorkerBegins, Deliver
  <2>. QED
    BY <1>0, <2>1 DEF WorkerDies, OthersStay
<1>11. CallKept(c)'
  <2>1. place[c] = "yielding" /\ ~forced
          => \A v \in Workers(c) : v \notin doomed' /\ wpc'[v] # "cancelled"
    BY <1>2, <1>4, <1>10 DEF CallKept
  <2>2. ~(place[c] = "returned" /\ kind[c] = "run")
    BY <1>0, <1>2 DEF CallKept, OthersStay
  <2>. QED
    BY <1>2, <1>3, <1>9, <2>1, <2>2 DEF CallKept, Workers
<1>. QED
  BY <1>1, <1>8, <1>11 DEF AllKept

\* No step of the executor loses a URL of a call that goes on.
LEMMA AllKeptStep == EngineInv /\ AllKept /\ [EngineNext]_engineVars => AllKept'
<1>. QED
  BY StartKept, CallStepKept, WorkerKept, CloseKept DEF EngineNext

\* A part of a sum is within what the sum is within.
LEMMA PartOfSum ==
    ASSUME NEW r \in Nat, NEW p \in Nat, NEW u \in Nat, NEW n \in Nat, r + p + u <= n
    PROVE  r <= n
<1>. QED
  OBVIOUS

\* A call that returns has exactly one result for every URL, whatever was cancelled
\* meanwhile, except for a stream whose workers close() cancelled.
THEOREM ReturnedHasAll == EngineSpec => []ReturnedIsComplete
<1>1. ASSUME EngineInv, AllKept, NEW c \in Calls, place[c] = "returned",
             kind[c] = "stream" => ~forced
      PROVE  Range(results[c]) = 1..UrlCount
  <2>1. UrlsKept(c) /\ CallKept(c) /\ kind[c] \in {"run", "stream"}
    BY <1>1 DEF AllKept, EngineInv, CallTypes
  <2>2. CASE kind[c] = "run"
    <3>1. pending[c] = <<>> /\ \A w \in Workers(c) : wpc[w] = "done"
      BY <1>1, <2>1, <2>2 DEF CallKept
    <3>2. todo[c] = <<>>
      BY <2>1, <3>1, OneWorkerAtLeast DEF UrlsKept
    <3>3. \A w \in Workers(c) : wpc[w] # "cancelled" /\ w \notin ActiveTasks
      BY <3>1 DEF ActiveTasks
    <3>. QED
      BY <1>1, <2>1, <3>1, <3>2, <3>3, NothingLeft
  <2>3. CASE kind[c] = "stream"
    BY <1>1, <2>1, <2>3 DEF CallKept
  <2>. QED
    BY <2>1, <2>2, <2>3
<1>2. ASSUME EngineInv, AllKept, NEW c \in Calls, Range(results[c]) = 1..UrlCount
      PROVE  Len(results[c]) = UrlCount
  <2>1. /\ results[c] \in Seq(1..UrlCount) /\ pending[c] \in Seq(1..UrlCount)
        /\ unfinished[c] \in Nat /\ UrlCount \in Nat
    BY <1>2, EngineAssumption DEF EngineInv, CallTypes, EngineAssumption
  <2>2. /\ Len(results[c]) \in Nat /\ Len(pending[c]) \in Nat
        /\ DOMAIN results[c] = 1..Len(results[c])
    BY <2>1, LenProperties
  <2>3. Len(results[c]) <= UrlCount
    <3>1. Len(results[c]) + Len(pending[c]) + unfinished[c] <= UrlCount
      BY <1>2 DEF AllKept, UrlsKept
    <3>2. /\ Len(results[c]) \in Nat /\ Len(pending[c]) \in Nat
          /\ unfinished[c] \in Nat /\ UrlCount \in Nat
      BY <2>1, <2>2
    <3>. QED
      BY <3>1, <3>2, PartOfSum
  <2>4. Cardinality(Range(results[c])) <= Cardinality(1..Len(results[c]))
    <3>1. results[c] \in Surjection(1..Len(results[c]), Range(results[c]))
      BY <2>1, <2>2 DEF Surjection, Range
    <3>2. IsFiniteSet(1..Len(results[c]))
      BY <2>2, FS_Interval
    <3>. QED
      BY <3>1, <3>2, FS_Surjection
  <2>5. Cardinality(1..UrlCount) = UrlCount
    BY <2>1, FS_Interval
  <2>6. Cardinality(1..Len(results[c])) = Len(results[c])
    BY <2>2, FS_Interval
  <2>. QED
    BY <1>2, <2>1, <2>2, <2>3, <2>4, <2>5, <2>6
<1>3. EngineInv /\ AllKept => ReturnedIsComplete
  BY <1>1, <1>2 DEF ReturnedIsComplete
<1>. QED
  BY <1>3, AllKeptInit, AllKeptStep, EngineInvariance, PTL DEF EngineSpec

-----------------------------------------------------------------------------
(* Nobody waits for each other for ever. *)

\* Who has cancelled workers: nobody those of a run that waits in join(), unless
\* close() has; a stream that is over, all of its own that have not ended.
CancelsKept ==
    \A c \in Calls : \A w \in Workers(c) :
      /\ place[c] = "joining" /\ ~forced => w \notin doomed /\ wpc[w] # "cancelled"
      /\ place[c] = "reaping" => Ended(w) \/ w \in doomed

\* A cancellation is only delivered by the step that ends the worker.
LEMMA WorkerCancels ==
    ASSUME EngineInv, NEW w \in Tasks, WorkerStep(w)
    PROVE  \/ w \notin doomed /\ doomed' = doomed /\ wpc'[w] # "cancelled"
           \/ w \in doomed /\ doomed' = doomed \ {w} /\ wpc'[w] = "cancelled"
<1>. USE DEF EngineInv
<1>1. CASE WorkerBegins(w) \/ Deliver(w)
  <2>1. w \notin doomed /\ doomed' = doomed /\ TakeUrl(w)
    BY <1>1 DEF WorkerBegins, Deliver
  <2>. QED
    BY <2>1, TakeKept DEF Moves, WorkerTypes
<1>2. CASE LimiterGrants(w)
  BY <1>2, WorkerStepLocal DEF WorkerStep, LimiterGrants, workerVars, OthersStay
<1>3. CASE FetchEnds(w)
  BY <1>3 DEF FetchEnds, Moves, WorkerTypes
<1>4. CASE WorkerDies(w)
  BY <1>4 DEF WorkerDies, Moves, WorkerTypes
<1>. QED
  BY <1>1, <1>2, <1>3, <1>4 DEF WorkerStep

\* No step of a call, a worker or close() upsets who has cancelled whom.
LEMMA CancelsKeptStep ==
    EngineInv /\ CancelsKept /\ [EngineNext]_engineVars => CancelsKept'
<1> SUFFICES ASSUME EngineInv, CancelsKept, [EngineNext]_engineVars,
                    NEW c \in Calls, NEW w \in Workers(c)
             PROVE  /\ place'[c] = "joining" /\ ~forced'
                          => w \notin doomed' /\ wpc'[w] # "cancelled"
                    /\ place'[c] = "reaping" => Ended(w)' \/ w \in doomed'
  BY DEF CancelsKept, Workers
<1>. USE DEF EngineInv
<1> DEFINE Kept == /\ place'[c] = "joining" /\ ~forced'
                         => w \notin doomed' /\ wpc'[w] # "cancelled"
                   /\ place'[c] = "reaping" => Ended(w)' \/ w \in doomed'
<1>1. /\ w \in Tasks /\ w[1] = c
      /\ place[c] = "joining" /\ ~forced => w \notin doomed /\ wpc[w] # "cancelled"
      /\ place[c] = "reaping" => Ended(w) \/ w \in doomed
  BY DEF CancelsKept, Workers
<1>2. ASSUME NEW d \in Calls, NEW k \in {"run", "stream"}, StartCall(d, k)
      PROVE  Kept
  <2>1. /\ UNCHANGED <<doomed, forced>>
        /\ wpc'[w] = IF d = c THEN "new" ELSE wpc[w]
        /\ place'[c] = IF d = c THEN FirstPlace(k) ELSE place[c]
        /\ place[d] = "idle"
    BY <1>1, <1>2 DEF StartCall, closeVars, CallTypes, Workers
  <2>2. CASE d = c
    <3>1. wpc[w] = "unborn" /\ w \notin doomed
      BY <1>1, <2>1, <2>2 DEF WorkersAgree, ActiveTasks
    <3>. QED
      BY <2>1, <2>2, <3>1 DEF FirstPlace
  <2>3. CASE d # c
    BY <1>1, <2>1, <2>3 DEF Ended
  <2>. QED
    BY <2>2, <2>3
<1>3. ASSUME NEW d \in Calls, CallStep(d) \/ Abandon(d)
      PROVE  Kept
  <2>1. UNCHANGED <<forced, wpc>>
    BY <1>3 DEF CallStep, JoinEnds, GatherEnds, Yield, StreamEnds, Abandon, workerVars,
                closeVars
  <2>2. CASE d = c
    <3>1. place'[c] # "joining"
      BY <1>3, <2>2 DEF CallStep, JoinEnds, GatherEnds, Yield, StreamEnds, Abandon, CallTypes
    <3>2. place'[c] = "reaping" => Yield(c) /\ doomed' = doomed \cup {v \in Workers(c) : ~Ended(v)}
      BY <1>3, <2>2
      DEF CallStep, JoinEnds, GatherEnds, Yield, StreamEnds, Abandon, CallTypes
    <3>. QED
      BY <2>1, <3>1, <3>2 DEF Ended
  <2>3. CASE d # c
    <3>1. w \notin Workers(d) /\ place'[c] = place[c]
      BY <1>1, <1>3, <2>3
      DEF Workers, CallStep, JoinEnds, GatherEnds, Yield, StreamEnds, Abandon, CallTypes
    <3>2. w \in doomed' <=> w \in doomed
      BY <1>3, <3>1
      DEF CallStep, JoinEnds, GatherEnds, Yield, StreamEnds, Abandon, workerVars
    <3>. QED
      BY <1>1, <2>1, <3>1, <3>2 DEF Ended
  <2>. QED
    BY <2>2, <2>3
<1>4. ASSUME NEW v \in Tasks, WorkerStep(v)
      PROVE  Kept
  <2>1. /\ place' = place /\ forced' = forced /\ \A u \in Tasks \ {v} : wpc'[u] = wpc[u]
        /\ wpc[v] \in {"new", "fetching", "delivering"}
    BY <1>4, WorkerStepLocal DEF OthersStay
  <2>2. \/ v \notin doomed /\ doomed' = doomed /\ wpc'[v] # "cancelled"
        \/ v \in doomed /\ doomed' = doomed \ {v} /\ wpc'[v] = "cancelled"
    BY <1>4, WorkerCancels
  <2>3. CASE v = w
    BY <1>1, <2>1, <2>2, <2>3 DEF Ended
  <2>4. CASE v # w
    BY <1>1, <2>1, <2>2, <2>4 DEF Ended
  <2>. QED
    BY <2>3, <2>4
<1>5. ASSUME CloseBegins \/ CloseStep \/ UNCHANGED engineVars
      PROVE  Kept
  <2>1. UNCHANGED <<place, wpc>> /\ doomed \subseteq doomed'
    BY <1>5 DEF CloseBegins, CloseStep, CloseForces, CloseReturns, callVars, workerVars,
                engineVars
  <2>2. forced' = TRUE \/ UNCHANGED <<doomed, forced>>
    BY <1>5 DEF CloseBegins, CloseStep, CloseForces, CloseReturns, workerVars, closeVars,
                engineVars
  <2>. QED
    BY <1>1, <2>1, <2>2 DEF Ended
<1>. QED
  BY <1>2, <1>3, <1>4, <1>5 DEF EngineNext

\* The executor keeps the limiter's first semaphore.
OneSemaphore == Len(sems) = 1

LEMMA OneSemaphoreStep == TypeInv /\ OneSemaphore /\ [EngineNext]_engineVars => OneSemaphore'
<1> SUFFICES ASSUME TypeInv, OneSemaphore, [EngineNext]_engineVars PROVE Len(sems') = Len(sems)
  BY DEF OneSemaphore
<1>1. ASSUME NEW k, NEW s, sems' = [sems EXCEPT ![k] = s] PROVE Len(sems') = Len(sems)
  BY <1>1, LenProperties DEF TypeInv, TypeOK
<1>2. ASSUME NEW w \in Tasks, \/ EnterNow(w) \/ EnterAndWait(w) \/ ResumeWait(w)
                              \/ TimeOut(w) \/ CancelWait(w) \/ Exit(w)
      PROVE  \E k, s : sems' = [sems EXCEPT ![k] = s]
  BY <1>2 DEF EnterNow, EnterAndWait, ResumeWait, TimeOut, CancelWait, LeaveQueue, Exit,
              ReleaseCurrent
<1>3. UNCHANGED vars => Len(sems') = Len(sems)
  BY DEF vars
<1>. QED
  BY <1>1, <1>2, <1>3, ExecutorStep

\* A worker that waits for a permit waits for one that somebody has who can go on.
LEMMA SomebodyHasPermit ==
    ASSUME EngineInv, LimiterInv, OneSemaphore, NobodyWaitsInVain,
           NEW w \in Tasks, pc[w] = "waiting", ~MayGoOn(w)
    PROVE  \E u \in Tasks : wpc[u] = "fetching" /\ MayGoOn(u)
<1>1. w \in Waiting /\ waitsOn[w] = Current /\ Current = 1
  BY DEF LimiterInv, TypeInv, TypeOK, WaitersParked, OneSemaphore, Waiting, Current
<1>2. CASE limit <= Cardinality(Inside)
  <2>1. limit # 0 /\ limit \in Nat /\ IsFiniteSet(Inside) /\ Cardinality(Inside) \in Nat
    BY Facts DEF LimiterInv, TypeInv, TypeOK
  <2>2. Inside # {}
    BY <1>2, <2>1, FS_EmptySet
  <2>3. PICK u \in Tasks : pc[u] = "inside"
    BY <2>2 DEF Inside
  <2>. QED
    BY <2>3 DEF MayGoOn, EngineInv, WorkersAgree
<1>3. CASE \E u \in Waiting : /\ waitsOn[u] = Current
                             /\ WokenPlaces(sems[Current], u) # {}
  BY <1>3 DEF Waiting, MayGoOn, EngineInv, WorkersAgree
<1>. QED
  BY <1>1, <1>2, <1>3 DEF NobodyWaitsInVain

\* Calls, workers and limiter never all wait for each other, however many calls
\* share the executor: every call that is under way can go on, or one of its workers
\* can, or one waits for a permit of somebody who can; but for a run whose workers
\* close() has cancelled.
THEOREM CallsNeverStuck == EngineSpec => []NoCallIsStuck
<1> DEFINE Stuck(c) ==
             /\ ~CallMayGoOn(c)
             /\ \A w \in Workers(c) :
                  /\ ~MayGoOn(w)
                  /\ pc[w] = "waiting" =>
                       ~ \E u \in Tasks : wpc[u] = "fetching" /\ MayGoOn(u)
<1>1. ASSUME EngineInv, LimiterInv, OneSemaphore, NobodyWaitsInVain, AllKept, CancelsKept,
             NEW c \in Calls, place[c] \notin {"idle"} \cup Over,
             kind[c] = "run" => ~forced, Stuck(c)
      PROVE  FALSE
  <2>. USE <1>1 DEF EngineInv
  <2>1. \A w \in Workers(c) : w \in Tasks /\ w[1] = c
    BY DEF Workers
  <2>2. \A w \in Workers(c) : /\ w \notin doomed
                             /\ wpc[w] \in {"delivering", "done", "cancelled"}
    <3> SUFFICES ASSUME NEW w \in Workers(c)
                 PROVE  w \notin doomed /\ wpc[w] \in {"delivering", "done", "cancelled"}
      OBVIOUS
    <3>1. w \notin doomed /\ wpc[w] # "new"
      BY DEF MayGoOn
    <3>2. wpc[w] # "unborn"
      BY <2>1 DEF WorkersAgree
    <3>3. wpc[w] # "fetching"
      <4> SUFFICES ASSUME wpc[w] = "fetching" PROVE FALSE
        OBVIOUS
      <4>1. pc[w] = "waiting"
        BY DEF MayGoOn
      <4>. QED
        BY <2>1, <4>1, SomebodyHasPermit
    <3>. QED
      BY <2>1, <3>1, <3>2, <3>3 DEF WorkerTypes
  <2>3. UrlsKept(c) /\ CallKept(c)
    BY DEF AllKept
  <2>4. PICK w \in Workers(c) : TRUE
    BY OneWorkerAtLeast
  <2>5. place[c] \in {"joining", "gathering", "yielding", "reaping"}
    BY DEF CallTypes
  <2>6. CASE place[c] \in {"joining", "gathering"}
    <3>1. kind[c] = "run" /\ ~forced
      BY <2>3, <2>6 DEF CallKept
    <3>2. \A v \in Workers(c) : Ended(v)
      BY <2>1, <2>2, <3>1 DEF MayGoOn, Ended
    <3>3. place[c] = "joining" /\ unfinished[c] # 0
      BY <2>6, <3>2 DEF CallMayGoOn, AllEnded, Joined
    <3>4. \A v \in Workers(c) : wpc[v] = "done"
      BY <3>1, <3>2, <3>3 DEF CancelsKept, Ended
    <3>5. todo[c] = <<>>
      BY <2>3, <2>4, <3>4 DEF UrlsKept
    <3>6. Busy(c) = {}
      BY <3>4 DEF Busy, ActiveTasks
    <3>7. Len(todo[c]) = 0 /\ Cardinality(Busy(c)) = 0
      BY <3>5, <3>6, EmptySeq, FS_EmptySet
    <3>. QED
      BY <3>3, <3>7 DEF Exact
  <2>7. CASE place[c] = "yielding"
    <3>1. pending[c] = <<>> /\ Len(pending[c]) = 0
      BY <2>7, EmptySeq DEF CallMayGoOn
    <3>2. 0 < MaxConcurrent
      BY LimiterAssumption DEF LimiterAssumption
    <3>3. \A v \in Workers(c) : Ended(v)
      BY <2>1, <2>2, <3>1, <3>2 DEF MayGoOn, Ended
    <3>. QED
      BY <2>7, <3>3 DEF CallMayGoOn, AllEnded
  <2>8. CASE place[c] = "reaping"
    <3>1. \A v \in Workers(c) : Ended(v)
      BY <2>2, <2>8 DEF CancelsKept
    <3>. QED
      BY <2>8, <3>1 DEF CallMayGoOn, AllEnded
  <2>. QED
    BY <2>5, <2>6, <2>7, <2>8
<1>2. EngineInv /\ LimiterInv /\ OneSemaphore /\ NobodyWaitsInVain /\ AllKept /\ CancelsKept
        => NoCallIsStuck
  BY <1>1 DEF NoCallIsStuck
<1>3. EngineInit => CancelsKept /\ OneSemaphore
  BY DEF EngineInit, NoCalls, Init, CancelsKept, OneSemaphore
<1>4. LimiterInv => TypeInv
  BY DEF LimiterInv
<1>. QED
  BY <1>2, <1>3, <1>4, CancelsKeptStep, OneSemaphoreStep, AllKeptInit, AllKeptStep,
     EngineInvariance, ExecutorUsesLimiter, Invariance, NoWakeUpIsLost, PTL DEF EngineSpec
=============================================================================
