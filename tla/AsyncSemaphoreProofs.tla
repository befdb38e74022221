------------------------ MODULE AsyncSemaphoreProofs ------------------------
(***************************************************************************)
(* What every operation of asyncio.Semaphore does to its permits.  The     *)
(* components that own a semaphore cite these facts and never look inside. *)
(***************************************************************************)
EXTENDS FiniteSets, AsyncSemaphore, TLAPS

LOCAL INSTANCE FiniteSetTheorems

\* Two finite sets that agree on everything but c: how a count of tasks moves
\* when one of them does.
LEMMA CountMoves ==
    ASSUME NEW before, NEW after, IsFiniteSet(before), NEW c,
           after \ {c} = before \ {c}
    PROVE  /\ IsFiniteSet(after)
           /\ Cardinality(before) \in Nat /\ Cardinality(after) \in Nat
           /\ Cardinality(after) = Cardinality(before)
                                   - (IF c \in before THEN 1 ELSE 0)
                                   + (IF c \in after THEN 1 ELSE 0)
<1> DEFINE others == before \ {c}
<1>1. /\ IsFiniteSet(others) /\ c \notin others
      /\ Cardinality(others) = IF c \in before THEN Cardinality(before) - 1
                                               ELSE Cardinality(before)
  BY FS_RemoveElement
<1>2. Cardinality(before) \in Nat /\ Cardinality(others) \in Nat
  BY <1>1, FS_CardinalityType
<1>3. after = IF c \in after THEN others \cup {c} ELSE others
  OBVIOUS
<1>. HIDE DEF others
<1>4. /\ IsFiniteSet(after)
      /\ Cardinality(after) = IF c \in after THEN Cardinality(others) + 1
                                             ELSE Cardinality(others)
  BY <1>1, <1>3, FS_AddElement
<1>. QED
  BY <1>1, <1>2, <1>4

LOCAL INSTANCE SequencesExt
LOCAL INSTANCE SequenceTheorems

\* Taking one place out of a queue closes the gap.
LEMMA RemoveAtQueue ==
    ASSUME NEW T, NEW q \in Seq(T), NEW i \in 1..Len(q)
    PROVE  /\ RemoveAt(q, i) \in Seq(T)
           /\ Len(RemoveAt(q, i)) = Len(q) - 1
           /\ \A j \in 1..(Len(q) - 1) : RemoveAt(q, i)[j] = IF j < i THEN q[j] ELSE q[j + 1]
<1> DEFINE front == SubSeq(q, 1, i - 1)
           back  == SubSeq(q, i + 1, Len(q))
<1>1. Len(q) \in Nat /\ i \in Nat /\ \A j \in 1..Len(q) : q[j] \in T
  BY LenProperties, ElementOfSeq
<1>2. /\ front \in Seq(T) /\ Len(front) = i - 1
      /\ \A j \in 1..(i - 1) : front[j] = q[j]
  BY <1>1, SubSeqProperties
<1>3. /\ back \in Seq(T) /\ Len(back) = Len(q) - i
      /\ \A j \in 1..(Len(q) - i) : back[j] = q[j + i]
  <2>1. \A j \in (i + 1)..Len(q) : q[j] \in T
    BY <1>1
  <2>2. /\ back \in Seq(T)
        /\ Len(back) = IF i + 1 <= Len(q) THEN Len(q) - (i + 1) + 1 ELSE 0
        /\ \A j \in 1..(Len(q) - (i + 1) + 1) : back[j] = q[(i + 1) + j - 1]
    BY <1>1, <2>1, SubSeqProperties
  <2>. HIDE DEF back
  <2>3. \A j \in 1..(Len(q) - i) :
            (i + 1) + j - 1 = j + i /\ j \in 1..(Len(q) - (i + 1) + 1)
    BY <1>1
  <2>. QED
    BY <1>1, <2>2, <2>3
<1>. HIDE DEF front, back
<1>4. /\ front \o back \in Seq(T)
      /\ Len(front \o back) = Len(front) + Len(back)
      /\ \A j \in 1..(Len(front) + Len(back)) :
           (front \o back)[j] = IF j <= Len(front) THEN front[j] ELSE back[j - Len(front)]
  BY <1>2, <1>3, ConcatProperties
<1>5. RemoveAt(q, i) = front \o back
  BY DEF RemoveAt, front, back
<1>6. Len(front) + Len(back) = Len(q) - 1
  BY <1>1, <1>2, <1>3
<1>7. ASSUME NEW j \in 1..(Len(q) - 1)
      PROVE  (front \o back)[j] = IF j < i THEN q[j] ELSE q[j + 1]
  <2>1. CASE j < i
    <3>1. j \in 1..(i - 1) /\ j <= Len(front)
      BY <1>1, <1>2, <2>1
    <3>. QED
      BY <1>2, <1>4, <1>6, <2>1, <3>1
  <2>2. CASE ~(j < i)
    <3>1. /\ ~(j <= Len(front)) /\ j - Len(front) \in 1..(Len(q) - i)
          /\ (j - Len(front)) + i = j + 1
      BY <1>1, <1>2, <2>2
    <3>. QED
      BY <1>3, <1>4, <1>6, <2>2, <3>1
  <2>. QED
    BY <2>1, <2>2
<1>. QED
  BY <1>4, <1>5, <1>6, <1>7

\* A record with the three fields is a semaphore.
LEMMA SemaphoreFields ==
    ASSUME NEW T, NEW v \in Nat, NEW q \in Seq(T), NEW w \in Nat, w <= Len(q),
           NEW s, s = [value |-> v, waiters |-> q, woken |-> w]
    PROVE  /\ IsSemaphore(s, T)
           /\ Permits(s) = v + w
  BY DEF IsSemaphore, Semaphores, Permits

\* The fields of a semaphore.
LEMMA FieldsOfSemaphore ==
    ASSUME NEW T, NEW s, IsSemaphore(s, T)
    PROVE  /\ s.value \in Nat /\ s.waiters \in Seq(T) /\ s.woken \in Nat
           /\ Len(s.waiters) \in Nat
           /\ s.woken <= Len(s.waiters)
           /\ Permits(s) = s.value + s.woken
  BY LenProperties DEF IsSemaphore, Semaphores, Permits

\* A task that leaves the queue passes wake-ups on; no permit is gained or lost.
LEMMA WakeNextKeepsPermits ==
    ASSUME NEW T, NEW s, IsSemaphore(s, T)
    PROVE  /\ IsSemaphore(WakeNext(s), T)
           /\ Permits(WakeNext(s)) = Permits(s)
<1> DEFINE asleep == Len(s.waiters) - s.woken
           k      == IF s.value < asleep THEN s.value ELSE asleep
<1>1. k \in Nat /\ k <= s.value /\ s.woken + k <= Len(s.waiters)
  BY FieldsOfSemaphore
<1>2. WakeNext(s) = [value   |-> s.value - k, waiters |-> s.waiters,
                     woken   |-> s.woken + k]
  BY DEF WakeNext
<1>. HIDE DEF k
<1>3. s.value - k \in Nat /\ s.woken + k \in Nat
  BY <1>1, FieldsOfSemaphore
<1>4. /\ IsSemaphore(WakeNext(s), T)
      /\ Permits(WakeNext(s)) = (s.value - k) + (s.woken + k)
  BY <1>1, <1>2, <1>3, FieldsOfSemaphore, SemaphoreFields
<1>. QED
  BY <1>1, <1>4, FieldsOfSemaphore

\* A new semaphore holds the permits it was made with.
LEMMA NewSemaphorePermits ==
    ASSUME NEW T, NEW n \in Nat
    PROVE  /\ IsSemaphore(NewSemaphore(n), T)
           /\ Permits(NewSemaphore(n)) = n
  BY EmptySeq DEF IsSemaphore, Semaphores, NewSemaphore, Permits

\* acquire() without waiting takes one permit out.
LEMMA TakePermits ==
    ASSUME NEW T, NEW s, IsSemaphore(s, T), CanAcquire(s)
    PROVE  /\ IsSemaphore(TakePermit(s), T)
           /\ Permits(TakePermit(s)) = Permits(s) - 1
  BY DEF IsSemaphore, Semaphores, TakePermit, CanAcquire, Permits

\* A task that parks changes no permit.
LEMMA ParkPermits ==
    ASSUME NEW T, NEW s, IsSemaphore(s, T), NEW t \in T
    PROVE  /\ IsSemaphore(Park(s, t), T)
           /\ Permits(Park(s, t)) = Permits(s)
<1>1. /\ Append(s.waiters, t) \in Seq(T)
      /\ Len(Append(s.waiters, t)) = Len(s.waiters) + 1
  BY AppendProperties DEF IsSemaphore, Semaphores
<1>. QED
  BY <1>1, LenProperties DEF IsSemaphore, Semaphores, Park, Permits

\* release() puts one permit in: free, or in the hands of a woken task.
LEMMA ReleasePermits ==
    ASSUME NEW T, NEW s, IsSemaphore(s, T)
    PROVE  /\ IsSemaphore(Release(s), T)
           /\ Permits(Release(s)) = Permits(s) + 1
  BY LenProperties DEF IsSemaphore, Semaphores, Release, Permits

\* Leaving the queue takes a woken task's permit out of it.
LEMMA WithoutPermits ==
    ASSUME NEW T, NEW s, IsSemaphore(s, T), NEW i \in 1..Len(s.waiters)
    PROVE  /\ IsSemaphore(Without(s, i), T)
           /\ Without(s, i).value = s.value
           /\ Permits(Without(s, i)) =
                 IF i <= s.woken THEN Permits(s) - 1 ELSE Permits(s)
<1> DEFINE q == RemoveAt(s.waiters, i)
           w == IF i <= s.woken THEN s.woken - 1 ELSE s.woken
<1>1. q \in Seq(T) /\ Len(q) = Len(s.waiters) - 1
  BY FieldsOfSemaphore, RemoveAtQueue
<1>2. Without(s, i) = [value |-> s.value, waiters |-> q, woken |-> w]
  BY DEF Without
<1>. HIDE DEF q
<1>3. w \in Nat /\ w <= Len(q)
  BY <1>1, FieldsOfSemaphore
<1>4. s.value + w = IF i <= s.woken THEN Permits(s) - 1 ELSE Permits(s)
  BY FieldsOfSemaphore
<1>. HIDE DEF w
<1>. QED
  BY <1>1, <1>2, <1>3, <1>4, FieldsOfSemaphore, SemaphoreFields

\* A woken task that runs again takes its permit out.
LEMMA ResumePermits ==
    ASSUME NEW T, NEW s, IsSemaphore(s, T), NEW t, NEW i \in WokenPlaces(s, t)
    PROVE  /\ IsSemaphore(Resume(s, i), T)
           /\ Permits(Resume(s, i)) = Permits(s) - 1
<1>1. i \in 1..Len(s.waiters) /\ i <= s.woken
  BY DEF WokenPlaces, Places
<1>2. IsSemaphore(Without(s, i), T) /\ Permits(Without(s, i)) = Permits(s) - 1
  BY <1>1, WithoutPermits
<1>. QED
  BY <1>2, WakeNextKeepsPermits DEF Resume

\* A task that gives up waiting loses no permit, woken or not.
LEMMA GiveUpPermits ==
    ASSUME NEW T, NEW s, IsSemaphore(s, T), NEW t, NEW i \in Places(s, t)
    PROVE  /\ IsSemaphore(GiveUp(s, i), T)
           /\ Permits(GiveUp(s, i)) = Permits(s)
<1>1. i \in 1..Len(s.waiters)
  BY DEF Places
<1> DEFINE r == Without(s, i)
<1>2. /\ IsSemaphore(r, T)
      /\ Permits(r) = IF i <= s.woken THEN Permits(s) - 1 ELSE Permits(s)
  BY <1>1, WithoutPermits
<1>. HIDE DEF r
<1>3. CASE i > s.woken
  <2>1. GiveUp(s, i) = WakeNext(r)
    BY <1>1, <1>3, FieldsOfSemaphore DEF GiveUp, r
  <2>. QED
    BY <1>1, <1>2, <1>3, <2>1, FieldsOfSemaphore, WakeNextKeepsPermits
<1>4. CASE i <= s.woken
  <2> DEFINE g == [r EXCEPT !.value = @ + 1]
  <2>1. GiveUp(s, i) = WakeNext(g)
    BY <1>4 DEF GiveUp, r
  <2>2. g = [value |-> r.value + 1, waiters |-> r.waiters, woken |-> r.woken]
    BY <1>2 DEF IsSemaphore, Semaphores
  <2>. HIDE DEF g
  <2>3. /\ r.value \in Nat /\ r.waiters \in Seq(T) /\ r.woken \in Nat
        /\ r.woken <= Len(r.waiters)
        /\ Permits(r) = r.value + r.woken
    BY <1>2, FieldsOfSemaphore
  <2>4. IsSemaphore(g, T) /\ Permits(g) = (r.value + 1) + r.woken
    <3> DEFINE v == r.value + 1
    <3>1. v \in Nat
      BY <2>3
    <3>2. g = [value |-> v, waiters |-> r.waiters, woken |-> r.woken]
      BY <2>2
    <3>. HIDE DEF v
    <3>3. IsSemaphore(g, T) /\ Permits(g) = v + r.woken
      BY <2>3, <3>1, <3>2, SemaphoreFields
    <3>. QED
      BY <3>3 DEF v
  <2>5. Permits(s) \in Nat
    BY FieldsOfSemaphore
  <2>6. Permits(g) = Permits(s)
    BY <1>2, <1>4, <2>3, <2>4, <2>5
  <2>. QED
    BY <2>1, <2>4, <2>6, WakeNextKeepsPermits
<1>. QED
  BY <1>1, <1>3, <1>4, FieldsOfSemaphore

\* A pool of semaphores with one of them replaced.
LEMMA PoolUpdate ==
    ASSUME NEW T, NEW pool \in Seq(Semaphores(T)), NEW k \in 1..Len(pool),
           NEW s, IsSemaphore(s, T)
    PROVE  /\ [pool EXCEPT ![k] = s] \in Seq(Semaphores(T))
           /\ Len([pool EXCEPT ![k] = s]) = Len(pool)
           /\ \A e \in 1..Len(pool) :
                 [pool EXCEPT ![k] = s][e] = IF e = k THEN s ELSE pool[e]
  BY ExceptSeq DEF IsSemaphore

-----------------------------------------------------------------------------
(* Who is parked, and that nobody is forgotten. *)

\* Nobody is in the queue twice.
Apart(q) == \A i, j \in 1..Len(q) : q[i] = q[j] => i = j

Members(q) == {q[i] : i \in 1..Len(q)}

\* While tasks are parked and none of them is woken, no permit is free.  (A permit
\* may be free beside a woken task: a task that comes then has to queue, and the
\* woken one passes the permit on.)
NoneForgotten(s) == s.waiters # <<>> /\ s.woken = 0 => s.value = 0

WellKept(s) == Apart(s.waiters) /\ NoneForgotten(s)

\* A queue whose members differ loses exactly the one that is taken out.
LEMMA QueueWithout ==
    ASSUME NEW T, NEW q \in Seq(T), NEW i \in 1..Len(q), Apart(q)
    PROVE  /\ Apart(RemoveAt(q, i))
           /\ Members(RemoveAt(q, i)) = Members(q) \ {q[i]}
<1> DEFINE left == RemoveAt(q, i)
           from(j) == IF j < i THEN j ELSE j + 1
<1>1. /\ Len(left) = Len(q) - 1
      /\ \A j \in 1..(Len(q) - 1) : left[j] = IF j < i THEN q[j] ELSE q[j + 1]
  BY RemoveAtQueue
<1>2. Len(q) \in Nat /\ i \in Nat
  BY LenProperties
<1>. HIDE DEF left
<1>3. ASSUME NEW j \in 1..Len(left)
      PROVE  from(j) \in 1..Len(q) /\ from(j) # i /\ left[j] = q[from(j)]
  BY <1>1, <1>2
<1>4. ASSUME NEW m \in 1..Len(left), NEW n \in 1..Len(left), left[m] = left[n]
      PROVE  m = n
  <2>1. from(m) = from(n)
    <3>1. q[from(m)] = q[from(n)]
      BY <1>3, <1>4
    <3>2. from(m) \in 1..Len(q) /\ from(n) \in 1..Len(q)
      BY <1>3
    <3>. HIDE DEF from
    <3>. QED
      BY <3>1, <3>2 DEF Apart
  <2>. QED
    BY <1>2, <2>1
<1>5. ASSUME NEW k \in 1..Len(q), k # i PROVE \E j \in 1..Len(left) : left[j] = q[k]
  <2> DEFINE j == IF k < i THEN k ELSE k - 1
  <2>1. j \in 1..Len(left) /\ from(j) = k
    BY <1>1, <1>2, <1>5
  <2>. QED
    BY <1>3, <2>1
<1>6. ASSUME NEW x \in Members(left) PROVE x \in Members(q) /\ x # q[i]
  <2>1. PICK j \in 1..Len(left) : x = left[j]
    BY DEF Members
  <2>2. from(j) \in 1..Len(q) /\ from(j) # i /\ x = q[from(j)]
    BY <1>3, <2>1
  <2>. HIDE DEF from
  <2>. QED
    BY <2>2 DEF Members, Apart
<1>7. ASSUME NEW x \in Members(q), x # q[i] PROVE x \in Members(left)
  <2>1. PICK k \in 1..Len(q) : x = q[k]
    BY DEF Members
  <2>2. PICK j \in 1..Len(left) : left[j] = q[k]
    BY <1>5, <1>7, <2>1
  <2>. QED
    BY <2>1, <2>2 DEF Members
<1>8. Members(left) = Members(q) \ {q[i]}
  BY <1>6, <1>7
<1>9. Apart(left)
  BY <1>4 DEF Apart
<1>. QED
  BY <1>8, <1>9 DEF left

\* Nobody is parked on a new semaphore.
LEMMA NewSemaphoreKept ==
    ASSUME NEW n \in Nat
    PROVE  /\ Members(NewSemaphore(n).waiters) = {}
           /\ WellKept(NewSemaphore(n))
<1>1. Len(<<>>) = 0
  BY EmptySeq
<1>2. NewSemaphore(n).waiters = <<>>
  BY DEF NewSemaphore
<1>. QED
  BY <1>1, <1>2 DEF Members, WellKept, Apart, NoneForgotten

\* A permit is taken without waiting only if nobody waits.
LEMMA AcquireKept ==
    ASSUME NEW T, NEW s, IsSemaphore(s, T), CanAcquire(s), WellKept(s)
    PROVE  /\ TakePermit(s).waiters = s.waiters
           /\ WellKept(TakePermit(s))
  BY DEF IsSemaphore, Semaphores, TakePermit, CanAcquire, WellKept, NoneForgotten

\* A task that has to park adds itself, and finds no free permit unless a woken
\* task is there.
LEMMA ParkKept ==
    ASSUME NEW T, NEW s, IsSemaphore(s, T), NEW t \in T, ~CanAcquire(s), WellKept(s),
           t \notin Members(s.waiters)
    PROVE  /\ Members(Park(s, t).waiters) = Members(s.waiters) \cup {t}
           /\ WellKept(Park(s, t))
<1> DEFINE q == s.waiters
           longer == Append(q, t)
<1>1. q \in Seq(T) /\ Len(q) \in Nat /\ s.value \in Nat
  BY FieldsOfSemaphore
<1>2. /\ longer \in Seq(T) /\ Len(longer) = Len(q) + 1
      /\ \A i \in 1..Len(q) : longer[i] = q[i]
      /\ longer[Len(q) + 1] = t
  BY <1>1, AppendProperties
<1>3. Park(s, t).waiters = longer /\ Park(s, t).woken = s.woken /\ Park(s, t).value = s.value
  BY DEF Park, IsSemaphore, Semaphores
<1>4. \A i \in 1..Len(q) : q[i] # t
  BY DEF Members
<1>5. Apart(q) /\ NoneForgotten(s)
  BY DEF WellKept
<1>. HIDE DEF longer
<1>6. Apart(longer)
  <2> SUFFICES ASSUME NEW i \in 1..Len(longer), NEW j \in 1..Len(longer),
                      longer[i] = longer[j]
               PROVE  i = j
    BY DEF Apart
  <2>1. CASE i \in 1..Len(q) /\ j \in 1..Len(q)
    BY <1>2, <1>5, <2>1 DEF Apart
  <2>2. CASE i \notin 1..Len(q) \/ j \notin 1..Len(q)
    <3>1. (i \in 1..Len(q) \/ i = Len(q) + 1) /\ (j \in 1..Len(q) \/ j = Len(q) + 1)
      BY <1>1, <1>2
    <3>. QED
      BY <1>2, <1>4, <2>2, <3>1
  <2>. QED
    BY <2>1, <2>2
<1>7. Members(longer) = Members(q) \cup {t}
  <2>1. \A i : i \in 1..Len(longer) <=> i \in 1..Len(q) \/ i = Len(q) + 1
    BY <1>1, <1>2
  <2>. QED
    BY <1>2, <2>1 DEF Members
<1>8. NoneForgotten(Park(s, t))
  BY <1>1, <1>3, <1>5 DEF NoneForgotten, CanAcquire
<1>. QED
  BY <1>3, <1>6, <1>7, <1>8 DEF WellKept

\* A released permit goes to a parked task before it becomes free.
LEMMA ReleaseKept ==
    ASSUME NEW T, NEW s, IsSemaphore(s, T), WellKept(s)
    PROVE  /\ Release(s).waiters = s.waiters
           /\ WellKept(Release(s))
<1>1. /\ s.value \in Nat /\ s.woken \in Nat /\ Len(s.waiters) \in Nat
      /\ s.woken <= Len(s.waiters) /\ s.waiters \in Seq(T)
  BY FieldsOfSemaphore
<1>2. s.waiters # <<>> => Len(s.waiters) # 0
  BY <1>1, EmptySeq
<1>3. CASE s.woken < Len(s.waiters)
  <2>1. /\ Release(s).waiters = s.waiters /\ Release(s).woken = s.woken + 1
    BY <1>3 DEF Release, IsSemaphore, Semaphores
  <2>. QED
    BY <1>1, <2>1 DEF WellKept, NoneForgotten
<1>4. CASE ~(s.woken < Len(s.waiters))
  <2>1. /\ Release(s).waiters = s.waiters /\ Release(s).woken = s.woken
    BY <1>4 DEF Release, IsSemaphore, Semaphores
  <2>. QED
    BY <1>1, <1>2, <1>4, <2>1 DEF WellKept, NoneForgotten
<1>. QED
  BY <1>3, <1>4

\* Whoever leaves the queue wakes others as long as there are permits.
LEMMA WakeNextForgetsNone ==
    ASSUME NEW T, NEW s, IsSemaphore(s, T)
    PROVE  /\ WakeNext(s).waiters = s.waiters
           /\ NoneForgotten(WakeNext(s))
<1> DEFINE asleep == Len(s.waiters) - s.woken
           k      == IF s.value < asleep THEN s.value ELSE asleep
<1>1. /\ s.value \in Nat /\ s.woken \in Nat /\ Len(s.waiters) \in Nat
      /\ s.woken <= Len(s.waiters) /\ s.waiters \in Seq(T)
  BY FieldsOfSemaphore
<1>2. s.waiters # <<>> => Len(s.waiters) # 0
  BY <1>1, EmptySeq
<1>3. /\ WakeNext(s).waiters = s.waiters /\ WakeNext(s).woken = s.woken + k
      /\ WakeNext(s).value = s.value - k
  BY DEF WakeNext
<1>4. s.waiters # <<>> /\ s.woken + k = 0 => s.value - k = 0
  BY <1>1, <1>2
<1>. HIDE DEF k
<1>. QED
  BY <1>3, <1>4 DEF NoneForgotten

\* A woken task that runs again leaves the queue, and the others as they were.
LEMMA ResumeKept ==
    ASSUME NEW T, NEW s, IsSemaphore(s, T), WellKept(s), NEW t, NEW i \in WokenPlaces(s, t)
    PROVE  /\ Members(Resume(s, i).waiters) = Members(s.waiters) \ {t}
           /\ WellKept(Resume(s, i))
<1>1. i \in 1..Len(s.waiters) /\ s.waiters[i] = t /\ s.waiters \in Seq(T)
  BY FieldsOfSemaphore DEF WokenPlaces, Places
<1>2. IsSemaphore(Without(s, i), T) /\ Without(s, i).waiters = RemoveAt(s.waiters, i)
  BY <1>1, WithoutPermits DEF Without
<1>3. Resume(s, i).waiters = RemoveAt(s.waiters, i) /\ NoneForgotten(Resume(s, i))
  BY <1>2, WakeNextForgetsNone DEF Resume
<1>. QED
  BY <1>1, <1>3, QueueWithout DEF WellKept

\* So does a task that gives up, wherever in the queue it is.
LEMMA GiveUpKept ==
    ASSUME NEW T, NEW s, IsSemaphore(s, T), WellKept(s), NEW t, NEW i \in Places(s, t)
    PROVE  /\ Members(GiveUp(s, i).waiters) = Members(s.waiters) \ {t}
           /\ WellKept(GiveUp(s, i))
<1>1. i \in 1..Len(s.waiters) /\ s.waiters[i] = t /\ s.waiters \in Seq(T)
  BY FieldsOfSemaphore DEF Places
<1> DEFINE r == Without(s, i)
           g == IF i <= s.woken THEN [r EXCEPT !.value = @ + 1] ELSE r
<1>2. IsSemaphore(r, T) /\ r.waiters = RemoveAt(s.waiters, i)
  BY <1>1, WithoutPermits DEF Without
<1>3. GiveUp(s, i) = WakeNext(g)
  BY DEF GiveUp
<1>. HIDE DEF r
<1>4. IsSemaphore(g, T) /\ g.waiters = r.waiters
  BY <1>2 DEF IsSemaphore, Semaphores
<1>. HIDE DEF g
<1>5. GiveUp(s, i).waiters = RemoveAt(s.waiters, i) /\ NoneForgotten(GiveUp(s, i))
  BY <1>2, <1>3, <1>4, WakeNextForgetsNone
<1>. QED
  BY <1>1, <1>5, QueueWithout DEF WellKept
=============================================================================
