--------------------------- MODULE AsyncSemaphore ---------------------------
(***************************************************************************)
(* asyncio.Semaphore of CPython 3.12 as the package uses it: a permit      *)
(* count and a FIFO queue of waiting tasks.  The library is external; this *)
(* module holds its operations as operators on a record, so that each      *)
(* component that owns a semaphore keeps it in a variable of its own.      *)
(*                                                                         *)
(*   value    permits nobody owns                                          *)
(*   waiters  the tasks parked in acquire(), oldest first                  *)
(*   woken    how many of them, always a prefix, have been handed a permit *)
(*            by release() but have not run again yet                      *)
(*                                                                         *)
(* A released permit goes to the oldest task that is not woken; a task     *)
(* that arrives while anybody is parked, even a woken task, has to queue.  *)
(***************************************************************************)
EXTENDS Integers, Sequences

LOCAL INSTANCE SequencesExt

NewSemaphore(n) == [value |-> n, waiters |-> <<>>, woken |-> 0]

\* not locked(): acquire() takes a permit without suspending.
CanAcquire(s) == s.value > 0 /\ s.waiters = <<>>

TakePermit(s) == [s EXCEPT !.value = @ - 1]

\* acquire() on a locked semaphore: the task parks at the end of the queue.
Park(s, t) == [s EXCEPT !.waiters = Append(@, t)]

\* release(): the permit goes to the oldest task not woken yet, if any.
Release(s) ==
    IF s.woken < Len(s.waiters) THEN [s EXCEPT !.woken = @ + 1]
                                ELSE [s EXCEPT !.value = @ + 1]

\* The places in the queue at which task t is parked / parked and woken.
Places(s, t)      == {i \in 1..Len(s.waiters) : s.waiters[i] = t}
WokenPlaces(s, t) == {i \in Places(s, t) : i <= s.woken}

\* A task that leaves the queue wakes as many others as there are permits.
WakeNext(s) ==
    LET asleep == Len(s.waiters) - s.woken
        k      == IF s.value < asleep THEN s.value ELSE asleep
    IN  [value |-> s.value - k, waiters |-> s.waiters, woken |-> s.woken + k]

\* The queue without the task at place i, and with or without its permit.
Without(s, i) ==
    [value   |-> s.value,
     waiters |-> RemoveAt(s.waiters, i),
     woken   |-> IF i <= s.woken THEN s.woken - 1 ELSE s.woken]

\* The woken task at place i runs again and owns the permit it was handed.
Resume(s, i) == WakeNext(Without(s, i))

\* The task at place i is cancelled (wait_for ran out, or the task was
\* cancelled); a permit it was already handed goes back.
GiveUp(s, i) ==
    WakeNext(IF i <= s.woken THEN [Without(s, i) EXCEPT !.value = @ + 1]
                             ELSE Without(s, i))

\* The permits that are in the semaphore's hands: free ones and handed ones.
Permits(s) == s.value + s.woken

Semaphores(Tasks) ==
    {s \in [value : Nat, waiters : Seq(Tasks), woken : Nat] :
        s.woken <= Len(s.waiters)}

IsSemaphore(s, Tasks) == s \in Semaphores(Tasks)

=============================================================================
