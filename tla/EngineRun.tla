------------------------------ MODULE EngineRun ------------------------------
(***************************************************************************)
(* engine/_async_execution.py: AsyncHttpExecutor's run, stream and close,  *)
(* composed with the SemaphoreLimiter that all of its workers share.       *)
(*                                                                         *)
(* Each call of run or stream has its own queue of URLs and its own        *)
(* workers, which are the limiter's tasks.  A worker suspends while it     *)
(* waits for the limiter, while its request is out, and before it delivers *)
(* its result: a stream's result queue may be full, and the naive strategy *)
(* closes its session there.  A cancelled worker is `doomed` until         *)
(* CancelledError reaches it.                                              *)
(*                                                                         *)
(* What a request does inside fetch_url is RetryPolicy's subject: here it  *)
(* ends in some way, and every way but cancellation gives one result.      *)
(***************************************************************************)
EXTENDS SemaphoreLimiter

LOCAL INSTANCE Functions

CONSTANTS Calls,     \* the calls of run and stream
          UrlCount   \* the length of each call's list of URLs

WorkerCount == IF MaxConcurrent < UrlCount THEN MaxConcurrent ELSE UrlCount

\* The limiter's tasks are the workers, WorkerCount of them for each call.  An
\* empty list of URLs makes run and stream return at once.
ASSUME EngineAssumption ==
    /\ UrlCount \in Nat \ {0}
    /\ Tasks = Calls \X (1..WorkerCount)

VARIABLES
    kind,       \* what each call is: "run" or "stream"
    place,      \* where each call is
    todo,       \* its url_queue
    unfinished, \* the url_queue's count of tasks not done
    results,    \* the results it returns, or has yielded
    pending,    \* a stream's result_queue
    wpc, wurl,  \* where each worker is, and the URL in its hands
    doomed,     \* the workers with a cancellation on its way
    closing,    \* where close() is
    waited,     \* the tasks that close() waits for
    forced      \* history: close() has cancelled workers

callVars   == <<kind, place, todo, unfinished, results, pending>>
workerVars == <<wpc, wurl, doomed>>
closeVars  == <<closing, waited, forced>>
engineVars == <<vars, callVars, workerVars, closeVars>>

Workers(c) == {w \in Tasks : w[1] = c}
Over       == {"returned", "raised"}
Ended(w)   == wpc[w] \in {"done", "cancelled"}
AllEnded(W) == \A w \in W : Ended(w)

\* A worker enters _active_tasks when it first runs, and leaves when it ends.
ActiveTasks == {w \in Tasks : wpc[w] \in {"fetching", "delivering"}}

NoCalls ==
    /\ kind = [c \in Calls |-> "run"] /\ place = [c \in Calls |-> "idle"]
    /\ todo = [c \in Calls |-> <<>>] /\ unfinished = [c \in Calls |-> 0]
    /\ results = [c \in Calls |-> <<>>] /\ pending = [c \in Calls |-> <<>>]
    /\ wpc = [w \in Tasks |-> "unborn"] /\ wurl = [w \in Tasks |-> 0]
    /\ doomed = {} /\ closing = "idle" /\ waited = {} /\ forced = FALSE

\* AsyncEngine gives its executor a limiter and a set of active tasks.
EngineInit == Init /\ NoCalls

-----------------------------------------------------------------------------
(* Calls of run and stream. *)

\* What run and run_streaming of AsyncEngine wait for first.
FirstPlace(k) == IF k = "run" THEN "joining" ELSE "yielding"

\* The URLs are queued and the workers created; none of them has run yet.
StartCall(c, k) ==
    /\ place[c] = "idle"
    /\ kind' = [kind EXCEPT ![c] = k]
    /\ place' = [place EXCEPT ![c] = FirstPlace(k)]
    /\ todo' = [todo EXCEPT ![c] = [i \in 1..UrlCount |-> i]]
    /\ unfinished' = [unfinished EXCEPT ![c] = UrlCount]
    /\ wpc' = [w \in Tasks |-> IF w \in Workers(c) THEN "new" ELSE wpc[w]]
    /\ UNCHANGED <<vars, results, pending, wurl, doomed, closeVars>>

\* url_queue.join() returns.
Joined(c) == place[c] = "joining" /\ unfinished[c] = 0

JoinEnds(c) ==
    /\ Joined(c)
    /\ place' = [place EXCEPT ![c] = "gathering"]
    /\ UNCHANGED <<vars, kind, todo, unfinished, results, pending, workerVars,
                   closeVars>>

\* gather() returns when all workers are done and raises if one is cancelled.
GatherEnds(c) ==
    /\ place[c] = "gathering"
    /\ \/ /\ \A w \in Workers(c) : wpc[w] = "done"
          /\ place' = [place EXCEPT ![c] = "returned"]
       \/ /\ \E w \in Workers(c) : wpc[w] = "cancelled"
          /\ place' = [place EXCEPT ![c] = "raised"]
    /\ UNCHANGED <<vars, kind, todo, unfinished, results, pending, workerVars,
                   closeVars>>

\* A stream yields a result; after the last it cancels the workers not done.
Yield(c) ==
    /\ place[c] = "yielding" /\ pending[c] # <<>>
    /\ results' = [results EXCEPT ![c] = Append(@, Head(pending[c]))]
    /\ pending' = [pending EXCEPT ![c] = Tail(@)]
    /\ \/ /\ Len(results'[c]) < UrlCount
          /\ UNCHANGED <<place, doomed>>
       \/ /\ Len(results'[c]) >= UrlCount
          /\ place' = [place EXCEPT ![c] = "reaping"]
          /\ doomed' = doomed \cup {w \in Workers(c) : ~Ended(w)}
    /\ UNCHANGED <<vars, kind, todo, unfinished, wpc, wurl, closeVars>>

\* Mutant of Starved: the stream gives up at the first time-out.
StarvedAtOnce(c) == place[c] = "yielding" /\ pending[c] = <<>>

\* The 60 s time-out finds all workers ended and nothing left to yield.
Starved(c) ==
    place[c] = "yielding" /\ AllEnded(Workers(c)) /\ pending[c] = <<>>

StreamEnds(c) ==
    /\ Starved(c) \/ (place[c] = "reaping" /\ AllEnded(Workers(c)))
    /\ place' = [place EXCEPT ![c] = "returned"]
    /\ UNCHANGED <<vars, kind, todo, unfinished, results, pending, workerVars,
                   closeVars>>

\* The caller's task is cancelled, or the stream is closed early.  Only gather()
\* passes that on to the workers.
Abandon(c) ==
    /\ place[c] \notin {"idle"} \cup Over
    /\ place' = [place EXCEPT ![c] = "raised"]
    /\ doomed' = IF place[c] = "gathering"
                 THEN doomed \cup {w \in Workers(c) : ~Ended(w)} ELSE doomed
    /\ UNCHANGED <<vars, kind, todo, unfinished, results, pending, wpc, wurl,
                   closeVars>>

-----------------------------------------------------------------------------
(* Workers. *)

Moves(w, p) == wpc' = [wpc EXCEPT ![w] = p]

\* The head of the loop: the next URL and the limiter's __aenter__, or the end.
TakeUrl(w) ==
    \/ /\ todo[w[1]] = <<>>
       /\ Moves(w, "done")
       /\ wurl' = [wurl EXCEPT ![w] = 0]
       /\ UNCHANGED <<todo, vars>>
    \/ /\ todo[w[1]] # <<>>
       /\ EnterNow(w) \/ EnterAndWait(w)
       /\ Moves(w, "fetching")
       /\ wurl' = [wurl EXCEPT ![w] = Head(todo[w[1]])]
       /\ todo' = [todo EXCEPT ![w[1]] = Tail(@)]

WorkerBegins(w) ==
    /\ w \notin doomed /\ wpc[w] = "new"
    /\ TakeUrl(w)
    /\ UNCHANGED <<kind, place, unfinished, results, pending, doomed, closeVars>>

LimiterGrants(w) ==
    /\ w \notin doomed
    /\ ResumeWait(w)
    /\ UNCHANGED <<callVars, workerVars, closeVars>>

\* The request ends, or the limiter's time-out comes out of fetch_url and the
\* worker makes an error result of it.
FetchEnds(w) ==
    /\ w \notin doomed
    /\ Exit(w) \/ TimeOut(w)
    /\ Moves(w, "delivering")
    /\ UNCHANGED <<callVars, wurl, doomed, closeVars>>

\* Mutant of TaskDone: nothing is counted.
TaskNotDone(c) == UNCHANGED unfinished

TaskDone(c) == unfinished' = [unfinished EXCEPT ![c] = @ - 1]

Reported(w, seq) == Append(seq, wurl[w])

\* The result is appended, or put in a result queue that has room; then
\* task_done() and the next URL.
Deliver(w) ==
    /\ w \notin doomed /\ wpc[w] = "delivering"
    /\ LET c == w[1]
       IN  /\ \/ /\ kind[c] = "run"
                 /\ results' = [results EXCEPT ![c] = Reported(w, @)]
                 /\ UNCHANGED pending
              \/ /\ kind[c] = "stream" /\ Len(pending[c]) < MaxConcurrent
                 /\ pending' = [pending EXCEPT ![c] = Reported(w, @)]
                 /\ UNCHANGED results
           /\ TaskDone(c)
    /\ TakeUrl(w)
    /\ UNCHANGED <<kind, place, doomed, closeVars>>

\* Mutants of HandsBack: the limiter is not told; a worker that is cancelled in
\* the limiter's queue runs __aexit__ as well.
HandsBackNothing(w) == UNCHANGED vars

HandsBackAlways(w) ==
    \/ LeaveQueueReleasing(w) /\ UNCHANGED timeouts
    \/ Exit(w)
    \/ pc[w] = "idle" /\ UNCHANGED vars

\* What the limiter sees of a cancellation.
HandsBack(w) ==
    \/ CancelWait(w)
    \/ Exit(w)
    \/ pc[w] = "idle" /\ UNCHANGED vars

\* Mutant of Accounts: task_done() is not reached by a cancelled worker.
AccountsNothing(w) == UNCHANGED unfinished

\* The `finally` of the worker's loop: a URL it had taken is marked done.
Accounts(w) == IF wpc[w] = "new" THEN UNCHANGED unfinished ELSE TaskDone(w[1])

\* CancelledError reaches the worker: no result, and no further URL.
WorkerDies(w) ==
    /\ w \in doomed
    /\ HandsBack(w)
    /\ Accounts(w)
    /\ Moves(w, "cancelled")
    /\ wurl' = [wurl EXCEPT ![w] = 0]
    /\ doomed' = doomed \ {w}
    /\ UNCHANGED <<kind, place, todo, results, pending, closeVars>>

-----------------------------------------------------------------------------
(* close *)

\* close() may be called again, as __aexit__ does after an explicit close.
MayClose == closing \in {"idle", "returned"}

\* Tasks that have not run yet are not in _active_tasks and are not waited for.
CloseBegins ==
    /\ MayClose
    /\ waited' = ActiveTasks
    /\ closing' = IF ActiveTasks = {} THEN "returned" ELSE "waiting"
    /\ UNCHANGED <<vars, callVars, workerVars, forced>>

Gathered == AllEnded(waited)

\* The time-out runs out: what is pending is cancelled and gathered.
CloseForces ==
    /\ closing = "waiting" /\ ~Gathered
    /\ doomed' = doomed \cup {w \in waited : ~Ended(w)}
    /\ closing' = "reaping" /\ forced' = TRUE
    /\ UNCHANGED <<vars, callVars, wpc, wurl, waited>>

CloseReturns ==
    /\ closing \in {"waiting", "reaping"} /\ Gathered
    /\ closing' = "returned"
    /\ UNCHANGED <<vars, callVars, workerVars, waited, forced>>

-----------------------------------------------------------------------------
WorkerStep(w) ==
    \/ WorkerBegins(w) \/ LimiterGrants(w) \/ FetchEnds(w) \/ Deliver(w)
    \/ WorkerDies(w)

CallStep(c) == JoinEnds(c) \/ GatherEnds(c) \/ Yield(c) \/ StreamEnds(c)

CloseStep == CloseForces \/ CloseReturns

EngineNext ==
    \/ \E c \in Calls :
         \/ \E k \in {"run", "stream"} : StartCall(c, k)
         \/ CallStep(c) \/ Abandon(c)
    \/ \E w \in Tasks : WorkerStep(w)
    \/ CloseBegins \/ CloseStep

EngineSpec == EngineInit /\ [][EngineNext]_engineVars

\* Every request ends (the session has a total time-out), the event loop runs
\* what can run, and a stream's consumer keeps asking.  A permit may go to
\* other workers again and again only while there are other URLs: WF is enough.
EngineFairSpec ==
    /\ EngineSpec
    /\ \A w \in Tasks : WF_engineVars(WorkerStep(w))
    /\ \A c \in Calls : WF_engineVars(CallStep(c))
    /\ WF_engineVars(CloseStep)

-----------------------------------------------------------------------------
(* Properties. *)

\* Every variable of the executor and of its limiter stays in its range, and a worker is in the
\* limiter exactly while it fetches.
EngineTypeOK ==
    /\ TypeOK
    /\ kind \in [Calls -> {"run", "stream"}]
    /\ place \in [Calls -> {"idle", "joining", "gathering", "yielding", "reaping"}
                           \cup Over]
    /\ todo \in [Calls -> Seq(1..UrlCount)]
    /\ unfinished \in [Calls -> 0..UrlCount]
    /\ results \in [Calls -> Seq(1..UrlCount)]
    /\ pending \in [Calls -> Seq(1..UrlCount)]
    /\ wpc \in [Tasks -> {"unborn", "new", "fetching", "delivering", "done",
                          "cancelled"}]
    /\ wurl \in [Tasks -> 0..UrlCount]
    /\ doomed \subseteq Tasks /\ waited \subseteq Tasks /\ forced \in BOOLEAN
    /\ closing \in {"idle", "waiting", "reaping", "returned"}
    /\ \A w \in Tasks : wpc[w] = "fetching" <=> pc[w] # "idle"

\* Lines 311-332: the count that join() waits for is exactly the URLs still
\* queued plus those in some worker's hands, through errors and cancellations.
UnfinishedIsExact ==
    \A c \in Calls :
        unfinished[c] = Len(todo[c]) + Cardinality(Workers(c) \cap ActiveTasks)

\* Lines 300-334 and 171-193: a call that returns has one result for every URL and
\* no second one, whatever was cancelled meanwhile; only a stream whose workers were
\* cancelled by close() may return with fewer.
ReturnedIsComplete ==
    \A c \in Calls :
        place[c] = "returned" /\ (kind[c] = "stream" => ~forced)
            => Range(results[c]) = 1..UrlCount /\ Len(results[c]) = UrlCount

\* Line 205, and async_engine.py:55: however many calls share
\* the engine, and however their workers end, max_concurrent requests are the
\* most that are out at a time.
RequestsBounded == Cardinality(Inside) <= MaxConcurrent

\* A worker that the event loop, the end of its request, the limiter, room in the
\* result queue or a cancellation lets run.
MayGoOn(w) ==
    \/ w \in doomed \/ wpc[w] = "new"
    \/ wpc[w] = "fetching" /\ (pc[w] = "waiting" => WokenPlaces(sems[waitsOn[w]], w) # {})
    \/ /\ wpc[w] = "delivering"
       /\ kind[w[1]] = "stream" => Len(pending[w[1]]) < MaxConcurrent

\* What a call waits for has come.
CallMayGoOn(c) ==
    \/ Joined(c)
    \/ place[c] = "yielding" /\ pending[c] # <<>>
    \/ place[c] # "joining" /\ AllEnded(Workers(c))

\* Lines 171-193 and 311-344: calls, workers and limiter never all wait for each
\* other.  A call can go on, or one of its workers can, or one of its workers waits
\* for a permit that somebody who can go on has; unless close() has cancelled
\* workers of a run, whose join() may then wait for URLs that nobody takes.
NoCallIsStuck ==
    \A c \in Calls :
      place[c] \notin {"idle"} \cup Over /\ (kind[c] = "run" => ~forced) =>
        \/ CallMayGoOn(c)
        \/ \E w \in Workers(c) :
             \/ MayGoOn(w)
             \/ /\ pc[w] = "waiting"
                /\ \E u \in Tasks : wpc[u] = "fetching" /\ MayGoOn(u)

\* Lines 83-95, 171-193 and 332-334: every stream comes to an end, even if close()
\* cancels its workers; every run, unless it does; and every close.
CallsEnd ==
    /\ \A c \in Calls :
         /\ place[c] \in {"yielding", "reaping"} ~> place[c] \in Over
         /\ place[c] \in {"joining", "gathering"} ~> place[c] \in Over \/ forced
    /\ closing = "waiting" ~> closing = "returned"
=============================================================================
