--------------------------- MODULE BlockingEngines ---------------------------
(***************************************************************************)
(* engine/threaded_engine.py and engine/sync_engine.py: callers in several *)
(* threads share one ThreadedEngine, whose every run has a pool of worker  *)
(* threads of its own, and may use a SyncEngine or an AsyncEngine beside   *)
(* it.  Of an AsyncHttpExecutor.run only its use of tracemalloc and what   *)
(* its results look like is here: EngineRun says what else it does.        *)
(*                                                                         *)
(* Threads interleave at every step.  Sessions are numbered as they are    *)
(* made; a requests.Session that is used after close() opens connections   *)
(* anew.  A worker's thread-local storage dies with its thread.            *)
(* ThreadPoolExecutor, tracemalloc and requests are modelled from how the  *)
(* engines use them; tracemalloc is one switch for the whole process.      *)
(***************************************************************************)
EXTENDS EngineStats

CONSTANTS Callers,     \* the threads that call run and close
          MaxWorkers,  \* max_workers
          UrlCount,    \* bound: URLs of one run
          Codes,       \* status codes of the responses
          Faults,      \* failures without a response that _fetch_url handles
          Times,       \* latencies
          MaxRuns,     \* bound: calls of run
          MaxCloses    \* bound: calls of close

ASSUME EnginesAssumption ==
    /\ IsFiniteSet(Callers) /\ MaxWorkers \in Nat \ {0} /\ UrlCount \in Nat
    /\ Codes \subseteq 100..599 /\ Times \subseteq Nat /\ NoError \notin Faults
    /\ MaxRuns \in Nat /\ MaxCloses \in Nat

VARIABLES
    pc,       \* where each caller is
    urls,     \* the number of URLs of each caller's run
    taken,    \* how many of them left the executor's work queue, in order
    results,  \* results of the run, in the order in which they completed
    wpc,      \* where each worker of each caller's pool is
    wurl,     \* the URL it has taken
    local,    \* ThreadLocalSession.session of that thread, 0 for None
    own,      \* the session of a SyncEngine.run, 0 for none
    sessions, \* every session made: "open" or "closed"
    registry, \* _sessions
    lock,     \* _session_lock: the closer that has it, or "free"
    todo,     \* close(): the sessions each closer still has to close
    tracing,  \* tracemalloc.is_tracing()
    starter,  \* the caller's run starts tracing and stops it (not was_tracing)
    alone,    \* history: no other such run overlapped it so far
    reused,   \* history: the sessions used after they had been closed
    runs, closes \* bounds

callVars == <<pc, urls, runs, closes>>
poolVars == <<taken, results, wpc, wurl, local, own>>
sessionVars == <<sessions, registry, lock, todo, reused>>
traceVars == <<tracing, starter, alone>>
vars == <<callVars, poolVars, sessionVars, traceVars>>

Slots == 1..MaxWorkers
Active(c) == pc[c] \in {"threaded", "sync", "asking", "async"}   \* inside run

Init ==
    /\ pc = [c \in Callers |-> "idle"] /\ urls = [c \in Callers |-> 0]
    /\ taken = [c \in Callers |-> 0] /\ results = [c \in Callers |-> <<>>]
    /\ wpc = [c \in Callers |-> [w \in Slots |-> "none"]]
    /\ wurl = [c \in Callers |-> [w \in Slots |-> 0]]
    /\ local = [c \in Callers |-> [w \in Slots |-> 0]]
    /\ own = [c \in Callers |-> 0]
    /\ sessions = <<>> /\ registry = {} /\ lock = "free"
    /\ todo = [c \in Callers |-> {}]
    /\ tracing = FALSE /\ starter = [c \in Callers |-> FALSE]
    /\ alone = [c \in Callers |-> FALSE]
    /\ reused = {} /\ runs = 0 /\ closes = 0

-----------------------------------------------------------------------------
(* Requests. *)

Unexpected == "Unexpected error"

\* What a request can come to: a response, or a fault without one.
Answers == [code : Codes, fault : {NoError}]
             \cup [code : {0}, fault : Faults \cup {Unexpected}]

\* bool(response) is response.ok.
Truthy(a) == a.code < 400

\* raise_for_status() raises from 400; the handler then tests the response.
StatusOf(a) == IF a.code >= 400 /\ ~Truthy(a) THEN 0 ELSE a.code

ErrorOf(a) == IF a.fault = NoError /\ a.code >= 400 THEN "HTTP Error" ELSE a.fault

ResultOf(u, a, time) ==
    [url |-> u, status |-> StatusOf(a), error |-> ErrorOf(a),
     latency |-> IF a.fault = Unexpected THEN 0 ELSE time, answer |-> a.code]

-----------------------------------------------------------------------------
(* tracemalloc *)

StopsTracing == tracing' = FALSE

\* A run enters; `starts` says whether it switches tracing on, and off later.
Enters(c, place, n, starts) ==
    /\ pc[c] = "idle" /\ runs < MaxRuns /\ runs' = runs + 1
    /\ pc' = [pc EXCEPT ![c] = place]
    /\ urls' = [urls EXCEPT ![c] = n]
    /\ starter' = [starter EXCEPT ![c] = starts]
    /\ alone' = [d \in Callers |-> IF d = c THEN starts /\ \A e \in Callers : ~starter[e]
                                  ELSE alone[d] /\ ~starts]

\* The blocking engines start tracing without asking.
BeginRun(c, place, n) == Enters(c, place, n, TRUE) /\ tracing' = TRUE

\* A run leaves, and its results go to the caller.
Leaves(c) ==
    /\ pc' = [pc EXCEPT ![c] = "idle"]
    /\ urls' = [urls EXCEPT ![c] = 0] /\ taken' = [taken EXCEPT ![c] = 0]
    /\ results' = [results EXCEPT ![c] = <<>>]
    /\ starter' = [starter EXCEPT ![c] = FALSE]
    /\ alone' = [alone EXCEPT ![c] = FALSE]

\* The peak is read, then tracing stops, whoever started it.
EndRun(c) ==
    /\ Leaves(c) /\ StopsTracing
    /\ UNCHANGED <<runs, closes, wurl>>

-----------------------------------------------------------------------------
(* ThreadedEngine.run *)

\* The pool starts a thread at a submit when it has no idle one: a worker that
\* never takes a URL stands for a thread that is not started.
RunThreaded(c) ==
    \E n \in {0, UrlCount} :
      /\ BeginRun(c, "threaded", n)
      /\ wpc' = [wpc EXCEPT ![c] = [w \in Slots |-> IF w <= n THEN "idle" ELSE "none"]]
      /\ UNCHANGED <<closes, taken, results, wurl, local, own, sessions, registry,
                     lock, todo, reused>>

\* URLs of the run that nobody has taken yet.
Pending(c) == taken[c] < urls[c]

NeedsSession(c, w) == local[c][w] = 0

\* A worker takes the next URL; get_session() makes the thread's session.
TakeUrl(c, w) ==
    /\ wpc[c][w] = "idle" /\ Pending(c)
    /\ taken' = [taken EXCEPT ![c] = @ + 1]
    /\ wurl' = [wurl EXCEPT ![c][w] = taken[c] + 1]
    /\ \/ /\ NeedsSession(c, w)
          /\ sessions' = Append(sessions, "open")
          /\ local' = [local EXCEPT ![c][w] = Len(sessions')]
          /\ wpc' = [wpc EXCEPT ![c][w] = "registering"]
       \/ /\ ~NeedsSession(c, w)
          /\ wpc' = [wpc EXCEPT ![c][w] = "sending"]
          /\ UNCHANGED <<sessions, local>>
    /\ UNCHANGED <<callVars, results, own, registry, lock, todo, reused,
                   traceVars>>

\* Mutant of Register: the registry is written without its lock.
RegisterUnlocked(c, w) ==
    /\ wpc[c][w] = "registering"
    /\ registry' = registry \cup {local[c][w]}
    /\ wpc' = [wpc EXCEPT ![c][w] = "sending"]
    /\ UNCHANGED <<callVars, taken, results, wurl, local, own, sessions, lock,
                   todo, reused, traceVars>>

Register(c, w) ==
    /\ wpc[c][w] = "registering" /\ lock = "free"
    /\ registry' = registry \cup {local[c][w]}
    /\ wpc' = [wpc EXCEPT ![c][w] = "sending"]
    /\ UNCHANGED <<callVars, taken, results, wurl, local, own, sessions, lock,
                   todo, reused, traceVars>>

\* as_completed() hands every future over once, failed or not.
Collected(c, r) == Append(results[c], r)

\* session.get() opens connections, also those of a closed session.
Fetch(c, w) ==
    /\ wpc[c][w] = "sending"
    /\ \E a \in Answers, time \in Times :
         results' = [results EXCEPT ![c] = Collected(c, ResultOf(wurl[c][w], a, time))]
    /\ LET s == local[c][w]
       IN  /\ sessions' = [sessions EXCEPT ![s] = "open"]
           /\ reused' = IF sessions[s] = "closed" THEN reused \cup {s} ELSE reused
    /\ wpc' = [wpc EXCEPT ![c][w] = "idle"]
    /\ wurl' = [wurl EXCEPT ![c][w] = 0]
    /\ UNCHANGED <<callVars, taken, local, own, registry, lock, todo,
                   traceVars>>

WorkerStep(c, w) == TakeUrl(c, w) \/ Register(c, w) \/ Fetch(c, w)

\* The executor's block ends when all workers are done; their threads end.
ThreadedReturns(c) ==
    /\ pc[c] = "threaded" /\ ~Pending(c)
    /\ \A w \in Slots : wpc[c][w] \in {"none", "idle"}
    /\ EndRun(c)
    /\ wpc' = [wpc EXCEPT ![c] = [w \in Slots |-> "none"]]
    /\ local' = [local EXCEPT ![c] = [w \in Slots |-> 0]]
    /\ UNCHANGED <<own, sessionVars>>

-----------------------------------------------------------------------------
(* SyncEngine.run: one session, one URL after the other, in the caller. *)

RunSync(c) ==
    \E n \in {0, UrlCount} :
      /\ BeginRun(c, "sync", n)
      /\ sessions' = Append(sessions, "open")
      /\ own' = [own EXCEPT ![c] = Len(sessions')]
      /\ UNCHANGED <<closes, taken, results, wpc, wurl, local, registry, lock, todo,
                     reused>>

\* The `with` block closes the session, also when an exception leaves it.
LeaveSync(c) ==
    /\ sessions' = [sessions EXCEPT ![own[c]] = "closed"]
    /\ own' = [own EXCEPT ![c] = 0]
    /\ EndRun(c)
    /\ UNCHANGED <<wpc, local, registry, lock, todo, reused>>

SyncFetch(c) ==
    /\ pc[c] = "sync" /\ Pending(c)
    /\ taken' = [taken EXCEPT ![c] = @ + 1]
    /\ \E a \in Answers, time \in Times :
         /\ a.fault # Unexpected
         /\ results' = [results EXCEPT ![c] =
                          Append(@, ResultOf(taken[c] + 1, a, time))]
    /\ UNCHANGED <<callVars, wpc, wurl, local, own, sessionVars, traceVars>>

SyncReturns(c) ==
    /\ pc[c] = "sync" /\ ~Pending(c)
    /\ LeaveSync(c)

\* An unexpected exception is not caught: the results are lost with it.
SyncRaises(c) ==
    /\ pc[c] = "sync" /\ Pending(c)
    /\ LeaveSync(c)

-----------------------------------------------------------------------------
(* AsyncHttpExecutor.run, in an event loop of the caller's thread.  Without *)
(* URLs it returns before it asks.                                          *)

\* was_tracing = tracemalloc.is_tracing()
RunAsync(c) ==
    /\ UrlCount > 0
    /\ Enters(c, "asking", UrlCount, ~tracing)
    /\ UNCHANGED <<closes, tracing, poolVars, sessionVars>>

\* Another thread may have started or stopped tracing since.
AsyncStarts(c) ==
    /\ pc[c] = "asking"
    /\ pc' = [pc EXCEPT ![c] = "async"]
    /\ tracing' = (tracing \/ starter[c])
    /\ UNCHANGED <<urls, runs, closes, poolVars, sessionVars, starter, alone>>

\* The statuses on which make_request raises, if there is a retry policy.
Retried(code) == code >= 500 \/ code = 429

\* A response, whatever its status; or the message of an exception, with the
\* status of an attempt before it, if one got that far.
AsyncResults(u, time) ==
    {[url |-> u, status |-> code, error |-> NoError, latency |-> time,
      answer |-> code] : code \in Codes}
      \cup {[url |-> u, status |-> last, error |-> message, latency |-> time,
             answer |-> 0] : last \in {0} \cup {code \in Codes : Retried(code)},
                             message \in Faults \cup {Unexpected, Silent}}

\* The results come in any order: they are numbered as they come.
AsyncFetch(c) ==
    /\ pc[c] = "async" /\ Pending(c)
    /\ taken' = [taken EXCEPT ![c] = @ + 1]
    /\ \E time \in Times : \E r \in AsyncResults(taken[c] + 1, time) :
         results' = [results EXCEPT ![c] = Append(@, r)]
    /\ UNCHANGED <<callVars, wpc, wurl, local, own, sessionVars, traceVars>>

\* Mutant of StopsOwn: tracing stops, whoever started it.
StopsAny(c) == StopsTracing

StopsOwn(c) == IF starter[c] THEN StopsTracing ELSE UNCHANGED tracing

\* run returns or, at any time, raises, through the same `finally`.
AsyncEnds(c) ==
    /\ pc[c] = "async"
    /\ Leaves(c) /\ StopsOwn(c)
    /\ UNCHANGED <<runs, closes, wpc, wurl, local, own, sessionVars>>

-----------------------------------------------------------------------------
(* ThreadedEngine.close.  The caller's own thread has no session to close. *)

CloseCopies(c) ==
    /\ pc[c] = "idle" /\ closes < MaxCloses /\ closes' = closes + 1
    /\ lock = "free" /\ lock' = "taken"
    /\ todo' = [todo EXCEPT ![c] = registry]
    /\ pc' = [pc EXCEPT ![c] = "clearing"]
    /\ UNCHANGED <<urls, runs, poolVars, sessions, registry, reused, traceVars>>

CloseClears(c) ==
    /\ pc[c] = "clearing"
    /\ registry' = {} /\ lock' = "free"
    /\ pc' = [pc EXCEPT ![c] = "closing"]
    /\ UNCHANGED <<urls, runs, closes, poolVars, sessions, todo, reused, traceVars>>

CloseNext(c) ==
    /\ pc[c] = "closing"
    /\ \E s \in todo[c] :
         /\ sessions' = [sessions EXCEPT ![s] = "closed"]
         /\ todo' = [todo EXCEPT ![c] = @ \ {s}]
    /\ UNCHANGED <<callVars, poolVars, registry, lock, reused, traceVars>>

CloseReturns(c) ==
    /\ pc[c] = "closing" /\ todo[c] = {}
    /\ pc' = [pc EXCEPT ![c] = "idle"]
    /\ UNCHANGED <<urls, runs, closes, poolVars, sessionVars, traceVars>>

-----------------------------------------------------------------------------
CallerStep(c) ==
    \/ ThreadedReturns(c) \/ SyncFetch(c) \/ SyncReturns(c) \/ SyncRaises(c)
    \/ AsyncStarts(c) \/ AsyncFetch(c) \/ AsyncEnds(c)
    \/ CloseClears(c) \/ CloseNext(c) \/ CloseReturns(c)

Next ==
    \E c \in Callers :
      \/ RunThreaded(c) \/ RunSync(c) \/ RunAsync(c) \/ CloseCopies(c)
      \/ CallerStep(c)
      \/ \E w \in Slots : WorkerStep(c, w)

Spec == Init /\ [][Next]_vars

-----------------------------------------------------------------------------
(* Properties. *)

Made == 1..Len(sessions)

\* Every variable stays in its range.
TypeOK ==
    /\ pc \in [Callers -> {"idle", "threaded", "sync", "asking", "async", "clearing",
                        "closing"}]
    /\ urls \in [Callers -> 0..UrlCount] /\ taken \in [Callers -> 0..UrlCount]
    /\ wpc \in [Callers -> [Slots -> {"none", "idle", "registering", "sending"}]]
    /\ wurl \in [Callers -> [Slots -> 0..UrlCount]]
    /\ local \in [Callers -> [Slots -> Made \cup {0}]]
    /\ own \in [Callers -> Made \cup {0}]
    /\ sessions \in Seq({"open", "closed"})
    /\ registry \subseteq Made /\ reused \subseteq Made
    /\ lock \in {"free", "taken"} /\ todo \in [Callers -> SUBSET Made]
    /\ tracing \in BOOLEAN
    /\ starter \in [Callers -> BOOLEAN] /\ alone \in [Callers -> BOOLEAN]
    /\ runs \in 0..MaxRuns /\ closes \in 0..MaxCloses

\* Somebody will still close session s: it is registered, about to be, in the
\* list of a closer, or the session of a SyncEngine.run.
WillBeClosed(s) ==
    \/ s \in registry
    \/ \E c \in Callers : s \in todo[c] \/ own[c] = s
    \/ \E c \in Callers, w \in Slots : wpc[c][w] = "registering" /\ local[c][w] = s

\* threaded_engine.py:50-54 and 107-114: no open session is out of reach of
\* close(), whatever overlaps, except those a worker used again after a close().
NoSessionForgotten ==
    \A s \in Made : sessions[s] = "open" => WillBeClosed(s) \/ s \in reused

\* threaded_engine.py:160, 183-184, sync_engine.py:73, 81-82 and
\* _async_execution.py:102-127: tracing is never on without a run under way that
\* will stop it, and on throughout a run that starts it, as long as no other run
\* that starts it overlaps: an async run inside it does no harm.
TracingFollowsRuns ==
    /\ tracing => \E c \in Callers : Active(c) /\ starter[c]
    /\ \A c \in Callers : Active(c) /\ alone[c] /\ pc[c] # "asking" => tracing

\* threaded_engine.py:164-181, _async_execution.py:247-284, models.py:83-155 and
\* runner.py:93-155: every URL that a worker has done with has its result; every
\* failed request is in the breakdown once, except one whose exception had no
\* message; no request is both successful and failed, and only responses below
\* 200 or in 300..399 are neither; the percentiles are ordered; and however results
\* are split over two runs, calculate_stats counts them the same.
ReportAddsUp ==
    \A c \in Callers :
      LET rs     == results[c]
          lat    == Latencies(rs)
          pct(p) == Percentile(lat, p)
          types  == Breakdown(rs)
          other  == {i \in DOMAIN rs :
                       rs[i].answer \in (100..199) \cup (300..399)}
          inHand == {w \in Slots : wpc[c][w] \in {"registering", "sending"}}
      IN  /\ Len(rs) + Cardinality(inHand) = taken[c]
          /\ Total(types)
               = Cardinality({i \in Errors(rs) : rs[i].error # Silent \/ rs[i].status # 0})
          /\ Successes(rs) \cap Errors(rs) = {}
          /\ DOMAIN rs \ (Successes(rs) \cup Errors(rs)) = other
          /\ lat # <<>> =>
               /\ 100 * lat[1] <= pct(50) /\ pct(50) <= pct(95)
               /\ pct(95) <= pct(99) /\ pct(99) <= 100 * lat[Len(lat)]
          /\ \A k \in DOMAIN rs :
               LET report == Stats(<<SubSeq(rs, 1, k), SubSeq(rs, k + 1, Len(rs))>>)
               IN  /\ report.requests = Len(rs)
                   /\ report.successful = Cardinality(Successes(rs))
                   /\ report.breakdown = types
                   /\ report.failed = Cardinality(Errors(rs))
                   /\ report.latencies = lat
=============================================================================
