----------------------------- MODULE RetryPolicy -----------------------------
(***************************************************************************)
(* patterns/retry.py composed with patterns/circuit_breaker.py, the way    *)
(* AsyncEngineExecutor.fetch_url drives them: each caller runs             *)
(* execute_with_metrics(make_request, circuit_breaker=...) and reports the *)
(* latency of the request to the breaker when that returns or raises.      *)
(*                                                                         *)
(* A caller suspends while it waits for a probe permit ("entering"), while *)
(* its request is out ("calling") and between two attempts ("backoff").    *)
(* Between suspension points it runs alone: a caller that is "admitted" or *)
(* reporting its "latency" is the running task, and nobody else moves.     *)
(*                                                                         *)
(* The length of the exponential backoff is left open: a sleeping caller   *)
(* may wake at any time.  The engine always uses the budget key "default". *)
(***************************************************************************)
EXTENDS CircuitBreaker

CONSTANTS MaxAttempts,  \* max_attempts
          RetryBudget,  \* retry_budget
          BudgetWindow, \* retry_budget_window_seconds
          MaxCalls      \* bound: calls of execute, reset and reset_budget

ASSUME RetryAssumption ==
    /\ MaxAttempts \in Nat \ {0}
    /\ RetryBudget \in Nat
    /\ BudgetWindow \in Nat \ {0}
    /\ MaxCalls \in Nat

VARIABLES
    call,         \* where each caller is in execute_with_metrics
    attempt,      \* attempt_count: the attempts begun by the caller's execution
    spent,        \* _attempt_counts["default"]
    windowStart,  \* _budget_window_start
    refusals,     \* history: executions refused by the is_open test
    grants,       \* history: when retries were granted since reset_budget
    sent,         \* history: requests the caller's execution has sent
    calls         \* bound: calls of execute, reset and reset_budget

retryVars == <<call, attempt, spent, windowStart, refusals, grants, sent, calls>>
allVars   == <<vars, retryVars>>

CallPlaces == {"none", "entering", "admitted", "calling", "backoff", "latency"}

\* The caller that has the event loop to itself, if there is one.
Running == {c \in Callers : call[c] \in {"admitted", "latency"}}

LoopFree == Running = {}

RetryInit ==
    /\ Init
    /\ call = [c \in Callers |-> "none"]
    /\ attempt = [c \in Callers |-> 0]
    /\ sent = [c \in Callers |-> 0]
    /\ spent = 0 /\ windowStart = 0
    /\ refusals = 0 /\ grants = <<>> /\ calls = 0

Counted == calls < MaxCalls /\ calls' = calls + 1

Goes(c, place) == call' = [call EXCEPT ![c] = place]

Sends(c) == sent' = [sent EXCEPT ![c] = @ + 1]

-----------------------------------------------------------------------------
(* The first attempt. *)

\* The breaker's state says OPEN: CircuitBreakerError before any attempt.  The
\* breaker is not entered, so the cool-down is not looked at.
Refused(c) ==
    /\ LoopFree /\ call[c] = "none" /\ state = "OPEN"
    /\ Counted
    /\ refusals' = refusals + 1
    /\ UNCHANGED <<vars, call, attempt, spent, windowStart, grants, sent>>

\* Mutant of NotOpen: an OPEN breaker is entered like any other.
NotOpenUnchecked == TRUE

NotOpen == state # "OPEN"

\* __aenter__ of the breaker, and where it leaves the caller: inside, parked,
\* or with a CircuitBreakerError, which is not transient and ends the call.
EnterBreaker(c, inside) ==
    /\ EnterClosed(c) \/ EnterOpen(c) \/ EnterAfterCoolDown(c) \/ EnterHalfOpen(c)
    /\ \/ pc'[c] = "inside" /\ Goes(c, inside)
       \/ pc'[c] = "waiting" /\ Goes(c, "entering")
       \/ pc'[c] = "idle" /\ Goes(c, "latency")

\* The first attempt enters at once and, if it can, sends its request.
Call(c) ==
    /\ LoopFree /\ call[c] = "none" /\ NotOpen
    /\ Counted
    /\ EnterBreaker(c, "calling")
    /\ attempt' = [attempt EXCEPT ![c] = 1]
    /\ sent' = [sent EXCEPT ![c] = IF pc'[c] = "inside" THEN 1 ELSE 0]
    /\ UNCHANGED <<spent, windowStart, refusals, grants>>

-----------------------------------------------------------------------------
(* Later attempts. *)

\* The backoff is over: the next attempt enters the breaker, whatever state it
\* is in by now.
Retry(c) ==
    /\ LoopFree /\ call[c] = "backoff"
    /\ EnterBreaker(c, "admitted")
    /\ attempt' = [attempt EXCEPT ![c] = @ + 1]
    /\ UNCHANGED <<spent, windowStart, refusals, grants, sent, calls>>

\* The wait for a probe permit ends well; only a retry checks the budget.
Granted(c) ==
    /\ LoopFree /\ call[c] = "entering"
    /\ ResumeProbe(c)
    /\ \/ attempt[c] > 1 /\ Goes(c, "admitted") /\ UNCHANGED sent
       \/ attempt[c] = 1 /\ Goes(c, "calling") /\ Sends(c)
    /\ UNCHANGED <<attempt, spent, windowStart, refusals, grants, calls>>

\* Mutant of TurnedAway: a CircuitBreakerError is taken for a transient error.
TurnedAwayRetried(c) ==
    /\ LoopFree /\ call[c] = "entering"
    /\ TimeOut(c)
    /\ Goes(c, IF attempt[c] >= MaxAttempts THEN "latency" ELSE "backoff")
    /\ UNCHANGED <<attempt, spent, windowStart, refusals, grants, sent, calls>>

\* The wait for a probe permit runs out.
TurnedAway(c) ==
    /\ LoopFree /\ call[c] = "entering"
    /\ TimeOut(c)
    /\ Goes(c, "latency")
    /\ UNCHANGED <<attempt, spent, windowStart, refusals, grants, sent, calls>>

WindowOver == now - windowStart >= BudgetWindow

\* Mutant of SpentNow: the window never starts afresh on its own, it is only
\* forgotten; every check after the first window finds the counter at zero.
SpentNowForgotten == IF now >= BudgetWindow THEN 0 ELSE spent

SpentNow == IF WindowOver THEN 0 ELSE spent

NewWindow == windowStart' = IF WindowOver THEN now ELSE windowStart

\* _check_budget() of a retry that is inside the breaker: the budget has room.
BudgetTaken(c) ==
    /\ call[c] = "admitted"
    /\ SpentNow < RetryBudget
    /\ NewWindow /\ spent' = SpentNow + 1
    /\ grants' = Append(grants, now)
    /\ Goes(c, "calling") /\ Sends(c)
    /\ UNCHANGED <<vars, attempt, refusals, calls>>

\* The budget is exhausted: RetryBudgetExceededError leaves through __aexit__,
\* which takes it for a failure of the service.
BudgetGone(c) ==
    /\ call[c] = "admitted"
    /\ SpentNow >= RetryBudget
    /\ NewWindow /\ spent' = SpentNow
    /\ ExitFailure(c)
    /\ Goes(c, "latency")
    /\ UNCHANGED <<attempt, refusals, grants, sent, calls>>

-----------------------------------------------------------------------------
(* The request returns, and the engine reports its latency. *)

Succeed(c) ==
    /\ LoopFree /\ call[c] = "calling"
    /\ ExitSuccess(c)
    /\ Goes(c, "latency")
    /\ UNCHANGED <<attempt, spent, windowStart, refusals, grants, sent, calls>>

LastAttempt(c) == attempt[c] >= MaxAttempts

\* A transient error: back off, or RetryExhaustedError after the last attempt.
FailTransient(c) ==
    /\ LoopFree /\ call[c] = "calling"
    /\ ExitFailure(c)
    /\ Goes(c, IF LastAttempt(c) THEN "latency" ELSE "backoff")
    /\ UNCHANGED <<attempt, spent, windowStart, refusals, grants, sent, calls>>

\* Any other error is raised at once.
FailFatal(c) ==
    /\ LoopFree /\ call[c] = "calling"
    /\ ExitFailure(c)
    /\ Goes(c, "latency")
    /\ UNCHANGED <<attempt, spent, windowStart, refusals, grants, sent, calls>>

\* The executor reports the latency: a slow request is a second failure.
ReportLatency(c) ==
    /\ call[c] = "latency"
    /\ RecordSlow \/ UNCHANGED vars
    /\ Goes(c, "none")
    /\ attempt' = [attempt EXCEPT ![c] = 0]
    /\ sent' = [sent EXCEPT ![c] = 0]
    /\ UNCHANGED <<spent, windowStart, refusals, grants, calls>>

\* The caller's task is cancelled at a suspension point.  CancelledError is not
\* an Exception: no retry, no latency.
Cancel(c) ==
    /\ LoopFree
    /\ \/ call[c] = "entering" /\ CancelWait(c)
       \/ call[c] = "calling"  /\ ExitFailure(c)
       \/ call[c] = "backoff"  /\ UNCHANGED vars
    /\ Goes(c, "none")
    /\ attempt' = [attempt EXCEPT ![c] = 0]
    /\ sent' = [sent EXCEPT ![c] = 0]
    /\ UNCHANGED <<spent, windowStart, refusals, grants, calls>>

-----------------------------------------------------------------------------
(* Administration and the clock. *)

ResetBudget ==
    /\ LoopFree /\ Counted
    /\ spent' = 0
    /\ grants' = <<>>
    /\ UNCHANGED <<vars, call, attempt, windowStart, refusals, sent>>

ResetBreaker ==
    /\ LoopFree /\ Counted
    /\ Reset
    /\ UNCHANGED <<call, attempt, spent, windowStart, refusals, grants, sent>>

Clock == LoopFree /\ Tick /\ UNCHANGED retryVars

RetryNext ==
    \/ \E c \in Callers :
         \/ Refused(c) \/ Call(c) \/ Retry(c) \/ Granted(c) \/ TurnedAway(c)
         \/ BudgetTaken(c) \/ BudgetGone(c)
         \/ Succeed(c) \/ FailTransient(c) \/ FailFatal(c)
         \/ ReportLatency(c) \/ Cancel(c)
    \/ ResetBudget \/ ResetBreaker \/ Clock

RetrySpec == RetryInit /\ [][RetryNext]_allVars

-----------------------------------------------------------------------------
(* Properties. *)

\* Every variable of the retry loops stays in its range; in particular no
\* execution begins more than max_attempts attempts.
RetryTypeOK ==
    /\ TypeOK
    /\ call \in [Callers -> CallPlaces]
    /\ attempt \in [Callers -> 0..MaxAttempts]
    /\ sent \in [Callers -> 0..MaxAttempts]
    /\ spent \in 0..RetryBudget
    /\ windowStart \in 0..now
    /\ refusals \in Nat /\ calls \in Nat
    /\ grants \in Seq(Nat)
    /\ Cardinality(Running) <= 1

\* Lines 299-334: a caller that has a request out or sleeps before the next one
\* has sent exactly one request for each attempt it counts.
AttemptsAreRequests ==
    \A c \in Callers : call[c] \in {"calling", "backoff"} => sent[c] = attempt[c]

\* Lines 229-243: the window of the budget tumbles, so a burst at its end and
\* one at the start of the next may add up; but no span of one window length
\* ever sees more than twice the budget.
TwoBudgetsPerSpan ==
    \A i \in 1..Len(grants) :
        Cardinality({j \in i..Len(grants) : grants[j] < grants[i] + BudgetWindow})
            <= 2 * RetryBudget

\* Lines 293-296 with circuit_breaker.py:219-230: the move out of OPEN is lazy
\* and needs somebody to enter the breaker, which a new call never does.  Only
\* a call that began before the breaker opened can probe it; with none left,
\* nothing but reset() ever gets it out of OPEN.
StuckOpenWithoutRetries ==
    [][ state = "OPEN" /\ (\A c \in Callers : call[c] = "none") =>
          \/ state' = "OPEN" /\ \A c \in Callers : call'[c] = "none"
          \/ state' = "CLOSED" /\ log' = <<>> ]_allVars

\* Documented (docs/API.md:146, circuit_breaker.py:61): requests are rejected
\* for open_state_duration seconds, after which the breaker is HALF_OPEN and
\* lets a limited number of requests through.
RefusedOnlyWhileCooling ==
    [][ refusals' > refusals => now - lastChange < OpenStateDuration ]_allVars
=============================================================================
