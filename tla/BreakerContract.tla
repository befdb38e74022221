--------------------------- MODULE BreakerContract ---------------------------
(***************************************************************************)
(* What a circuit breaker promises, whatever it counts and whoever calls   *)
(* it: only a failure opens it, a failed probe always does, it lets probes *)
(* in no sooner than CoolDown after the last time it opened, and it closes *)
(* after Successes successes with no failure between, or by force.         *)
(***************************************************************************)
EXTENDS Integers

CONSTANTS CoolDown,   \* how long an opened breaker stays open
          Successes   \* successes a half-open period needs before it closes

VARIABLES clock,
          phase,      \* "CLOSED", "OPEN" or "HALF_OPEN"
          since,      \* when the phase was entered, or OPEN was last renewed
          credit,     \* successes counted in this half-open period
          evidence    \* failures seen since it was last forced closed

cvars == <<clock, phase, since, credit, evidence>>

CInit == /\ clock = 0 /\ phase = "CLOSED" /\ since = 0
         /\ credit = 0 /\ evidence = 0

\* A failure that is only counted.  A half-open breaker has no such failure.
Fail ==
    /\ phase # "HALF_OPEN"
    /\ evidence' = evidence + 1
    /\ UNCHANGED <<clock, phase, since, credit>>

\* A failure that opens the breaker, or renews the cool-down of an open one.
Open ==
    /\ evidence' = evidence + 1
    /\ phase' = "OPEN" /\ since' = clock /\ credit' = 0
    /\ UNCHANGED clock

Probe ==
    /\ phase = "OPEN" /\ clock >= since + CoolDown
    /\ phase' = "HALF_OPEN" /\ since' = clock /\ credit' = 0
    /\ UNCHANGED <<clock, evidence>>

Credit ==
    /\ phase = "HALF_OPEN" /\ credit + 1 < Successes
    /\ credit' = credit + 1
    /\ UNCHANGED <<clock, phase, since, evidence>>

Close ==
    /\ phase = "HALF_OPEN" /\ credit + 1 = Successes
    /\ phase' = "CLOSED" /\ since' = clock /\ credit' = 0
    /\ UNCHANGED <<clock, evidence>>

ForceClosed ==
    /\ phase' = "CLOSED" /\ since' = clock /\ credit' = 0
    /\ evidence' = 0
    /\ UNCHANGED clock

Advance == clock' = clock + 1 /\ UNCHANGED <<phase, since, credit, evidence>>

CNext == Fail \/ Open \/ Probe \/ Credit \/ Close \/ ForceClosed \/ Advance

CSpec == CInit /\ [][CNext]_cvars
=============================================================================
