----------------------------- MODULE EngineStats -----------------------------
(***************************************************************************)
(* engine/models.py and calculate_stats of benchmarks/runner.py: the       *)
(* figures computed from request results.  A result is a record with its   *)
(* url, its status, its error ("none" for None, "" for a message without   *)
(* text, else the part of it before the colon) and its latency.            *)
(* Percentiles are in hundredths of the unit of the latencies; rounding is *)
(* left out.                                                               *)
(***************************************************************************)
EXTENDS Integers, Sequences, FiniteSets, SequencesExt

NoError == "none"

\* The message of an exception without arguments, such as TimeoutError().
Silent == ""

Successes(rs) == {i \in DOMAIN rs : rs[i].status \in 200..299}

Errors(rs) == {i \in DOMAIN rs : rs[i].error # NoError \/ rs[i].status >= 400}

\* An error without text is falsy: only its status can give it a type.
Typed(r) == r.error \notin {NoError, Silent}

ErrorType(r) == IF Typed(r) THEN [type |-> r.error, code |-> 0]
                ELSE [type |-> "HTTP", code |-> r.status]

\* error_breakdown: how many errors of each type.
Breakdown(rs) ==
    LET counted == {i \in DOMAIN rs : Typed(rs[i]) \/ rs[i].status >= 400}
    IN  [k \in {ErrorType(rs[i]) : i \in counted} |->
            Cardinality({i \in counted : ErrorType(rs[i]) = k})]

\* sorted(): at place n is the latency that fewer than n results stay below, and
\* that at least n do not exceed.
Latencies(rs) ==
    [n \in 1..Len(rs) |->
        CHOOSE t \in {rs[i].latency : i \in DOMAIN rs} :
          /\ Cardinality({i \in DOMAIN rs : rs[i].latency < t}) < n
          /\ n <= Cardinality({i \in DOMAIN rs : rs[i].latency <= t})]

\* Mutant of Percentile: interpolates from the wrong neighbour.
PercentileFromAbove(sorted, p) ==
    LET k == (Len(sorted) - 1) * p
        f == k \div 100
        upper == sorted[IF f + 1 < Len(sorted) THEN f + 2 ELSE f + 1]
    IN  100 * upper + (k % 100) * (upper - sorted[f + 1])

\* Linear interpolation between the two samples around place (n - 1) * p / 100.
Percentile(sorted, p) ==
    LET k == (Len(sorted) - 1) * p
        f == k \div 100
        upper == sorted[IF f + 1 < Len(sorted) THEN f + 2 ELSE f + 1]
    IN  100 * sorted[f + 1] + (k % 100) * (upper - sorted[f + 1])

\* sum()
Total(numbers) == MapThenSumSet(LAMBDA n : numbers[n], DOMAIN numbers)

Merged(one, two) ==
    [k \in DOMAIN one \cup DOMAIN two |->
        (IF k \in DOMAIN one THEN one[k] ELSE 0)
          + (IF k \in DOMAIN two THEN two[k] ELSE 0)]

\* calculate_stats over the results of several runs.
Stats(runs) ==
    [requests   |-> Total([n \in DOMAIN runs |-> Len(runs[n])]),
     successful |-> Total([n \in DOMAIN runs |-> Cardinality(Successes(runs[n]))]),
     failed     |-> Total([n \in DOMAIN runs |-> Cardinality(Errors(runs[n]))]),
     breakdown  |-> FoldLeft(Merged, <<>>, [n \in DOMAIN runs |-> Breakdown(runs[n])]),
     latencies  |-> Latencies(FlattenSeq(runs))]
=============================================================================
