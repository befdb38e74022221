---------------------------- MODULE MCRetryPolicy ----------------------------
(***************************************************************************)
(* TLC instances of RetryPolicy.  The callers are interchangeable.         *)
(***************************************************************************)
EXTENDS RetryPolicy, TLC

CONSTANTS a, b

TwoCallers == {a, b}

CallerSymmetry == Permutations(Callers)
=============================================================================
