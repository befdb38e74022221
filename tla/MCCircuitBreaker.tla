-------------------------- MODULE MCCircuitBreaker --------------------------
(***************************************************************************)
(* TLC instances of CircuitBreaker.  The callers are interchangeable:      *)
(* nothing in the specification tells one from another.                    *)
(***************************************************************************)
EXTENDS CircuitBreaker, TLC

CONSTANTS a, b, c

ThreeCallers == {a, b, c}

CallerSymmetry == Permutations(Callers)
=============================================================================
