-------------------------- MODULE MCBlockingEngines --------------------------
(***************************************************************************)
(* TLC instances of BlockingEngines.  The callers are interchangeable.     *)
(***************************************************************************)
EXTENDS BlockingEngines, TLC

CONSTANTS a, b

TwoCallers == {a, b}

CallerSymmetry == Permutations(Callers)
=============================================================================
