---------------------------- MODULE MCEngineRun ----------------------------
(***************************************************************************)
(* TLC instances of EngineRun.  The calls are interchangeable.             *)
(***************************************************************************)
EXTENDS EngineRun, TLC

CONSTANTS a, b

TwoCalls == {a, b}

CallWorkers == Calls \X (1..WorkerCount)

CallSymmetry == Permutations(Calls)
=============================================================================
