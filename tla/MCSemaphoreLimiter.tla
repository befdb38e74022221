------------------------ MODULE MCSemaphoreLimiter ------------------------
(***************************************************************************)
(* TLC instances of SemaphoreLimiter.  The tasks are interchangeable.      *)
(***************************************************************************)
EXTENDS SemaphoreLimiter, TLC

CONSTANTS a, b, c, d

FourTasks == {a, b, c, d}

TaskSymmetry == Permutations(Tasks)
=============================================================================
