----------------------------- MODULE MCPipeline -----------------------------
(***************************************************************************)
(* TLC instances of Pipeline.  Producers are interchangeable, and so are   *)
(* stoppers.                                                               *)
(***************************************************************************)
EXTENDS Pipeline, TLC

CONSTANTS a, b, s, t

TwoProducers == {a, b}
TwoStoppers  == {s, t}

TaskSymmetry == Permutations(Producers) \cup Permutations(Stoppers)
=============================================================================
