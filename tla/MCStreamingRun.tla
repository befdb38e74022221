--------------------------- MODULE MCStreamingRun ---------------------------
(***************************************************************************)
(* TLC instances of StreamingRun.                                          *)
(***************************************************************************)
EXTENDS StreamingRun

CONSTANTS r

Task == {r}
=============================================================================
