---------------------------- MODULE MCLoopMonitor ----------------------------
(***************************************************************************)
(* TLC instances of LoopMonitor.                                           *)
(***************************************************************************)
EXTENDS LoopMonitor

CONSTANTS a, b

TwoUsers == {a, b}
=============================================================================
