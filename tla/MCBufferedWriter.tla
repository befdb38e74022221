-------------------------- MODULE MCBufferedWriter --------------------------
(***************************************************************************)
(* TLC instances of BufferedWriter.  The callers are interchangeable.      *)
(***************************************************************************)
EXTENDS BufferedWriter, TLC

CONSTANTS a, b, c

TwoUsers   == {a, b}
ThreeUsers == {a, b, c}

UserSymmetry == Permutations(Users)
=============================================================================
