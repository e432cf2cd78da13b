---------------------------- MODULE MCMergePoint -----------------------------
(* Instances of MergePoint for TLC.                                         *)
EXTENDS MergePoint

CONSTANTS a, b, c

TwoInputs == {a, b}
ThreeInputs == {a, b, c}
=============================================================================
