--------------------------- MODULE MCHybridSource ---------------------------
(* Instances of HybridSource for TLC.                                       *)
EXTENDS HybridSource, TLC

CONSTANTS p1, p2

\* The offset provider knows both partitions.
BothKnown == (p1 :> 0) @@ (p2 :> 0)
=============================================================================
