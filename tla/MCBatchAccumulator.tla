------------------------- MODULE MCBatchAccumulator -------------------------
(* Instances of BatchAccumulator: wide and narrow rows in two columns.      *)
EXTENDS BatchAccumulator

\* Row 2 is wide in the one column, row 3 in the other.
RowBytes == [r \in 1..MaxRow |-> [a |-> IF r = 2 THEN 3 ELSE 1, b |-> IF r = 3 THEN 2 ELSE 0]]
=============================================================================
