------------------------- MODULE MCClickHouseSource -------------------------
(* Instances of ClickHouseSource for TLC.                                   *)
EXTENDS ClickHouseSource, FiniteSetsExt

Row(key, id, bytes, kept) == [key |-> key, id |-> id, bytes |-> bytes, kept |-> kept]
PageBytes(rows) == MapThenSumSet(LAMBDA r : r.bytes, rows)

\* A dense cluster behind a sparse stretch, one key too heavy to share a page
\* with its neighbour, and one key that the dedup removes.
Clustered == {Row(0, 1, 1, TRUE), Row(1, 1, 1, TRUE), Row(1, 2, 1, TRUE),
              Row(3, 1, 8, TRUE)}
Tombstoned == {Row(0, 1, 3, TRUE), Row(1, 1, 3, FALSE), Row(3, 1, 6, TRUE)}

\* A key whose rows do not fit a page.
Unsplittable == {Row(0, 1, 1, TRUE), Row(2, 1, 1, TRUE), Row(2, 2, 1, TRUE),
                 Row(2, 3, 1, TRUE), Row(3, 1, 1, TRUE)}

AllTables == {Clustered, Tombstoned, Unsplittable}
=============================================================================
