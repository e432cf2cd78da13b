SPECIFICATION FairSpec
CONSTANTS
    Stages = 1
    Sizes = {0, 1, 2, 3}
    MaxRow = 4
    MaxBatch = 3
    MaxEpoch = 2
    Columns = {"a", "b"}
    Bytes <- RowBytes
    MaxColumnBytes = 3
INVARIANTS NothingLost AckedIsWritten MergeNeverOverflows
PROPERTY EverythingLeaves
