SPECIFICATION Spec
CONSTANTS
    Stages = 2
    Sizes = {1, 2, 3}
    MaxRow = 3
    MaxBatch = 2
    MaxEpoch = 1
    Columns = {"a", "b"}
    Bytes <- RowBytes
    MaxColumnBytes = 9
INVARIANT AckedIsWritten
