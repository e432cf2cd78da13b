SPECIFICATION FairSpec
CONSTANTS
    p1 = p1
    p2 = p2
    Partitions = {p1}
    MaxRow = 2
    MaxEpoch = 2
    Capacity = 1
    Faults <- PositionReadable
    MaxFaults = 3
INVARIANTS AtLeastOnce CleanStopCommitted
PROPERTY RowsArrive
