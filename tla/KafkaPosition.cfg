SPECIFICATION Spec
CONSTANTS
    p1 = p1
    p2 = p2
    Partitions = {p1}
    MaxRow = 1
    MaxEpoch = 2
    Capacity = 1
    Faults = {"position"}
    MaxFaults = 1
INVARIANTS CleanStopCommitted
