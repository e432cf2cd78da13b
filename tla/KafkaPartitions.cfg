SPECIFICATION Spec
CONSTANTS
    p1 = p1
    p2 = p2
    Partitions = {p1, p2}
    MaxRow = 2
    MaxEpoch = 2
    Capacity = 1
    Faults <- FaultKinds
    MaxFaults = 1
INVARIANTS OnlyFirstMessageSkipped
