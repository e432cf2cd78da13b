SPECIFICATION Spec
CONSTANTS
    p1 = p1
    p2 = p2
    Partitions = {p1, p2}
    MaxRow = 1
    MaxEpoch = 2
    Capacity = 1
    Faults = {}
    MaxFaults = 0
INVARIANTS AtLeastOnce
