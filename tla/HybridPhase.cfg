SPECIFICATION Spec
CONSTANTS
    p1 = p1  p2 = p2
    Bounded = 1
    PhaseRows = 1
    Partitions = {p1, p2}
    Probed = p1
    TopicRows = 1
    Known <- BothKnown
    JobModes = {FALSE}
    Capacity = 1
    MaxEpoch = 1
    MaxFaults = 0
INVARIANT PhaseIsWritten
