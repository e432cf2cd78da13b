SPECIFICATION FairSpec
CONSTANTS
    p1 = p1  p2 = p2
    Bounded = 1
    PhaseRows = 2
    Partitions = {p1, p2}
    Probed = p1
    TopicRows = 1
    Known <- BothKnown
    JobModes = {FALSE, TRUE}
    Capacity = 1
    MaxEpoch = 1
    MaxFaults = 1
INVARIANTS UnboundedIsSeeded PhasesAreRun
PROPERTY MarkersArrive
