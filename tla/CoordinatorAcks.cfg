SPECIFICATION Spec
CONSTANTS
    s1 = s1  s2 = s2  c1 = c1  c2 = c2
    Sinks = {s1, s2}
    Sources = {c1, c2}
    Feeds <- TwoBranches
    MaxEpoch = 2
INVARIANTS FinalizedIsDurable SingleFinalizer NoLostFinalization TerminalIsLast
