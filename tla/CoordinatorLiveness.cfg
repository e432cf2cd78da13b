SPECIFICATION FairSpec
CONSTANTS
    s1 = s1  s2 = s2  c1 = c1  c2 = c2
    Sinks = {s1}
    Sources = {c1}
    Feeds <- OneBranch
    MaxEpoch = 3
PROPERTIES EpochsAreFresh ProducerNotWedged StopJoins TerminalCompletes
