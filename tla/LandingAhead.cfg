SPECIFICATION SinksSpec
CONSTANTS
    a = a
    b = b
    c = c
    Inputs <- ThreeStreams
    MaxEpoch = 2
    Writers = {"w1", "w2"}
    WriterOf <- ByParity
    Exchanged = TRUE
    MaxRow = 2
    MaxBatch = 2
    MaxQueue = 1
    MaxTag = 2
    MaxLife = 2
INVARIANT CountedOnceUnlessOvertaken
