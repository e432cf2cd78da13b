SPECIFICATION FairSpec
CONSTANTS
    Sinks = {s1, s2}
    Output = out
    MayStick = {s1}
    Capacity = 1
    MaxBatches = 3
    Partitions = {i1, i2}
    Outputs = {1, 2}
    ChannelSize = 1
    MaxEpochs = 1
    MaxReads = 2
    BatchKinds <- Kinds
INVARIANTS NoGap PlanJoinsWriters RoutedIsWritten
PROPERTIES ShutdownDrains ExchangeDrains
