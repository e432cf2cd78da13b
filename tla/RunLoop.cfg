SPECIFICATION FairSpec
CONSTANTS
    p1 = p1  p2 = p2  b1 = b1
    Branches = {p1, b1}
    Plugins = {p1}
    Order <- OnePlugin
    MaxBatches = 1
    Capacity = 1
    Scopes = 2
    Configs <- ThreeConfigs
    DrainBudget = 2
    FlushCap = 1
    SendMin = 1
    SendMax = 2
    Grace = 1
    Margin = 2
INVARIANTS ExitZeroIsFlushed CommittedIsStored NotKilledInTeardown
PROPERTIES FailureEnds
