SPECIFICATION FairSpec
CONSTANTS
    MaxKey = 3
    PageSize = 2
    MaxPageBytes = 8
    GrowCeiling = 4
    Tables <- AllTables
    Bytes <- PageBytes
    SortKeyRange = 2
    MinSortKeyRange = 1
    ChunkSize = 1
    Capacity = 1
    MaxEpoch = 1
    Faults <- FaultKinds
    MaxFaults = 2
INVARIANTS ScanTiles SavedIsEmitted
PROPERTIES ScanEnds BufferedMarkerArrives
