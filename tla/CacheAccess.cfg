SPECIFICATION MCSpec
CONSTANTS
    Keys = {1, 4, 7}
    NodeTotal = 3
    BucketSize = 3
    ChunkTotal = 3
    ChunkSize = 2
    ModBase = 2
    Values <- MCValues
INVARIANTS
    NodesPartitioned
    ChunksPartitioned
    CompletePoolVerifies
    SetRefusesOnlyWhatDoesNotFit
    IterationVisitsAllOnce
    BulkMarkCleanCompletes
    DumpKeepsDirtyData
PROPERTIES
    ImplementsStore
