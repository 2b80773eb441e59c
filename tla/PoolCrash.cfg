SPECIFICATION Spec
CONSTANTS
    Keys = {1, 2, 3}
    NodeTotal = 3
    BucketSize = 2
    ChunkTotal = 2
    ChunkSize = 1
    MaxDeaths = 2
    Values = {7}
INVARIANTS
    StoresAreOperations
    AdmittedPoolServes
