SPECIFICATION FairSpec
CONSTANTS
    Workers = {w1, w2}
    Conns = {c1, c2}
    None = None
    thread_cache_size = 1
    max_connections = 1
    UintRange = 8
    MaxFlush = 1
INVARIANTS
    QueuedHaveThreads
    CountersAgree
    NoAdderAtCleanUp
PROPERTIES
    QueuedIsServed
    ShutdownCompletes
