SPECIFICATION FairSpec
CONSTANTS
    Threads = {t1, t2, t3, t4, t5}
    Half = 4
INVARIANTS
    MutualExclusion
    ByteCountsWaiters
PROPERTIES
    WaitersNotForgotten
