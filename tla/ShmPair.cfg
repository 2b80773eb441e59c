SPECIFICATION FairSpec
CONSTANTS
    Shm1 = shm1
    Shm2 = shm2
    Writers = {w1, t1}
    EarlyWriters = {w1}
    Keys = {k1}
    NodeTotal = 1
    MaxCount = 2
    MaxLeftover = 1
    Switcher = switcher
    Free = free
    None = none
INVARIANTS
    MutualExclusion
    NoLostUpdate
    PromptAddsAreSafe
    UnwarnedReadIsStandby
PROPERTIES
    CurrentOnlyGrows
    HeldLockReleased
