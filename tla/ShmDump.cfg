SPECIFICATION DumpSpec
CONSTANTS
    Shm1 = s1
    Shm2 = s2
    Writers = {w1}
    EarlyWriters = {}
    Keys = {k1, k2}
    NodeTotal = 2
    MaxCount = 1
    MaxLeftover = 0
    Switcher = switcher
    Free = free
    None = none
SYMMETRY Symmetry
INVARIANTS
    PromptDumpIsOfStandby
    QuietDumpIsExact
