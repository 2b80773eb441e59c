SPECIFICATION Spec
CONSTANTS
    p1 = p1
    p2 = p2
    p3 = p3
    Procs <- MCProcs
    Size <- MCSize
    MaxSegs = 3
    MaxEnds = 3
SYMMETRY Symmetry
INVARIANTS
    SharedAndExclusive
    StuckOnlyAfterEnd
CHECK_DEADLOCK FALSE
