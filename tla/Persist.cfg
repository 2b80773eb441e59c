SPECIFICATION Spec
CONSTANTS
    Keys = {k1, k2}
    Values = {v1, v2}
    MaxLogNum = 3
    MaxLogSize = 1
    Setups <- MCSetups
    None = none
    Broken = broken
SYMMETRY Symmetry
PROPERTIES
    RecoveryLosesNothing
    RecoveryInventsNothing
