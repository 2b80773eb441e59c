SPECIFICATION Spec
CONSTANTS
    MaxLogNum = 3
    MaxLogSize = 4
    MaxItem = 2
    Payloads <- MCPayloads
    MaxTime = 3
    MaxWrites = 4
    None = none
INVARIANTS
    ReplayIsExact
PROPERTIES
    OnlyTheLastFileGoes
