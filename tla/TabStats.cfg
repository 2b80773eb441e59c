SPECIFICATION Spec
CONSTANTS
    Half = 4
    MaxTables = 2
    Thresholds <- MCThresholds
    DBL_MAX = 9
    Types = {1, 2}
    Statements <- MCStatements
    Connections <- MCConnections
    NodeTotal = 2
    MaxEvents = 3
INVARIANTS
    InsStatsDescribeSamples
    TabDumpDescribesSamples
    FillsBuffer
