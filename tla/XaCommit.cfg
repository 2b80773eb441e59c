SPECIFICATION FairSpec
CONSTANTS
    Trx = {t1, t2}
    Admin = Admin
    None = None
    max_size = 1
    sync_binlog_period = 1
    MaxCrash = 2
    MaxLogs = 3
INVARIANTS
    LogAndEngineAgree
    SameOrder
    LastLogIsEnough
PROPERTIES
    ImplementsTrxOutcome
    CommitsComeToAnEnd
