SPECIFICATION Spec
CONSTANTS
    t1 = t1
    t2 = t2
    k1 = k1
    k2 = k2
    TableOrder <- TwoTables
    Jobs = {1, 2, 3, 4}
    Keys = {k1, k2}
    Bounds <- AllBounds
    MAX_COMMIT_ATTEMPTS = 2
    KeepLast = 1
    TargetRows = 2
    MinInputFiles = 2
INVARIANTS
    PrimaryKeyHolds
    SerialHistory
    CommitsWhatItShowed
    ConsistentCut
    LiveFilesExist
    CommitTellsOutcome
PROPERTIES
    RefsOnlyAdvance
    ExpiryStrandsNoListedRef
CHECK_DEADLOCK FALSE
