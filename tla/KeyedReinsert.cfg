SPECIFICATION Spec
CONSTANTS
    k1 = k1
    k2 = k2
    Keys <- TwoKeys
    Clients = {1, 2, 3}
    Bounds <- OnlyReinserted
    MAX_COMMIT_ATTEMPTS = 2
    EventCapacity = 2
INVARIANT ReinsertSurvives
CHECK_DEADLOCK FALSE
