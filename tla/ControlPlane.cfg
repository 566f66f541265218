SPECIFICATION Spec
CONSTANTS
    Instances = {1, 2}
    LeaseAcceptors = {1, 2, 3}
    QUORUM = 2
    Bounds <- AllBounds
    Clients = {1, 2}
    Pids = {1, 2}
    RESTART_MAX_ATTEMPTS = 1
    HEALTH_MAX_FAILS = 2
CHECK_DEADLOCK FALSE
INVARIANTS
    OneCompute
    ComputesSupervised
    OverlapBounded
PROPERTIES
    TakeoverOnlyWhenLapsed
    ScalesToZero
    WedgedReplaced
