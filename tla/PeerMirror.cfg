SPECIFICATION Spec
CONSTANTS
    k1 = k1
    k2 = k2
    Keys <- TwoKeys
    Clients = {1, 2, 3}
    Bounds <- AllBounds
    MAX_COMMIT_ATTEMPTS = 2
    EventCapacity = 2
INVARIANTS
    UnionReadsSerial
    NothingClobbered
    PeerReadsSerial
    NoPhantomMirrored
    StreamKeepsMirror
CHECK_DEADLOCK FALSE
