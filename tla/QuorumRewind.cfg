SPECIFICATION Spec
CONSTANTS
  a1 = a1
  a2 = a2
  a3 = a3
  Acceptors <- ThreeAcceptors
  MaxServers = 1
  QUORUM = 2
  Bounds <- OnlyRecommit
  MaxBatch = 1
  ReadChunk = 1
  MaxPeerLag = 1
  RefreshSlack = 0
SYMMETRY Symmetry
INVARIANT NeverRewound
CHECK_DEADLOCK FALSE
