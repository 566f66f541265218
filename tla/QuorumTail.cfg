SPECIFICATION Spec
CONSTANTS
  a1 = a1
  a2 = a2
  a3 = a3
  Acceptors <- ThreeAcceptors
  MaxServers = 2
  QUORUM = 2
  Bounds <- AllBounds
  MaxBatch = 2
  ReadChunk = 1
  MaxPeerLag = 1
  RefreshSlack = 0
SYMMETRY Symmetry
INVARIANTS TermOwned Agreement CommittedHeld LeaderComplete WatermarkRetained SequenceOrdered
CHECK_DEADLOCK FALSE
