SPECIFICATION Spec
CONSTANTS
  Bounds <- OnlyPowerCut
  Servers = {1, 2}
  Stmts = {1, 2, 3, 4}
  Identities = {1, 2, 3}
CHECK_DEADLOCK FALSE
INVARIANT AckedKept
