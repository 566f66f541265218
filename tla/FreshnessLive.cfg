SPECIFICATION LiveSpec
CONSTANTS
  r1 = r1
  r2 = r2
  Readers <- TwoReaders
  Bounds <- AllBounds
  StaleReads = TRUE
PROPERTY EventuallyServesHead
CHECK_DEADLOCK FALSE
