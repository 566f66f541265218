SPECIFICATION ReuseSpec
CONSTANTS
  r1 = r1
  r2 = r2
  Readers <- TwoReaders
  Bounds <- AllBounds
  StaleReads = TRUE
SYMMETRY Symmetry
INVARIANTS FreshMeansLoaded ReadYourWritesUnlessRaced ReusedNotOlder
CHECK_DEADLOCK FALSE
