SPECIFICATION LiveSpec
CONSTANTS
  s1 = s1
  s2 = s2
  Stmts <- TwoStmts
  Faults = {"crash", "power_loss", "old_frame", "buried", "sync_fails", "tail_io", "load_fails", "boot_load_fails", "response_lost", "foreign"}
  MaxFaults = 4
  MaxScans = 0
  MaxAttempts = 2
INVARIANTS TypeOK AppliedAtMostOnce AckedRecoverable FailedExactly
PROPERTIES ImplementsPromise AckedEventuallyApplied
