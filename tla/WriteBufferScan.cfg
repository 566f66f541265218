SPECIFICATION Spec
CONSTANTS
  s1 = s1
  s2 = s2
  Stmts <- TwoStmts
  Faults = {"crash", "power_loss", "old_frame", "buried", "sync_fails", "ghost_frame", "tail_io", "load_fails", "boot_load_fails", "response_lost", "reload_fails", "late_post", "foreign", "prop_drop", "outage"}
  MaxFaults = 2
  MaxScans = 2
  MaxAttempts = 2
SYMMETRY Symmetry
INVARIANTS UnionReadNoDuplicate UnionReadComplete
