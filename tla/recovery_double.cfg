\* One execution and two overlapping passes.
SPECIFICATION RecoverySpec
CONSTANTS
  Execs = {e1}
  Passes = {p1, p2}
  Skipped = {}
  Threshold = 1
  Retention = 1
  MaxFaults = 0
INVARIANT NeverDoubleExecuted
