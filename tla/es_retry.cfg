\* A caller that keeps an aggregate whose save() failed.
CONSTANTS
  Aggregates = {a1}
  Writers = {w1, w2}
  None = None
  SnapshotInterval = 2
  Reload = FALSE
  MaxEvents = 3
  MaxPending = 2
  MaxFaults = 0
SPECIFICATION RepoSpec
INVARIANT BufferedUntilPersisted
CHECK_DEADLOCK FALSE
