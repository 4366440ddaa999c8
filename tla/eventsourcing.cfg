\* Two writers, two aggregates of which one is the tenant's, two projections; an
\* outbox with two starts, two records and two attempts.
CONSTANTS
  Aggregates = {a1, a2}
  Writers = {w1, w2}
  None = None
  SnapshotInterval = 2
  Reload = TRUE
  MaxEvents = 4
  MaxPending = 2
  MaxFaults = 1
  NumProjections = 2
  Tenant = {a1}
  BatchSize = 2
  MaxStarts = 2
  MaxRecords = 2
  MaxAttempts = 2
SPECIFICATION MCSpec
INVARIANTS
  ProjTypeOK SnapshotFaithful NoProjectionGap
  OutboxTypeOK OneRelay
PROPERTIES
  ImplementsEventLog CatchesUp
  SettledIsFinal RecordsSettle StopReturns
CHECK_DEADLOCK FALSE
