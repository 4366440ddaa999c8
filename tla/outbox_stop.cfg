\* Two starts and no records.
SPECIFICATION OutboxFairSpec
CONSTANTS
  MaxStarts = 2
  MaxRecords = 0
  MaxAttempts = 1
PROPERTY
  StopNeverMissed
CHECK_DEADLOCK FALSE
