SPECIFICATION OutboxFairSpec
CONSTANTS
  MaxStarts = 2
  MaxRecords = 1
  MaxAttempts = 2
PROPERTY
  RestartRelays
CHECK_DEADLOCK FALSE
