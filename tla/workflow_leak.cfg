\* Every graph over three nodes, one of them fire-and-forget; no signals.
SPECIFICATION WorkflowSpec
CONSTANTS
  Signals = {"s1", "s2"}
  Receivers = {1, 2, 3, 4}
  Workflows <- MCWorkflows
  MaxDeliveries = 0
INVARIANT AwaitsAllTasks
CHECK_DEADLOCK FALSE
