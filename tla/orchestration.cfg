\* Sagas of up to six steps; every workflow over three nodes, with two signals
\* and two deliveries; two executions under two overlapping recovery passes.
CONSTANTS
  NoGroup = NoGroup
  Sagas <- MCSagas
  Signals = {"s1", "s2"}
  Receivers = {1, 2, 3, 4}
  Workflows <- MCWorkflows
  MaxDeliveries = 2
  Execs = {e1, e2}
  Passes = {p1, p2}
  Skipped = {e2}
  Threshold = 1
  Retention = 1
  MaxFaults = 1
SPECIFICATION OrchestrationSpec
INVARIANTS
  SagaTypeOK DependencyOrder RollbackComplete
  WorkflowTypeOK WaveOrder RollbackExact NothingOutlivesRun NoLostWakeup
  RecoveryTypeOK DoubleOnlyAfterThreshold
PROPERTIES
  InvocationsBounded RunEnds RunReturns TerminalIsFinal StuckIsRepaired
CHECK_DEADLOCK FALSE
