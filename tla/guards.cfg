\* Three calls through a chain with two permits; three loops of one job, two of
\* them on one instance, and one fault.
CONSTANTS
  Calls = {c1, c2, c3}
  Configs <- MCConfigs
  MaxConcurrent = 2
  Placements = {FALSE, TRUE}
  i1 = i1
  i2 = i2
  l1 = l1
  l2 = l2
  l3 = l3
  Instances = {i1, i2}
  Loops = {l1, l2, l3}
  Home <- MCHome
  Backends = {"redis", "postgres", "inprocess"}
  Nobody = Nobody
  MaxFaults = 1
SPECIFICATION GuardsSpec
INVARIANTS
  ChainTypeOK TripsAtThreshold SlotsAreHeld
  SchedulerTypeOK OverlapNeedsLapse
PROPERTIES
  PhasesEnd RobbedAtHome NeverWedged StopEnds
CHECK_DEADLOCK FALSE
