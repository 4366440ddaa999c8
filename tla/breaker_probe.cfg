SPECIFICATION ChainSpec
CONSTANTS
  Calls = {c1, c2}
  Configs <- MCConfigs
  MaxConcurrent = 2
  Placements = {TRUE}
INVARIANT EverySlotRecorded
