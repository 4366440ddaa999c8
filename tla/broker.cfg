SPECIFICATION FairSpec
CONSTANTS
  h2 = h2
  order = order
  NoOne = NoOne
  Replicas = {r1, r2}
  Handlers = {h2}
  Kinds = {order}
  Pattern <- MCPattern
  Selected = {order}
  BatchSize = 2
  MaxEvents = 2
  MaxFaults = 1
INVARIANTS TypeOK NoSilentSkip OrderedFirstDelivery SingleDrainer DuplicateOnlyAfterFault
PROPERTIES NeverStuck
CHECK_DEADLOCK FALSE
