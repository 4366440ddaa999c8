SPECIFICATION Spec
CONSTANTS
  h2 = h2
  order = order
  NoOne = NoOne
  Replicas = {r1, r2}
  Handlers = {h1}
  Kinds = {order, audit}
  Pattern <- MCPattern
  Selected = {order}
  BatchSize = 2
  MaxEvents = 2
  MaxFaults = 0
INVARIANTS AtLeastOnce
CHECK_DEADLOCK FALSE
