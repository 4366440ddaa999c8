\* One replica that may be closed, one row.
SPECIFICATION Spec
CONSTANTS
  h2 = h2
  order = order
  NoOne = NoOne
  Replicas = {r1}
  Handlers = {h1}
  Kinds = {order}
  Pattern <- MCPattern
  Selected = {order}
  BatchSize = 1
  MaxEvents = 1
  MaxFaults = 1
INVARIANT AtLeastOnce
CHECK_DEADLOCK FALSE
