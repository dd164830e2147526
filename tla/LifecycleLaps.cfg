SPECIFICATION Spec
CONSTANTS
  a = a
  b = b
  Nodes = {a}
  MaxIter = 3
  Interactive = {a}
  LapNodes = {}
  Regions = {a}
  Routed = {}
  LatestOnly = TRUE
  Overtaken = {}
  Downstream <- MCDownstream
INVARIANT OneLiveIteration
INVARIANT BusyNodeOwnsLatestRow
INVARIANT LiveRowKeepsNode
PROPERTY SettledSticks
