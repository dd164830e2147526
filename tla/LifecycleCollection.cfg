SPECIFICATION Spec
CONSTANTS
  a = a
  b = b
  Nodes = {a}
  MaxIter = 2
  Interactive = {}
  LapNodes = {a}
  Regions = {}
  Routed = {}
  LatestOnly = FALSE
  Overtaken = {a}
  Downstream <- MCDownstream
PROPERTY SettledLapsStick
PROPERTY StartsOnlyInOpenRuns
