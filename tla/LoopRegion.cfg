SPECIFICATION FairSpec
CONSTANTS
  s = s
  o = o
  a = a
  b = b
  Nodes = {s, o, a, b}
  MaxIter = 3
  Interactive = {}
  LapNodes = {}
  End = End
  Wiring <- MCWiring
  Verdicts <- MCVerdicts
  Members = {a, b}
  Entry = a
  Declared = 2
  CostCap = 0
  Charged = {b}
  Launch = Launch
  Operator = Operator
  None = None
  Commands <- MCCommands
  MaxCommands = 2
  Prompt = TRUE
INVARIANTS TypeOK LapsWithinCap RunEndsWhole
PROPERTIES WholeLaps ClosedForGood EveryRunEnds RaisedCapResumes
