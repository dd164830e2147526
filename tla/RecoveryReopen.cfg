SPECIFICATION Spec
CONSTANTS
  a = a
  b = b
  Nodes = {a, b}
  MaxIter = 1
  Interactive = {}
  LapNodes = {}
  Wirings <- MCWirings
  Flaky = {b}
  Asking = {}
  Operator = Operator
  NoNode = NoNode
  MaxCrashes = 0
  MaxGestures = 1
PROPERTY ReopenRedrives
