SPECIFICATION FairSpec
CONSTANTS
  a = a
  b = b
  Nodes = {a, b}
  MaxIter = 1
  Interactive = {}
  LapNodes = {}
  Wirings <- MCWirings
  Flaky = {b}
  Asking = {a}
  Operator = Operator
  NoNode = NoNode
  MaxCrashes = 1
  MaxGestures = 1
PROPERTY SparesWork
PROPERTY NoGhost
PROPERTY NoLeak
PROPERTY NoSilentStall
