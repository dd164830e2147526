SPECIFICATION HistoryFairSpec
CONSTANTS
  root = root
  a = a
  b = b
  worker = worker
  nobody = nobody
  Nodes = {worker}
  Worker = worker
  MaxIter = 1
  Interactive = {}
  LapNodes = {}
  Root = root
  NoRun = nobody
  Family = {root, a}
  Parents = {root}
  Failing = {a}
  AutoFail = {a}
  Undelivered = {}
  Unreadable = {}
  Gestures = {"restart", "reopen", "cleanup"}
  MaxGestures = 3
  MaxWatchers = 1
  MaxCrashes = 0
CHECK_DEADLOCK FALSE
INVARIANT ParkedIsWatched
PROPERTIES ParkedIsFreed GateHolds
