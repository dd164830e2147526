SPECIFICATION HistorySpec
CONSTANTS
  root = root
  a = a
  b = b
  worker = worker
  nobody = nobody
  Nodes = {worker}
  Worker = worker
  MaxIter = 1
  Interactive = {}
  LapNodes = {}
  Root = root
  NoRun = nobody
  Family = {root, a, b}
  Parents = {root, a}
  Failing = {b}
  AutoFail = {b}
  Undelivered = {}
  Unreadable = {b}
  Gestures = {"reopen", "cleanup"}
  MaxGestures = 2
  MaxWatchers = 0
  MaxCrashes = 0
CHECK_DEADLOCK FALSE
PROPERTIES NoOrphan SubtreeFirst
