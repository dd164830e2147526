SPECIFICATION Spec
CONSTANTS
  root = root
  a = a
  b = b
  worker = worker
  nobody = nobody
  Nodes = {worker}
  Worker = worker
  MaxIter = 1
  Interactive = {}
  LapNodes = {}
  Root = root
  NoRun = nobody
  Family = {root, a}
  Parents = {root}
  Failing = {root, a}
  AutoFail = {a}
  Undelivered = {root}
  Unreadable = {root, a}
  Gestures = {"done", "restart", "pause", "resume", "reopen", "cleanup", "forget"}
  MaxGestures = 2
  MaxWatchers = 1
  MaxCrashes = 1
CHECK_DEADLOCK FALSE
INVARIANT ForgottenStaysGone
