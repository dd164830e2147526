SPECIFICATION Spec
CONSTANTS
  c = c
  h = h
  p = p
  g = g
  Start = Start
  End = End
  Launch = Launch
  Resume = Resume
  Nodes = {c, h, p, g}
  Edges <- ClassifierEdges
  Conditional <- ClassifierGuards
  Halting <- ClassifierHalts
  Required <- ClassifierInputs
  Resumable = {"paused", "halted"}
CHECK_DEADLOCK FALSE
INVARIANT TypeOK
INVARIANT NothingReadyIsLeft
INVARIANT CompletedMeansDone
PROPERTY StartsAreFed
PROPERTY SkipsDropNothing
