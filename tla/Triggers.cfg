SPECIFICATION Spec
CONSTANTS
  a = a
  b = b
  often = often
  p1 = p1
  Triggers = {a, b}
  Crons = {often}
  Pipelines = {p1}
  SlotsOf <- MCSlotsOf
  CronOf <- MCCronOf
  PipelineOf <- MCPipelineOf
  CeilingOf <- MCCeilingOf
  Ceilings = {1}
  Reopened = {a}
  Unreadable = {b}
  Unwritable = {b}
  MaxLive = 2
  Guarded = {a}
  Edited = {b}
  Clicked = {a}
  Fragile = {p1}
  MaxTime = 2
  MaxCrashes = 1
  Tick = Tick
INVARIANT CeilingHolds
PROPERTIES NoBackfill DueIsEvaluated
