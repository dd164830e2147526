SPECIFICATION FairSpec
CONSTANTS
  a = a
  b = b
  c = c
  r1 = r1
  r2 = r2
  Runs = {r1, r2}
  Nodes = {a, c}
  RunOf <- MCRunOf
  Cap = 1
  Pauses = {r1, r2}
  Reopens = {}
  Cleanups = {r1}
  Faulty = {c}
  NoTask = NoTask
CHECK_DEADLOCK FALSE
INVARIANTS SlotsWithinCap CountToReserveIsExclusive
PROPERTIES PoolSpec FreedSlotIsOffered LaunchConcludes
