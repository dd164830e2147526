SPECIFICATION TerminalSpec
CONSTANTS
  p = p
  q = q
  r = r
  Conns = {1, 2, 3}
  Postes = {p, q, r}
  Assignments <- MCAssignments
  Resizers = {1, 3}
  Sizes = {80, 120}
  InitialSize = 80
  Slow = {2, 3}
  NoPoste = NoPoste
INVARIANTS RolesAgree FlagInSync
PROPERTIES HandIsTaken FlagCatchesUp
