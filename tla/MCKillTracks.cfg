CONSTANTS
  Process = {p1, p2}
  FdPerProc = 3
  BaseRate = 4
  KillAnywhere = TRUE
  Null = Null
SPECIFICATION Spec
INVARIANT ListTracksOpen
CHECK_DEADLOCK FALSE
