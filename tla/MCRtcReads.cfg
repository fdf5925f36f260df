CONSTANTS
  Process = {p1, p2}
  FdPerProc = 3
  BaseRate = 4
  KillAnywhere = FALSE
  Null = Null
SPECIFICATION FairSpec
PROPERTY ReadEnds
