CONSTANTS
  Process = {p1, p2}
  FdPerProc = 4
  BaseRate = 2
  KillAnywhere = FALSE
  Null = Null
SPECIFICATION Spec
INVARIANTS
  LinksMirror
  ListIsOpenRtc
SYMMETRY Sym
