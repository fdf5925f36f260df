CONSTANTS
  NumProcesses = 4
  NumTerminals = 2
  Null = Null
SPECIFICATION Spec
INVARIANTS
  OneRunnerPerTerminal
  ExecuteNesting
  CollectsOwnChild
  ResumesWhereItStopped
  MemoryMapMatches
  NeverStops
