CONSTANTS
  NumTerminals = 2
  Boot = Boot
  MemorySize = 12
  Uint = 256
  MaxText = 3
SPECIFICATION FairSpec
INVARIANTS
  HandlersReady
  BoundedStack
  InServiceIsRunning
  FindsByte
  NoRequestLost
  EntriesFit
  LibraryMatches
PROPERTY InterruptsServed
