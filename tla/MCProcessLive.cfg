CONSTANTS
  NumProcesses = 3
  NumTerminals = 2
  Null = Null
SPECIFICATION FairSpec
INVARIANT JobStacks
PROPERTIES
  RunnableEventuallyRuns
  ImplementsJobControl
