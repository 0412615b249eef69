SPECIFICATION FairSpec
CONSTANTS
  JobId = {j1, j2, j3}
  Client = {}
  NoJob = NoJob
  Retention = 1
  CleanupInterval = 1
  MaxTime = 3
  MaxStops = 1
  MaxRaises = 0
INVARIANTS
  IndexesAreExact
PROPERTIES
  ImplementsJobQueue
  ListedLeaves
