SPECIFICATION FairServerSpec
CONSTANTS
  JobId = {j1, j2}
  Client = {}
  NoJob = NoJob
  MaxLockWait = 0
  Retention = 0
  CleanupInterval = 1
  MaxTime = 3
  MaxStops = 1
  MaxRaises = 1
  Cron <- TwoEntries
  MaxServerFaults = 1
INVARIANTS
  ServerTypeOK
  FiresAsScheduled
PROPERTIES
  PendingLeavesTheLine
  EveryTickIsGoneThrough
  ComesUpUnlessWedged
