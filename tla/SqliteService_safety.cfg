SPECIFICATION Spec
CONSTANTS
  JobId = {j1, j2}
  Client = {c1, c2}
  NoJob = NoJob
  MaxLockWait = 1
  Retention = 1
  CleanupInterval = 1
  MaxTime = 3
  MaxStops = 1
  MaxRaises = 1
SYMMETRY Symmetry
INVARIANTS
  QueueIsPending
  WorkerOwnsItsJob
  RunAtMostOnce
  CancelHonoured
  StrandedOnlyByFaults
PROPERTIES
  ImplementsJobQueue
