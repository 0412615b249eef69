SPECIFICATION Spec
CONSTANTS
  JobId = {j1}
  Client = {c1}
  NoJob = NoJob
  Retention = 1
  CleanupInterval = 1
  MaxTime = 2
  MaxStops = 0
  MaxRaises = 0
INVARIANT
  CancelHonoured
