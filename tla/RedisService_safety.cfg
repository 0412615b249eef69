SPECIFICATION Spec
CONSTANTS
  JobId = {j1, j2}
  Client = {c1}
  NoJob = NoJob
  Retention = 1
  CleanupInterval = 1
  MaxTime = 2
  MaxStops = 1
  MaxRaises = 1
SYMMETRY Symmetry
INVARIANTS
  TypeOK
  ListedArePending
  RunAtMostOnce
  RunsAsSubmitted
  LostOnlyByFaults
