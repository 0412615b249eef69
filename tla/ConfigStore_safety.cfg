SPECIFICATION FairSpec
CONSTANTS
  Client = {c1, c2}
  Text = {empty, t1}
  Empty = empty
  Missing = Missing
  Half = Half
  Nobody = Nobody
  None = None
  Keep = 2
  MaxSaves = 2
  MaxReads = 1
  MaxEdits = 1
  MaxFaults = 1
INVARIANTS
  TypeOK
  TornFileHasABackup
  AnsweredEtagIsOfTheText
PROPERTIES
  OverwritesOnlyWhatItShowed
  SaveEnds
