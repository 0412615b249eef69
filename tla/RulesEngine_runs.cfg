SPECIFICATION FairSpec
CONSTANTS
  Torrent = {a, b, c}
  a = a
  b = b
  c = c
  Record <- Records
  episode1 = episode1
  episode2 = episode2
  film = film
  DownloadOf <- PackAndFilm
  ArrQueues <- OneQueue
  PageSize = 2
  kept = kept
  Tag = {kept}
  done = done
  Category = {done}
  NoCategory = NoCategory
  Programs <- TypicalPrograms
  Fleets <- AnyBesidePlain
  Scopes <- AllOrOne
  NamedPaused = {"paused"}
  MaxMishaps = 1
  NoTorrent = NoTorrent
INVARIANTS
  TypeOK
  StatsFollowTheFleet
PROPERTIES
  QuotaHolds
  LeavesAlone
  SuccessMeansDesiredState
  ReplacesEveryRecord
  RunEnds
CHECK_DEADLOCK FALSE
