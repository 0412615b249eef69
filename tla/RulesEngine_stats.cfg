SPECIFICATION Spec
CONSTANTS
  Torrent = {a, b}
  a = a
  b = b
  c = c
  Record <- Records
  episode1 = episode1
  episode2 = episode2
  film = film
  DownloadOf <- PackAndFilm
  ArrQueues <- OneQueue
  PageSize = 2
  kept = kept
  Tag = {kept}
  done = done
  Category = {}
  NoCategory = NoCategory
  Programs <- DeletingPrograms
  Fleets <- AnyFleet
  Scopes <- AllOrOne
  NamedPaused = {"paused"}
  MaxMishaps = 0
  NoTorrent = NoTorrent
INVARIANT
  StatsFollowTheFleet
CHECK_DEADLOCK FALSE
