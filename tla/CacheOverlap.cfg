SPECIFICATION Spec
CONSTANTS
  Workers = {w1, w2}
  None = None
  NumClients = 1
  NumInstruments = 1
  Books <- OneBook
  MaxAge = 0
  CacheTTL = 2
  Faults = {}
  AskedWindows = {1}
  MaxRounds = 2
  MaxTime = 1
INVARIANT CacheIsLatest
CHECK_DEADLOCK FALSE
