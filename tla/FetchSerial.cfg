SPECIFICATION FairSpec
CONSTANTS
  Workers = {w1}
  None = None
  NumClients = 2
  NumInstruments = 1
  Books <- CrossingBooks
  MaxAge = 0
  CacheTTL = 2
  Faults = {}
  AskedWindows = {0, 1, 100000}
  MaxRounds = 2
  MaxTime = 2
INVARIANTS
  CacheIsLatest
  StatsTellTape
  EveryPriceBroadcast
  ArbitragePersisted
PROPERTY EveryRoundTaken
CHECK_DEADLOCK FALSE
