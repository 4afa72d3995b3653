SPECIFICATION Spec
CONSTANTS
  Workers = {w1}
  None = None
  NumClients = 2
  NumInstruments = 1
  Books <- CrossingBooks
  MaxAge = 0
  CacheTTL = 2
  Faults = {"redis"}
  AskedWindows = {1}
  MaxRounds = 1
  MaxTime = 1
INVARIANT ArbitragePersisted
CHECK_DEADLOCK FALSE
