SPECIFICATION FairSpec
CONSTANTS
  Workers = {w1}
  None = None
  NumClients = 2
  NumInstruments = 2
  Books <- MixedBooks
  MaxAge = 0
  CacheTTL = 2
  Faults = {"db", "redis", "crash"}
  AskedWindows = {1}
  MaxRounds = 1
  MaxTime = 1
INVARIANTS
  BackedByRows
  ArbitrageReproducible
  TapeNeverGaps
  QuotesOfferedOnce
  RowsSound
PROPERTY RoundsEnd
CHECK_DEADLOCK FALSE
