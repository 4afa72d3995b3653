SPECIFICATION FairSpec
CONSTANTS
  Instruments = {i1}
  Rounds = {r1, r2, r3}
  Connections = {c1}
  Capacity = 2
  CacheTTL = 1
  MaxTime = 1
  None = None
INVARIANTS
  TypeOK
  AnnouncedOnce
  NothingSkipped
  HeardOrSuperseded
  ShowsLatest
PROPERTY UpdatesArrive
