SPECIFICATION Spec
CONSTANTS
  Workers = {w1, w2}
  None = None
  NumClients = 2
  NumInstruments = 1
  Books <- GlitchBook
  MaxAge = 0
  CacheTTL = 2
  Faults = {"crash"}
  AskedWindows = {1}
  MaxRounds = 2
  MaxTime = 1
SYMMETRY Symmetry
INVARIANTS
  TypeOK
  TapeReproducible
  OncePerRound
  RoundsConsistent
  OrderedUnlessOverlapping
PROPERTY ImplementsTape
CHECK_DEADLOCK FALSE
