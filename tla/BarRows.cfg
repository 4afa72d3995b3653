SPECIFICATION FairSpec
CONSTANTS
  Builders = {b1, b2}
  Admin = admin
  None = None
  Prices = {1, 2}
  MaxIds = 2
  MaxEvents = 3
  MaxRounds = 2
  MaxFailures = 1
INVARIANTS
  TypeOK
  NoOrphans
PROPERTIES
  ImplementsLedger
  WaitsEnd
CHECK_DEADLOCK FALSE
