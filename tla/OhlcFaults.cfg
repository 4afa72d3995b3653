SPECIFICATION Spec
CONSTANTS
  Producers = {p1}
  Builders = {b1, b2}
  Widths <- TwoWidths
  Payloads <- TwoPrices
  Faults = {"crash", "db", "expel"}
  MaxEvents = 2
  MaxTime = 1
  MaxStarts = 2
  MaxDeliveries = 3
  None = None
SYMMETRY Symmetry
INVARIANTS
  TypeOK
  BarsTellDeliveries
  CoarserNeverAhead
  LossBounded
PROPERTIES
  CommittedIsFinal
  ImplementsLedger
CHECK_DEADLOCK FALSE
