SPECIFICATION Spec
CONSTANTS
  Producers = {p1}
  Builders = {b1}
  Widths <- TwoWidths
  Payloads <- OnePrice
  Faults = {"expire"}
  MaxEvents = 2
  MaxTime = 0
  MaxStarts = 1
  MaxDeliveries = 2
  None = None
INVARIANT BarsCatchUp
CHECK_DEADLOCK FALSE
