SPECIFICATION FairSpec
CONSTANTS
  Producers = {p1, p2}
  Builders = {b1, b2}
  Widths <- TwoWidths
  Payloads <- PricesOrJunk
  Faults = {"stop", "expire"}
  MaxEvents = 2
  MaxTime = 1
  MaxStarts = 3
  MaxDeliveries = 2
  None = None
INVARIANTS
  ExactlyOnce
  OpenCloseInTime
PROPERTY EventuallyInBars
CHECK_DEADLOCK FALSE
