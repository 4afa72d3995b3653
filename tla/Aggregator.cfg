SPECIFICATION Spec
CONSTANTS
  Venues = 3
  MaxPrice = 3
  MaxAge = 2
INVARIANTS
  BookWithinVenues
  ArbitrageIsTheCross
  ArbitrageLargest
CHECK_DEADLOCK FALSE
