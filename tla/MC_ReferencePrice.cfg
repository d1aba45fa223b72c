CONSTANTS
  SLOTS = 5
  WINDOW_DAYS = 4
  Deals = {"a", "b"}
  PricePerTick <- Prices
  FirstDay = 20000
  MaxDay = 20006
  MaxServed <- Volumes
SPECIFICATION Spec
CHECK_DEADLOCK FALSE
INVARIANTS CountedOnce WindowExact MedianSplits
