CONSTANTS
  Notes = {"buyer", "seller"}
  Deals = {d1, d2, d3}
  MAX_MATCHES_PER_CALL = 2
  MAX_SCAN_PER_CALL = 3
  MAX_CANCEL_PER_CALL = 2
  MAX_PRECHECK_SCAN = 2
  MAX_PRECHECK_LEVELS = 3
  QUEUE_CAPACITY = 3
  QUEUE_PLACE_LIMIT = 2
  PRICE_STEP = 40
  SUB_TICKS_PER_WEEK = 2
  MAX_AMOUNT = 100000
  BuyRequests <- MatchBids
  SellRequests <- MatchAsks
  Seller <- OneSeller
  MaxOrders = 5
  MaxCalls = 0
  MaxTime = 0
SPECIFICATION Spec
CHECK_DEADLOCK FALSE
INVARIANTS BidsCovered BookNotCrossed FokAllOrNothing TermsHonoured
PROPERTY PriceTimePriority
SYMMETRY DealSymmetry
