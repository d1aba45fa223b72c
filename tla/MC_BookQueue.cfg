CONSTANTS
  Notes = {"buyer", "seller"}
  Deals = {d1, d2}
  MAX_MATCHES_PER_CALL = 1
  MAX_SCAN_PER_CALL = 2
  MAX_CANCEL_PER_CALL = 1
  MAX_PRECHECK_SCAN = 3
  MAX_PRECHECK_LEVELS = 3
  QUEUE_CAPACITY = 3
  QUEUE_PLACE_LIMIT = 2
  PRICE_STEP = 40
  SUB_TICKS_PER_WEEK = 2
  MAX_AMOUNT = 100000
  BuyRequests <- QueueBids
  SellRequests <- QueueAsks
  Seller <- OneSeller
  MaxOrders = 4
  MaxCalls = 2
  MaxTime = 1
SPECIFICATION Spec
CHECK_DEADLOCK FALSE
INVARIANTS EscrowAccounted
SYMMETRY DealSymmetry
