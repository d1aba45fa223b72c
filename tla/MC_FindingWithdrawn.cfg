CONSTANTS
  Notes = {"buyer", "seller"}
  Deals = {d1}
  MAX_MATCHES_PER_CALL = 1
  MAX_SCAN_PER_CALL = 1
  MAX_CANCEL_PER_CALL = 1
  MAX_PRECHECK_SCAN = 3
  MAX_PRECHECK_LEVELS = 3
  QUEUE_CAPACITY = 2
  QUEUE_PLACE_LIMIT = 1
  PRICE_STEP = 40
  SUB_TICKS_PER_WEEK = 2
  MAX_AMOUNT = 100000
  Seller <- OneSeller
  Funds <- SmallFunds
  BuyRequests <- Bids
  Ask <- SmallAsk
  CancelIds = {1, 2}
  Plans <- LeavingOnly
SPECIFICATION Spec
CHECK_DEADLOCK FALSE
INVARIANT WithdrawnStaysEmpty
