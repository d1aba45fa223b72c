SPECIFICATION FairSpec
CONSTANTS
  r1 = r1
  Requests = {r1, r2}
  r2 = r2
  TICK_SIZE = 2
  Funded = 6
  SubWeeks = 0
  TokensPerWeek = 6
  CAPACITY_PERSIST_TOKEN_INTERVAL = 2
  Asked = {2, 6}
  Counts = {1, 2}
  Probed = FALSE
  LateClaims = TRUE
  MaxRequests = 2
  MaxCrashes = 1
  MaxFaults = 1
CHECK_DEADLOCK FALSE
PROPERTY DeliveryClaimed
INVARIANT BilledWithinCap
