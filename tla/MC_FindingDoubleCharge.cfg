\* Expected to fail: TimeoutChargesClaimsOnce.
CONSTANTS
  Buyers = {b1}
  PricePerTick = 60
  MaxTicks = 3
  TickSize = 2
  Minute = 2
  ProbeWindow = 2
  DisputeWindow = 3
  MatchOpenTimeout = 3
  SubWeekLen = 4
  SubscriptionDeals = {FALSE}
  HandoverTicks = {1, 3}
  BondAmounts = {120}
  WithdrawAmounts = {60}
  MaxMatches = 1
  MaxTime = 12
SPECIFICATION Spec
INVARIANTS
  TimeoutChargesClaimsOnce
CHECK_DEADLOCK FALSE
