\* Four weeks of a minute, one tick a week; the last claim may mature after the
\* last week.
CONSTANTS
  Buyers = {b1}
  PricePerTick = 60
  MaxTicks = 4
  TickSize = 1
  Minute = 2
  ProbeWindow = 1
  DisputeWindow = 1
  MatchOpenTimeout = 2
  SubWeekLen = 2
  SubscriptionDeals = {TRUE}
  HandoverTicks = {4}
  BondAmounts = {120}
  WithdrawAmounts = {}
  MaxMatches = 1
  MaxTime = 12
  LastProbe = 2
  Skews = {0, 1}
  MaxFaults = 1
SPECIFICATION KeeperFairSpec
INVARIANT StatesAccepted
PROPERTIES FailsForCause KeptToTheEnd
CHECK_DEADLOCK FALSE
