\* Four weeks of one or two ticks; the last claim may mature after the last week.
CONSTANTS
  Buyers = {b1}
  PricePerTick = 40
  MaxTicks = 8
  TickSize = 1
  Minute = 2
  ProbeWindow = 1
  DisputeWindow = 1
  MatchOpenTimeout = 2
  SubWeekLen = 2
  SubscriptionDeals = {TRUE}
  HandoverTicks = {4, 8}
  BondAmounts = {80}
  WithdrawAmounts = {140}
  MaxMatches = 1
  MaxTime = 11
SPECIFICATION FairSpec
INVARIANTS
  OnlyEndedWeeksCharged
  CancelRefundsUnstartedWeeks
  SubscriptionDisputeNotCheaper
PROPERTIES
  DisputeFreezes
  DisputeEnds
  NoShowUnwound
  TermEnds
CHECK_DEADLOCK FALSE
