\* An ordinary deal of up to three ticks, claimed in half ticks or whole ones.
CONSTANTS
  Buyers = {b1}
  PricePerTick = 60
  MaxTicks = 3
  TickSize = 2
  Minute = 2
  ProbeWindow = 2
  DisputeWindow = 3
  MatchOpenTimeout = 3
  SubWeekLen = 4
  SubscriptionDeals = {FALSE}
  HandoverTicks = {1, 3, 4}
  BondAmounts = {1, 120, 125}
  WithdrawAmounts = {60}
  MaxMatches = 1
  MaxTime = 12
SPECIFICATION Spec
INVARIANTS
  TypeOK
  Solvent
  Conserved
  ClaimsWithinRealTime
  SellerEarnsOnlyTrusted
  ConcedingIsCheaper
PROPERTIES
  TrustIsEarned
  KeepsPromise
CHECK_DEADLOCK FALSE
