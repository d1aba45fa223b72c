SPECIFICATION Spec
CONSTANTS
  r1 = r1
  r2 = r2
  Requests = {r1, r2}
  TICK_SIZE = 2
  Funded = 8
  SubWeeks = 2
  TokensPerWeek = 4
  CAPACITY_PERSIST_TOKEN_INTERVAL = 2
  Asked = {2, 6}
  Counts = {1, 2}
  Probed = TRUE
  LateClaims = FALSE
  MaxRequests = 2
  MaxCrashes = 1
  MaxFaults = 0
SYMMETRY RequestSymmetry
INVARIANT ReservationsCovered
INVARIANT BilledWithinCap
INVARIANT ClaimsDelivered
INVARIANT RestartAccepted
INVARIANT EveryTerminalFlushes
CHECK_DEADLOCK FALSE
