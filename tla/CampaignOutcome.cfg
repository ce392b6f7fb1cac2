CONSTANTS
  d1 = d1
  d2 = d2
  Deals = {d1}
  Versioned = {d1}
  None = None
  MaxConnectAttempts = 2
  DailyLimit = 1
  AutoDiscovery = TRUE
  LimitCoversAttempt = TRUE
  FreshOrphans = TRUE
  MaxClicks = 2
  MaxFaults = 2
SPECIFICATION OutcomeSpec
INVARIANTS TypeOK AtMostOneInvitation RetryableMeansUnsent ChargedOnce HeldIsNeverSent PossiblySentIsCharged
PROPERTY PromiseKept
CHECK_DEADLOCK FALSE
