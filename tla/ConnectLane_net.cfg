CONSTANTS
  d1 = d1
  d2 = d2
  Deals = {d1}
  Versioned = {d1}
  None = None
  MaxConnectAttempts = 2
  DailyLimit = 1
  AutoDiscovery = FALSE
  LimitCoversAttempt = TRUE
  FreshOrphans = TRUE
  MaxClicks = 1
  MaxFaults = 2
SPECIFICATION FairSpec
PROPERTY RecoveryNet
CHECK_DEADLOCK FALSE
