CONSTANTS
  d1 = d1
  d2 = d2
  Deals = {d1, d2}
  Versioned = {d1}
  None = None
  MaxConnectAttempts = 1
  DailyLimit = 1
  AutoDiscovery = TRUE
  LimitCoversAttempt = TRUE
  FreshOrphans = FALSE
  MaxClicks = 1
  MaxFaults = 1
SPECIFICATION FairFewPeople
INVARIANTS BudgetRespected
PROPERTIES UncertainIsHeld ChainAlive
CHECK_DEADLOCK FALSE
