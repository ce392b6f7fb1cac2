CONSTANTS
  w1 = w1
  w2 = w2
  w3 = w3
  Rows = {1}
  Workers = {w1, w2, w3}
  Exporters = {w3}
  Limit = 1
  Lease = 2
  BackoffCap = 1
  Window = 4
  BatchTime = 2
  MaxClock = 7
  MaxChanges = 2
  MaxCrashes = 1
SPECIFICATION FairSpec
INVARIANTS LeaseExclusive
PROPERTIES FrozenOnce SettledIsNotPosted DeliveryStands CompletedIsSettled LocalIsExported
CHECK_DEADLOCK FALSE
