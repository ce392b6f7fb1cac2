CONSTANTS
  w1 = w1
  w2 = w2
  w3 = w3
  d1 = d1
  d2 = d2
  Workers = {w1}
  Deals = {d1}
  LastStep = 1
  MediaSteps = {1}
  MaxRows = 4
  MaxStops = 2
  MaxEarly = 1
  MaxFails = 1
  Replies = TRUE
  Drips = TRUE
  Hung = FALSE
  Lingering = FALSE
  Deaf = FALSE
  Flaky = FALSE
SPECIFICATION FairSpec
INVARIANTS StoppedIsUnsent
PROPERTIES SequenceGoesOn DripTakesOver
CHECK_DEADLOCK FALSE
