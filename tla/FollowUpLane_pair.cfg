CONSTANTS
  w1 = w1
  w2 = w2
  w3 = w3
  d1 = d1
  d2 = d2
  Workers = {w1, w2}
  Deals = {d1, d2}
  LastStep = 0
  MediaSteps = {0}
  MaxRows = 3
  MaxStops = 1
  MaxEarly = 0
  MaxFails = 1
  Replies = TRUE
  Drips = TRUE
  Hung = TRUE
  Lingering = TRUE
  Deaf = FALSE
  Flaky = TRUE
SPECIFICATION Spec
INVARIANTS OnePitch
PROPERTIES Implements
SYMMETRY Symmetry
CHECK_DEADLOCK FALSE
