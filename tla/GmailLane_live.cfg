CONSTANTS
  w1 = w1
  w2 = w2
  Workers = {w1}
  LastStep = 2
  None = None
  Hung = FALSE
  Lingering = FALSE
  Replies = FALSE
  MaxStops = 2
  MaxEarly = 1
SPECIFICATION FairSpec
PROPERTIES SequenceGoesOn
CHECK_DEADLOCK FALSE
