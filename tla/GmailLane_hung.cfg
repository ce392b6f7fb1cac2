CONSTANTS
  w1 = w1
  w2 = w2
  Workers = {w1, w2}
  LastStep = 1
  None = None
  Hung = TRUE
  Lingering = TRUE
  Replies = TRUE
  MaxStops = 2
  MaxEarly = 1
SPECIFICATION Spec
INVARIANTS SentIsStored InOrder
PROPERTIES StopHolds Implements
SYMMETRY Symmetry
CHECK_DEADLOCK FALSE
