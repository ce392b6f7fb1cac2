CONSTANTS
  w1 = w1
  w2 = w2
  w3 = w3
  r1 = r1
  r2 = r2
  p1 = p1
  Reposts = {r1}
  Posts = {p1}
  Workers = {w1, w2}
  None = None
  MaxRetries = 1
  MaxStops = 1
SPECIFICATION FairSpec
INVARIANTS UntouchedMeansNoClick DriversApart
PROPERTIES PromiseKept RepostsMove
CHECK_DEADLOCK FALSE
