CONSTANTS
  d1 = d1
  d2 = d2
  d3 = d3
  Deals = {d1, d2}
  Overlap = 2
  Lookback = 3
  MaxTime = 6
  Late = FALSE
  Stalls = FALSE
SPECIFICATION FairSpec
INVARIANTS NothingBehindTheCutoff
PROPERTIES AcceptedIsFound
CHECK_DEADLOCK FALSE
