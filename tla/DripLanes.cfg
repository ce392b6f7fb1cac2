CONSTANTS
  l1 = l1
  l2 = l2
  g1 = g1
  LinkedIn = LinkedIn
  Gmail = Gmail
  Workers = {l1, g1}
  ChannelOf <- Serves
  LastStep <- Length
  MaxRows = 2
  MaxEvents = 2
  Hung = FALSE
SPECIFICATION FairSpec
INVARIANTS HeldHasNoWork
PROPERTIES Implements SendingResolves
CHECK_DEADLOCK FALSE
