CONSTANTS
  o1 = o1
  o2 = o2
  c1 = c1
  c2 = c2
  r1 = r1
  r2 = r2
  r3 = r3
  Operators = {o1, o2}
  Replies = {c1, c2}
  OwnerOf <- Owners
  Rows = {r1, r2}
  None = None
  Lingering = FALSE
  MaxStops = 1
SPECIFICATION FairSpec
INVARIANTS CancelIsFinal SendsAccounted
PROPERTIES RecordedIsNotResent ReplyIsHandled SummariesGoOn
CHECK_DEADLOCK FALSE
