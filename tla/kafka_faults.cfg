CONSTANTS
  p1 = p1
  p2 = p2
  Processes = {p1, p2}
  MaxMessages = 3
  Faults = {"restart", "rebalance", "commit", "fetch", "handler"}
SPECIFICATION FairSpec
INVARIANTS AtLeastOnce NoneSkipped
PROPERTY Delivered
CHECK_DEADLOCK FALSE
