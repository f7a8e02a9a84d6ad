CONSTANTS
  c1 = c1
  c2 = c2
  h1 = h1
  s1 = s1
  s2 = s2
  reader = reader
  shutdown = shutdown
  none = none
  Calls = {c1, c2}
  Handlers = {h1}
  Sessions = {s1, s2}
  MayUse <- FirstOrBoth
  Deadlines = {c1}
  Reader = reader
  Shutdown = shutdown
  None = none
  Faults <- AllFaults
SPECIFICATION FairSpec
INVARIANTS StillAnswered OneResult
PROPERTIES CancelReturns ClosedEnds GoneUnregistered
CHECK_DEADLOCK FALSE
