CONSTANTS
  r1 = r1
  r2 = r2
  r3 = r3
  u1 = u1
  u2 = u2
  c1 = c1
  c2 = c2
  p1 = p1
  noRequest = noRequest
  Requests = {r1, r2, r3}
  UserOf <- TwoUsers
  Num <- TwoOneTwo
  Users = {u1, u2}
  DbStock = 3
  Limit = 2
  Callers = {c1, c2}
  Processes = {p1}
  Faults <- AllowedFaults
  NoRequest = noRequest
SPECIFICATION RSpec
INVARIANTS NoOversell WithinLimit StockCovered CompensationApplied
PROPERTIES StockConserved CompensationLands
CHECK_DEADLOCK FALSE
