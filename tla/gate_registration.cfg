CONSTANTS
  g1 = g1
  g2 = g2
  c1 = c1
  c2 = c2
  l1 = l1
  l2 = l2
  none = none
  Gates = {g1, g2}
  Servers = {1, 2}
  Clients = {c1, c2}
  Asks <- AllAskOne
  Leases = {l1, l2}
  None = none
  Faults <- AllFaults
SPECIFICATION FairSpec
INVARIANT OneGatePerServer
PROPERTIES AcquireEnds ServersFreed
CHECK_DEADLOCK FALSE
