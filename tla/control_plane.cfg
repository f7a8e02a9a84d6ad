CONSTANTS
  i1 = i1
  i2 = i2
  l1 = l1
  l2 = l2
  noLease = noLease
  Instances = {i1, i2}
  Leases = {l1, l2}
  NoLease = noLease
  Faults <- AllFaults
SPECIFICATION FairPlane
INVARIANTS KeptKeyBound RoutesCurrent
PROPERTIES RunningRouted StoppedUnrouted
