SPECIFICATION Spec
CONSTANTS
  l1 = l1
  l2 = l2
  l3 = l3
  p1 = p1
  p2 = p2
  Launch = {l1, l2, l3}
  Package = {p1, p2}
  PackageOf <- OnePackage
  Nobody = Nobody
  Modes = {"host"}
  MaxTries = 2
  MaxIno = 3
  MaxFaults = 1
INVARIANT WatchedLease
CHECK_DEADLOCK FALSE
