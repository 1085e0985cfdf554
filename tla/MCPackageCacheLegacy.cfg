SPECIFICATION PCSpec
CONSTANTS
  l1 = l1
  l2 = l2
  l3 = l3
  p1 = p1
  p2 = p2
  b1 = b1
  b2 = b2
  Runner = {l1, l3}
  Sweeper = {g1}
  Kinds = {"launch"}
  Pkg = {p1, p2}
  Blob = {b1, b2}
  BlobsOf <- Carries
  EmptyDir = EmptyDir
  PkgOf <- Runs
  Legacy = {p2}
  NoOne = NoOne
  MaxKills = 0
INVARIANT LegacyRunsWhole
CHECK_DEADLOCK FALSE
