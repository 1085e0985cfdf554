SPECIFICATION StoresSpec
CONSTANTS
  l1 = l1
  l2 = l2
  l3 = l3
  p1 = p1
  p2 = p2
  b1 = b1
  b2 = b2
  x1 = x1
  x2 = x2
  y1 = y1
  y2 = y2
  Launch = {l1, l2, l3}
  Package = {p1, p2}
  PackageOf <- TwoPackages
  Nobody = Nobody
  Modes = {"ns", "host"}
  MaxTries = 2
  MaxIno = 2
  MaxFaults = 1
  Starter = {l1, l2}
  ProcId = {y1, y2}
  Part = {x1, x2}
  Asked <- Asks
  MaxEnds = 1
  Runner = {l1, l2, l3}
  Sweeper = {g1}
  Kinds = {"launch", "gc", "clear"}
  Pkg = {p1, p2}
  PkgOf <- Runs
  Blob = {b1, b2}
  BlobsOf <- Carries
  EmptyDir = EmptyDir
  Legacy = {p2}
  NoOne = NoOne
  MaxKills = 1
  r1 = r1
  r2 = r2
  r3 = r3
  Updater = {l1, l2}
  Release = {r1, r2}
  Revision <- Numbers
  Policies = {"signed", "unsigned"}
  MaxPublish = 1
  MaxMishaps = 1
  Acquirer = {l1, l2}
  Builder = {n1}
  Pid = {y1}
  Nothing = Nothing
  MaxDirs = 2
  MaxLosses = 1
SYMMETRY SamePackage
INVARIANTS
  NoPullout
  WatchedUnlessLost
  OneServer
  NoHalfMadeMount
  LeavesNothing
  RunsFromOwnTree
  LeavesNoTrace
  RunsWholeFiles
  MarkedIsWhole
  LinksVerified
  BinaryWhole
  StagedIsOwn
  OneStages
PROPERTIES
  RecordOutlivesServer
  ImplementsLifetime
  NothingLost
CHECK_DEADLOCK FALSE
