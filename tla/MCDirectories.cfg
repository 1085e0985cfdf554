SPECIFICATION DirectoriesSpec
CONSTANTS
  l1 = l1
  l2 = l2
  l3 = l3
  g1 = g1
  v1 = v1
  v2 = v2
  c1 = c1
  c2 = c2
  s1 = s1
  p1 = p1
  b1 = b1
  Launch = {l1, l2}
  Sweeper = {g1}
  View = {v1}
  ViewOf <- Runs
  NoView = NoView
  MaxKills = 1
  MaxDamages = 1
  Claimant = {l1, l2}
  Reclaimer = {g1}
  Kinds = {"private", "set"}
  Nobody = Nobody
  MaxIno = 2
  MaxFaults = 1
  Legacy = {}
  EmptyDir = EmptyDir
  CacheKinds = {"gc", "clear"}
INVARIANTS
  RunsWholeView
  StagesAlone
  ClaimKeepsDir
  ServerStays
PROPERTIES
  LaunchGetsView
  LeasedStays
  FreshStays
  SetServerLeaves
  LaunchReturns
CHECK_DEADLOCK FALSE
