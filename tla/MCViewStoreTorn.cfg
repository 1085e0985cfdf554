SPECIFICATION Spec
CONSTANTS
  l1 = l1
  l2 = l2
  l3 = l3
  g1 = g1
  v1 = v1
  v2 = v2
  Launch = {l1, l3}
  Sweeper = {}
  View = {v1, v2}
  ViewOf <- Runs
  NoView = NoView
  MaxKills = 1
  MaxDamages = 0
INVARIANT
  ReadyIsWhole
CHECK_DEADLOCK FALSE
