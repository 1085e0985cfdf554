SPECIFICATION ServersSpec
CONSTANTS
  l1 = l1
  l2 = l2
  l3 = l3
  p1 = p1
  p2 = p2
  Launch = {l1, l2}
  Package = {p1, p2}
  PackageOf <- OnePackage
  Nobody = Nobody
  Modes = {"ns", "host"}
  MaxTries = 1
  MaxIno = 2
  MaxFaults = 1
  Sent = {s1}
  Raised = {r1}
  Daemon = {d1, d2}
  MaxDeaths = 1
  Background = {b1, b2}
  MaxTroubles = 1
  e1 = e1
  e2 = e2
  w1 = w1
  w2 = w2
  Worker = {w1, w2}
  Entry = {e1, e2}
  Length <- Lengths
  SizeOf <- Sizes
  Listed <- Startup
  Window = 2
  Budget = 3
INVARIANTS
  ReceivedAsSent
  LeaseCoversSubtree
  EndsAsTheApplication
  ServedToTheEnd
  RepliesWhole
  MemoryBounded
  NoneKeptTwice
PROPERTIES
  ServerLeaves
  LaunchDecides
  CallerReturns
  SentArrives
  ClaimsReleased
  CallerFreed
  ServerTakesDown
  ServerAnswers
CHECK_DEADLOCK FALSE
