SPECIFICATION USpec
CONSTANTS
  r1 = r1
  r2 = r2
  r3 = r3
  Updater = {u1, u2}
  Release = {r1, r2, r3}
  Revision <- Numbers
  Policies = {"signed"}
  MaxPublish = 1
  MaxMishaps = 0
PROPERTY OlderNeverWins
CHECK_DEADLOCK FALSE
