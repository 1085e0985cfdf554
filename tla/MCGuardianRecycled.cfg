SPECIFICATION GSpec
CONSTANTS
  Sent = {s1, s2}
  Raised = {r1}
  Daemon = {d1, d2}
  MaxDeaths = 1
INVARIANT NoStrayForward
CHECK_DEADLOCK FALSE
