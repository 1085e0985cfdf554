SPECIFICATION GSpec
CONSTANTS
  Sent = {s1}
  Raised = {}
  Daemon = {}
  MaxDeaths = 0
INVARIANT ReceivedOnce
CHECK_DEADLOCK FALSE
