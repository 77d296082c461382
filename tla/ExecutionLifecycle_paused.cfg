CONSTANTS
  Requests = {r1, r2}
  NoTimer = NoTimer
  MaxFaults = 1
SPECIFICATION FairSpec

PROPERTIES PausedEnds
CHECK_DEADLOCK FALSE
