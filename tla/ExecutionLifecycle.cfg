CONSTANTS
  Requests = {r1, r2}
  NoTimer = NoTimer
  MaxFaults = 1
SPECIFICATION FairSpec
INVARIANTS VerdictIsTrue
PROPERTIES VerdictStays IsExecution CancelSticks StoppedFreed RowEnds NoStaleRunning
CHECK_DEADLOCK FALSE
