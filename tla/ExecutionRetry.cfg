CONSTANTS
  MaxAttempts = 1
  MaxSlots = 2
  MaxRestarts = 2
  MaxFaults = 1
SPECIFICATION FairSpec
INVARIANTS NoRowForgotten OneTimer
PROPERTIES RetryHappens RowEnds
CHECK_DEADLOCK FALSE
