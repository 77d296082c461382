CONSTANTS
  MaxAttempts = 2
  MaxSlots = 3
  MaxRestarts = 0
  MaxFaults = 0
SPECIFICATION FairSpec
PROPERTY RetriesStop
CHECK_DEADLOCK FALSE
