CONSTANTS
  MaxRotations = 1
  HysteresisPolls = 2
  MaxExecutions = 3
  MaxCancels = 1
SPECIFICATION FairRotationSpec
INVARIANTS OneAgent RotationsLimited
 
CHECK_DEADLOCK FALSE
