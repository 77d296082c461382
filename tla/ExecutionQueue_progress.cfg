CONSTANTS
  t1 = t1
  t2 = t2
  h1 = h1
  h2 = h2
  NoTrigger = NoTrigger
  Triggers <- MCTwoTriggers
  Requests <- MCOneHandler
  MaxEntries = 3
  MaxDepth = 2
  BatchLimit = 1
  CapChoices <- MCNoCaps
  MaxRestarts = 1
  MaxFaults = 0
SPECIFICATION FairSpec
PROPERTY EveryRowEnds
