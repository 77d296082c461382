CONSTANTS
  t1 = t1
  t2 = t2
  h1 = h1
  h2 = h2
  NoTrigger = NoTrigger
  Triggers <- MCOneTrigger
  Requests <- MCTwoHandlers
  MaxEntries = 4
  MaxDepth = 1
  BatchLimit = 2
  CapChoices <- MCCaps
  MaxRestarts = 1
  MaxFaults = 1
SPECIFICATION Spec
SYMMETRY MCHandlerSymmetry
INVARIANTS TypeOK ConcurrencyCap ThreadOwnsRow RerunOnlyAfterRestart OrphanOnlyAfterFault DepthOverrunBounded
PROPERTY IsJobQueue
