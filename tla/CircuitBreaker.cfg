CONSTANTS
  x1 = x1
  x2 = x2
  x3 = x3
  NoRow = NoRow
  Executions <- MCExecutions
  FailMax = 3
  ResetTimeout = 2
  SuccessThreshold = 2
  MaxRestarts = 2
  MaxFaults = 1
SPECIFICATION FairSpec
INVARIANT CountsMatchState
PROPERTIES FastFailsWhileOpen OpensOnlyAfterStreak OpenEnds
