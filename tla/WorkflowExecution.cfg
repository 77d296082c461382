CONSTANTS
  a = a
  b = b
  c = c
  r1 = r1
  r2 = r2
  NoNode = NoNode
  Nodes <- MCNodes
  Workflows <- MCWorkflows
  Requests = {r1, r2}
  MaxAttempts = 2
  MaxCrashes = 1
  MaxFaults = 1
SPECIFICATION FairSpec
INVARIANTS NodeHasInputs CompletedIsWhole GateNeedsApproval VerdictShown
PROPERTIES IsWorkflow ExecutionEnds
CHECK_DEADLOCK FALSE
