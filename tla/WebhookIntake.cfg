CONSTANTS
  t = t
  s = s
  h1 = h1
  h2 = h2
  j1 = j1
  j2 = j2
  p1 = p1
  NoOwner = NoOwner
  NoEvent = NoEvent
  Owners <- MCTriggers
  SessionTriggers <- MCSessions
  Requests <- MCHandlers
  Jobs <- MCJobs
  Payloads <- MCPayloads
  PullRequests = {q}
  Comments = {c}
  MaxDeliveries = 3
  MaxDepth = 1
SPECIFICATION IntakeSpec
SYMMETRY MCSymmetry
INVARIANT WindowsAccounted
CHECK_DEADLOCK FALSE
