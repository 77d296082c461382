CONSTANTS
  a1 = a1
  w1 = w1
  w2 = w2
  p1 = p1
  p2 = p2
  AnyAccount = AnyAccount
  NoAccount = NoAccount
  Workers <- MCWorkers
  Pollers <- MCPollers
  Accounts <- MCAccounts
  Chains <- MCChains
  Hysteresis = 2
  MaxRestarts = 1
  MaxFaults = 1
SPECIFICATION Spec
SYMMETRY MCSymmetry
INVARIANTS TypeOK RunningIsBusy RowAgrees 
PROPERTY StopSticks
