CONSTANTS
  o = o
  c1 = c1
  c2 = c2
  Runner = runner
  Nobody = nobody
  Verdict = verdict
  EndMark = end
  Readers <- MCReaders
  Clients <- MCClients
  ReplayLimit = 1
  MaxLines = 2
  MaxFaults = 1
SPECIFICATION FairSpec
INVARIANTS StreamIsWhole
PROPERTIES StreamsEnd
CHECK_DEADLOCK FALSE
