SPECIFICATION FairSpec
CONSTANTS
  c1 = c1
  Monitor = Monitor
  Recovery = Recovery
  Clients = {c1}
  Procs = {p1, p2}
  NoProc = NoProc
  Nobody = Nobody
  Wishes <- WishesDef
  MaxFaults = 2
INVARIANTS
  NoOrphan
  AnswerMatches
PROPERTIES
  TemperatureReturns
CHECK_DEADLOCK FALSE
