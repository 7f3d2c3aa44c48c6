SPECIFICATION WifiFairSpec
CONSTANTS
  Flows = {f1, f2, f3}
  Health = Health
  Nobody = Nobody
  Loops = {l1, l2}
  NoLoop = NoLoop
  Endpoints = {e1, e2}
  Away = Away
  Home = e1
  MissThreshold = 3
  HealthThreshold = 3
  Attempts = 2
  Mixes <- WifiMixes
  Scanners = {s1, s2}
  Common = {c1, c2}
  Expanded = {c3}
  Workers = 2
INVARIANTS
  OwnData
  AutoStays
PROPERTIES
  BlockStopsWrites
  ScanStops
  GoneIsNoticed
  EverythingReturns
CHECK_DEADLOCK FALSE
