SPECIFICATION FairSpec
CONSTANTS
  c1 = c1
  c2 = c2
  c3 = c3
  Nobody = Nobody
  Callers <- MCCallers
  Slots <- MCSlots
  Blocks = 2
  LateQueueCap = 1
  MaxFaults = 3
  Mixes <- MCMixes
  MaxResends = 2
INVARIANTS
  SlotsApart
  ConfirmedIsDone
  RejectedIsResent
PROPERTY CallsEnd
CHECK_DEADLOCK FALSE
