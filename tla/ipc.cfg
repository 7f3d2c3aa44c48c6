SPECIFICATION FairSpec
CONSTANTS
    c1 = c1
    c2 = c2
    Callers <- Both
    Requests <- Attempts
    Links = {1, 2, 3}
    Broadcasts = {e1, e2}
    MaxConcurrent = 1
    QueueSize = 1
    NoOne = NoOne
    Scenarios <- Varied
INVARIANTS EventsInOrder
PROPERTIES RefinesCalls HealthyIsKept CallsReturn StopClosesAll
CHECK_DEADLOCK FALSE
