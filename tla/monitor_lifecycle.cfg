SPECIFICATION FairLifeSpec
CONSTANTS
    Runs = {m1, m2, m3}
    NoRun = NoRun
    EventMixes <- Mixes
INVARIANTS
    OneMonitor
PROPERTIES
    MonitorComesBack
CHECK_DEADLOCK FALSE
