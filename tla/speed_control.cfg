SPECIFICATION FairSpec
CONSTANTS
    Speeds <- FourLevels
    AutoTargets <- TwoTargets
    SafeSpeed = 4
    GearSpeed = 3
    CustomSpeed = 3
    Threshold = 3
    CoolingTicks = 2
    Budgets <- Varied
INVARIANTS QueuedIsServed
PROPERTIES SafetyPrevails SettledDemandIsMet
