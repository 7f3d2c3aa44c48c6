SPECIFICATION LearnSpec
CONSTANTS
  OffsetCap = 100
  PullLimit = 30
  SmoothPasses = 2
  SmoothRadius = 2
  Curves <- LearnCurves
  Settings = {"balanced", "quiet"}
  Mixes <- LearnMixes
  Pauses = {6, 13}
  Ceiling = 65
  ComfortBand = 5
  LearnWindow = 3
  LearnDelay = 1
  TempBand = 2
  RPMBand = 120
  SteadyWindows = 3
  MinDuration = 11
  MaxDuration = 20
  MaxGap = 12
  HotSteps = {20, 80}
  QuietSteps <- LearnQuietSteps
INVARIANT QuietLearningIsEarned
PROPERTY LearnedIsUsed UserEditsHold
CHECK_DEADLOCK FALSE
