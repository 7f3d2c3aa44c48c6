SPECIFICATION Spec
CONSTANTS
  c1 = c1
  c2 = c2
  c3 = c3
  Callers = {c1, c2, c3}
  Nobody = Nobody
  Absent = Absent
  Torn = Torn
  Mixes <- MixesDef
  Disks <- DisksDef
  MaxFailures = 2
  MaxCrashes = 1
INVARIANTS
  RevisionNamesCopy
  LearningIsCurrent
  RunsOnWhatIsStored
  NothingElseLosesChanges
CHECK_DEADLOCK FALSE
