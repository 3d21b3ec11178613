\* Two tiers and two volumes for each of two candidates, with slow creates
\* and hooks and time for several launches before the deadline.
CONSTANTS
  NumGpus = 2
  NumRam = 2
  NumStorages = 2
  AttachOnly = FALSE
  MaxWait = 5
  Interval = 2
  MinFree = 2
  Adequate = 4
  TargetSize = 2
  InitSize <- MCSizes
  Durations <- MCDurations
SPECIFICATION Spec
INVARIANTS NoSkippedPair OneGrowthPerLaunch GrowthBounded AtMostOneLateLaunch
PROPERTIES KeepsCustody CallReturns
CHECK_DEADLOCK FALSE
