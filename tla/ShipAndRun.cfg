CONSTANTS
  MaxCancels = 2
SPECIFICATION Spec
INVARIANTS TerminatedMeansGone NoSilentSurvivor KeepMeansKept
PROPERTIES WatchdogLimitsRuntime
CHECK_DEADLOCK FALSE
