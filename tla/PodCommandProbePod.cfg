CONSTANTS
  Kinds = {"probe"}
  Patience = 3
  Interval = 2
  Listings <- MCListings
  Durations = {0, 2}
  MaxSignals = 2
SPECIFICATION Spec
INVARIANTS ProbePodIsShortLived
CHECK_DEADLOCK FALSE
