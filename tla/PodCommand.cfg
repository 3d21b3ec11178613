CONSTANTS
  Kinds = {"build", "inline", "claim", "probe", "hold"}
  Patience = 3
  Interval = 2
  Listings <- MCListings
  Durations = {0, 2}
  MaxSignals = 2
SPECIFICATION Spec
INVARIANTS NoSilentPod AtMostOneLateBuild RightVolume
PROPERTIES CommandEnds
CHECK_DEADLOCK FALSE
