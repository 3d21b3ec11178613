CONSTANTS
  Callers = {cli, watchdog, other}
  Timeout = 1
  Poll = 1
SPECIFICATION Spec
INVARIANTS AckMeansGone
PROPERTIES KeepsTeardown CallsReturn PendingResolves
CHECK_DEADLOCK FALSE
