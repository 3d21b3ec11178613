CONSTANTS
  Builders = {b1, b2, b3}
  Free = free
  TTL = 2
  MaxFailures = 2
SPECIFICATION Spec
INVARIANTS ExclusiveUntilStale
PROPERTIES DeadLockGoes
