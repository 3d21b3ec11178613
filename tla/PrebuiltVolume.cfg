CONSTANTS
  b1 = b1
  b2 = b2
  Builders = {b1, b2}
  Free = free
  TTL = 1
  MaxFailures = 1
  Old = old
SPECIFICATION Spec
INVARIANTS LockKeepsApart PublishedIsWhole ManifestMatchesBundles NeverOlder LastBuildStands
SYMMETRY Interchangeable
CONSTRAINT NotCrowded
