CONSTANTS
  p2 = p2
  builder = builder
  prebuilt = prebuilt
  Pods = {p1, p2}
  PrefixOf <- MCPrefixOf
  Prefixes = {builder, prebuilt}
  Sweepers = {s1}
  Kinds = {"prune", "cleanup", "orphans"}
  Stamped = {p1}
  Owned = {p1}
  StaleAge = 2
  OlderThans <- MCOlderThans
  RegisterDelay = 1
  ListDelay = 1
  MaxTime = 3
SPECIFICATION SweepSpec
INVARIANTS OwnedIsSpared UptimeProtects SweepIsComplete
CHECK_DEADLOCK FALSE
