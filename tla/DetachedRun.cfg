CONSTANTS
  Sessions = {first, second}
  Nobody = nobody
  Timeout = 2
  Interval = 2
  ExecLimit = 1
SPECIFICATION DetachedSpec
INVARIANTS ExitIsReal TimeoutKept
CHECK_DEADLOCK FALSE
