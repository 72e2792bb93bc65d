CONSTANTS
  Addr = {a, b}
  NumFds = 2
  MaxInbound = 1
  NULL = NULL
SPECIFICATION Spec
INVARIANT CanBeRead
CHECK_DEADLOCK FALSE
