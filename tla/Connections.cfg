CONSTANTS
  Addr = {a, b}
  NumFds = 2
  MaxInbound = 1
  NULL = NULL
SPECIFICATION FairSpec
INVARIANTS TypeOK ConnectionsOpen SocketsKnown
PROPERTIES ResetRemoved
CHECK_DEADLOCK FALSE
