CONSTANTS
  a = a
  r = r
  b = b
  gone = gone
  Node = {a, r, b}
  NoName = NoName
  System = System
  NextHop <- MCNextHop
  Users = {a, r}
  BufSize = 8
  MaxRead = 2
  MaxQueue = 2
  MaxMsgs = 3
  MaxTabs = 4
  MaxTyped = 2
  MaxFaults = 2
SPECIFICATION MCSpec
INVARIANTS TypeOK InOrder Accounted
PROPERTIES Delivered
CHECK_DEADLOCK FALSE
