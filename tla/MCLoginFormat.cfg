CONSTANTS
  NameLen = 3
  AddrLen = 2
  PortLen = 2
  Chars = {97, 98}
  Octets = {0, 4, 10}
  Neighbour <- MCNeighbour
SPECIFICATION Spec
INVARIANTS TypeOK ShortNameFound AddressArrives RouteWhole
CHECK_DEADLOCK FALSE
