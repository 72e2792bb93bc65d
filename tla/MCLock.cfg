CONSTANTS
  Name = {own, a, b}
  Own = own
  NoName = NoName
  Routes <- MCRoutes
  NumSlots = 2
  TableSize = 4
  Readers = {ui}
  MaxFree = 3
  MaxHop = 1
  OverlapHop = 1
  Alone = FALSE
SPECIFICATION MCSpec
INVARIANTS MutualExclusion
