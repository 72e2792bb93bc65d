CONSTANTS
  Name = {own, a, b}
  Own = own
  NoName = NoName
  Routes <- MCRoutes
  NumSlots = 3
  TableSize = 4
  Readers = {}
  MaxFree = 3
  MaxHop = 1
  OverlapHop = 0
  Alone = TRUE
SPECIFICATION MCSpec
INVARIANTS UnreachableNotAnnounced
