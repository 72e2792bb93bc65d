CONSTANTS
  Name = {own, a, b}
  Own = own
  NoName = NoName
  Routes <- MCRoutes
  NumSlots = 3
  TableSize = 4
  Readers = {}
  MaxFree = 3
  MaxHop = 2
  OverlapHop = 1
  Alone = TRUE
SPECIFICATION MCSpec
INVARIANTS TypeOK UniqueNames RecordsMatch AdvertisementOK DirectIffOneHop CallsAtomic NextHopKnown
PROPERTIES ImplementsRouteMap CallsReturn
