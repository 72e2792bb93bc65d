CONSTANTS
  Node = {1, 2, 3, 4, 5}
  NoName = 0
  NumSlots = 6
  MaxUpsets = 1
  MaxReturns = 1
  MaxSignals = 1
SPECIFICATION MCSpec
INVARIANTS TypeOK RoutesAnnounce Settled HeartsAnswered NoLoop HopsBounded
PROPERTIES TrafficEnds
CHECK_DEADLOCK FALSE
