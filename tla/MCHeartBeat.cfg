CONSTANTS
  User = {a, b, c}
  Mortal = {}
  NoName = NoName
  NumSlots = 3
SPECIFICATION Spec
INVARIANTS TypeOK FirstAlarmJustified
PROPERTY RemovalAnnounced
CONSTRAINT FewMessages
SYMMETRY Symmetry
