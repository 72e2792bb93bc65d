CONSTANTS
  User = {a, b, c}
  Mortal = {c}
  NoName = NoName
  NumSlots = 3
SPECIFICATION QuietSpec
PROPERTY StoppedRemoved
