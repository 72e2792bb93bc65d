CONSTANTS
  User = {a, b}
  Mortal = {}
  NoName = NoName
  NumSlots = 2
SPECIFICATION Spec
INVARIANT NotResponding
SYMMETRY Symmetry
