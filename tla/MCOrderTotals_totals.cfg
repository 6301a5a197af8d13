SPECIFICATION Spec
CONSTANTS
  Call = {c1, c2}
  Item = {i1, i2}
  Price = {1, 2}
  Fee = {0, 3}
  None = None
  ByHand = ByHand
  MaxRaces = 1
SYMMETRY Symmetry
INVARIANTS
  AutoIsTheSum
PROPERTIES
  TotalFollows
  ImplementsContract
