SPECIFICATION Spec
CONSTANTS
  Call = {c1, c2}
  Store = {t1, t2}
  None = None
  MaxSessions = 2
  MaxRaces = 1
SYMMETRY Symmetry
INVARIANTS
  EndsAreLogged
PROPERTIES
  ImplementsContract
CHECK_DEADLOCK FALSE
