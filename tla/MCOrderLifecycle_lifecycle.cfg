SPECIFICATION Spec
CONSTANTS
  Call = {s1, s2}
  Item = {i1, i2}
  None = None
  MaxRaces = 1
SYMMETRY Symmetry
INVARIANTS
  FeeBeforePromise
  CountsNeedRaces
  EffectsAreComplete
  CancelledWhenEmpty
PROPERTIES
  DecisionLocked
  ImplementsContract
