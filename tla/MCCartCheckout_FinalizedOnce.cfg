SPECIFICATION Spec
CONSTANTS
  Checkout = {c1, c2}
  Edit = {e1}
  None = None
  MaxOverruns = 1
SYMMETRY Symmetry
INVARIANTS
  FinalizedOnce
CHECK_DEADLOCK FALSE
