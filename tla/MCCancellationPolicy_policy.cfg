\* Thresholds 5, 10 and 16 shrunk in their order.
SPECIFICATION Spec
CONSTANTS
  Call = {c1, c2}
  None = None
  WarnAt = 2
  SuspendAt = 3
  ProbationSuspendAt = 1
  MaxMonth = 2
  MaxRaces = 1
  MaxSuspensions = 2
SYMMETRY Symmetry
INVARIANTS
  ProbationsArePaid
  WarnedInTime
PROPERTIES
  ImplementsContract
CHECK_DEADLOCK FALSE
