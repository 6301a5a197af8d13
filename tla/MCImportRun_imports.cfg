SPECIFICATION Spec
CONSTANTS
  Run = {r1, r2}
  Process = {p1, p2}
  k1 = k1
  k2 = k2
  a = a
  b = b
  Key = {k1, k2}
  Name = {a, b}
  Header = Header
  Invalid = Invalid
  Requests <- SmallRequests
  Catalogs <- SmallCatalogs
  BatchSize = 2
  None = None
  MaxItems = 5
  MaxRaces = 1
  MaxCancels = 1
SYMMETRY Symmetry
INVARIANTS
  CopiesNeedRaces
  EndsAsDeserved
PROPERTIES
  RemovedByReplacement
  IdsYieldToNames
  ImplementsContract
CHECK_DEADLOCK FALSE
