SPECIFICATION Spec
CONSTANTS
  Call = {c1, c2}
  Device = {d1, d2}
  Account = {a1}
  Endpoint = {e1, e2}
  Customer = {k}
  None = None
  MaxRows = 2
  MaxRaces = 1
SYMMETRY Symmetry
PROPERTIES
  AccountsKeepTheirs
  ImplementsContract
CHECK_DEADLOCK FALSE
