SPECIFICATION DaySpec
CONSTANTS
  Closer = {c1, c2}
  Order = {o1}
  Nothing = Nothing
  DayLength = 2
  Ahead = 0
  MaxHour = 1
  MaxUnkept = 0
INVARIANTS
  ClosingIsIdempotent
CHECK_DEADLOCK FALSE
