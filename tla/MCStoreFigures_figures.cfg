SPECIFICATION Spec
CONSTANTS
  Writer = {w1}
  Reader = {r1, r2}
  Unset = Unset
  MaxTime = 2
  MaxChanges = 2
  Closer = {c1, c2}
  Order = {o1}
  Nothing = Nothing
  DayLength = 2
  Ahead = 1
  MaxHour = 2
  MaxUnkept = 1
INVARIANTS
  StaleFromTheWindow
  MessagesAreKept
  ToldAsStored
  FoundAreCounted
PROPERTIES
  FreshInTheEnd
CHECK_DEADLOCK FALSE
