\* Web Push: two devices that come and go, the age is checked after a failure only.
SPECIFICATION Spec
CONSTANTS
  None = None
  Event = {e1, e2}
  Worker = {w1, w2}
  Target = {t1, t2}
  MaxAttempts = 2
  BatchSize = 2
  WebPush = TRUE
  MaxFaults = 1
SYMMETRY Symmetry
CHECK_DEADLOCK FALSE
INVARIANTS
  SentMissesNobody
  DuplicatesNeedExpiry
  AttemptsBounded
PROPERTIES
  TerminalIsFinal
  ImplementsContract
