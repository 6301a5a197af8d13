\* Liveness: no symmetry; a batch of one makes rows wait for each other.
SPECIFICATION FairSpec
CONSTANTS
  None = None
  Event = {e1, e2}
  Worker = {w1, w2}
  Target = {t1}
  MaxAttempts = 2
  BatchSize = 1
  WebPush = FALSE
  MaxFaults = 1
CHECK_DEADLOCK FALSE
PROPERTIES
  EventuallySettled
