SPECIFICATION FairSpec
CONSTANTS
  Checkout = {c1, c2}
  Edit = {e1, e2}
  None = None
  MaxOverruns = 1
INVARIANTS
  OrdersNeedOverruns
  OrderMatchesDraft
  OrderKeepsItsFile
  AnswersAreOrders
  DraftKeepsItsFile
PROPERTIES
  CompletedIsFinal
  ImplementsContract
  DraftStaysUsable
CHECK_DEADLOCK FALSE
