SPECIFICATION FairSpec
CONSTANTS
  Producers = {p1, p2}
  BatchCap = 2
  MaxOrders = 3
  MaxStarts = 2
  Restarts = TRUE
  QuiesceBeforeStop = FALSE
INVARIANTS AcceptedOnce AcceptedKept ClientOrderKept
PROPERTIES AcceptedIsHandled StopReturns
CHECK_DEADLOCK FALSE
