SPECIFICATION Spec
CONSTANTS
  Producers = {p1, p2}
  BatchCap = 2
  MaxOrders = 4
  MaxStarts = 1
  Restarts = FALSE
  QuiesceBeforeStop = TRUE
INVARIANT NothingGivenUp
CHECK_DEADLOCK FALSE
