SPECIFICATION FairSpec
CONSTANTS
  Producers = {p1}
  BatchCap = 3
  MaxOrders = 7
  MaxStarts = 2
  Restarts = FALSE
  QuiesceBeforeStop = TRUE
INVARIANTS InOrder NoFalseAlarm
PROPERTY ImplementsOrderFlow
CHECK_DEADLOCK FALSE
