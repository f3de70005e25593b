SPECIFICATION Spec
CONSTANTS
  Base = 4
  BatchSize = 132
  ClientOrders <- MCClientOrders
  MaxOrders = 5
INVARIANTS NothingPastTheEnd HandedIsAccepted ChecksumTells
CHECK_DEADLOCK FALSE
