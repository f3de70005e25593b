SPECIFICATION Spec
CONSTANTS
  Prices = {1, 2}
  Times = {1}
  MaxQuantity = 6
  LevelType = "SIZE"
  MaxOrders = 4
  BatchCap = 2
  NoOrder = NoOrder
  Inputs <- MCInputs
INVARIANTS BookUncrossed AccountsBalance
PROPERTY AllocationFair
CHECK_DEADLOCK FALSE
