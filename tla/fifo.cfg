SPECIFICATION Spec
CONSTANTS
  Prices = {1, 2}
  Times = {1, 2}
  MaxQuantity = 3
  LevelType = "TIME"
  MaxOrders = 4
  BatchCap = 2
  NoOrder = NoOrder
  Inputs <- MCInputs
INVARIANTS TypeOK BookUncrossed BookWellFormed AccountsBalance ReportsMatchBook LifecycleOrdered
PROPERTY ImplementsPriceTime
CHECK_DEADLOCK FALSE
