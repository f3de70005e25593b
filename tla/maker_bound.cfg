SPECIFICATION SimSpec
CONSTANTS
  Prices = {1, 2, 3, 4, 5, 6, 7}
  Times = {0}
  MaxQuantity = 6
  LevelType = "TIME"
  NoOrder = NoOrder
  BatchCap = 2
  MaxOrders = 24
  Inputs <- MCInputs
  Traders = 1
  Rounds = 4
  Quantities = {1, 6}
  ReferencePrice = 3
  Aggression = 2
  HalfSpread = 1
  QuoteSize = 2
  MaxInventory = 1
INVARIANT InventoryBounded
CHECK_DEADLOCK FALSE
