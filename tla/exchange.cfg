SPECIFICATION SimFairSpec
CONSTANTS
  Prices = {1, 2, 3, 4, 5, 6, 7}
  Times = {0}
  MaxQuantity = 4
  LevelType = "TIME"
  NoOrder = NoOrder
  BatchCap = 2
  MaxOrders = 12
  Inputs <- MCInputs
  Traders = 2
  Rounds = 2
  Quantities = {1, 3}
  ReferencePrice = 3
  Aggression = 2
  HalfSpread = 1
  QuoteSize = 2
  MaxInventory = 1
INVARIANTS NetPositionZero TradersAnswered QuotesPositive FillNotOverlooked
PROPERTY SimulationEnds
CHECK_DEADLOCK FALSE
