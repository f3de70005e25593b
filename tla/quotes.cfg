SPECIFICATION FairSpec
CONSTANTS
  c1 = c1
  c2 = c2
  Clients = {c1, c2}
  Prices <- MCPrices
  PriceWord = 8
  QtyWord = 8
  Books = 2
  BookStates <- MCBookStates
  Depth = 2
  MaxStarts = 2
INVARIANTS PricesTrue DepthTrue
PROPERTIES NoLateCall SubscriberHears
