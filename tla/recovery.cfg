SPECIFICATION FairSpec
CONSTANTS
  BatchCap = 3
  MaxSnapshotNumber = 2
  MaxOrders = 7
INVARIANTS NoHole MatchedInOrder CaughtUp MatchedAtMostTwice
PROPERTY ProcessReturns
CHECK_DEADLOCK FALSE
