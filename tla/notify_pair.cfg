SPECIFICATION TimedSpec
CONSTANTS
  Services = {s1, s2}
  Users = {1, 2}
  Clients = {1}
  MaxEvents = 2
  MaxStarts = 1
  QuiesceBeforeStop = TRUE
INVARIANT NothingLeftAtStop
PROPERTIES ImplementsChannel StopReturns
CHECK_DEADLOCK FALSE
