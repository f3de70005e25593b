SPECIFICATION FairSpec
CONSTANTS
  Services = {s1}
  Users = {1, 2, 3}
  Clients = {1, 2}
  MaxEvents = 4
  MaxStarts = 2
  QuiesceBeforeStop = FALSE
INVARIANT ClientsHearInOrder
PROPERTY PushedIsDelivered
CHECK_DEADLOCK FALSE
