SPECIFICATION FairSpec
CONSTANTS
  Clients = {c1, c2}
  Players = {p1, p2, p3}
  NoPlayer = nil
INVARIANTS OnePlayer StatusTrue
PROPERTIES StopReturns
CHECK_DEADLOCK FALSE
