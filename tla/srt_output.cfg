SPECIFICATION CallerFairSpec
CONSTANTS
  Conns = {n1, n2, n3}
  NoConn = nil
  Loops = {l1, l2}
  CallerPaced = TRUE
INVARIANTS OneLoop ConnectionsHeld ActiveConnected
PROPERTIES KeyframeFirst LoopStops
CHECK_DEADLOCK FALSE
