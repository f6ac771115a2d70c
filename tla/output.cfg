SPECIFICATION FairSpec
CONSTANTS
  Outputs = {rec, dest}
  Destinations = {dest}
  SRTOutputs = {dest}
  Adapters = {a1, a2}
  NoAdapter = nil
  Muxers = {m1, m2}
  NoMuxer = none
  Clients = {c1, c2}
  NoClient = free
  Video = video
  Writers = {video}
  QueueCap = 1
INVARIANTS Served ClosedDrained ClosedOnce
CHECK_DEADLOCK FALSE
PROPERTIES RequestsReturn
