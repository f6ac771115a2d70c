SPECIFICATION Spec
SYMMETRY Symmetry
CONSTANTS
  Sources = {a, b}
  Buffers = {p1, p2, p3, p4, p5}
  NoSource = none
  NoBuffer = nil
  PoolCap = 3
  QueueCap = 2
  RingSize = 2
  Modes = {"sync", "direct"}
  Removals = {"direct"}
  MaxEpoch = 2
INVARIANTS RefsExact PoolUnused ExclusiveWrite
