SPECIFICATION FairSpec
CONSTANTS
  Clients = {c1, c2}
  Players = {p1, p2}
  NoPlayer = nil
INVARIANTS DecoderSafe SourceFollows
PROPERTIES RequestsReturn
CHECK_DEADLOCK FALSE
