SPECIFICATION MCSpec
CONSTANTS
  Clients = {c1, c2}
  Ops = {o1, o2}
  Directors = {o1}
  AudioOperators = {o2}
  Subsystems = {"switching", "audio"}
  NoOne = none
  Runs = {r1, r2}
  NoRun = nil
  MaxSteps = 1
INVARIANTS LockHeld LockExcludes MacroAlone
PROPERTIES DeletedUnlocked CancelledEnds
