SPECIFICATION AVSpec
SYMMETRY Symmetry
VIEW AVLive
CONSTANTS
  Sources = {a, b}
  NoSource = none
  Controllers = {c1}
  Engines = {e1, e2}
  NoEngine = nil
  GPU = FALSE
  Delivering = {}
  Operations = {"start", "ftb", "tbar", "cut", "cut_override", "preview", "unregister"}
  Patient = TRUE
INVARIANTS AudioFollowed PaceFollowed ProgramRegistered
