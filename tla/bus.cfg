SPECIFICATION FairSpec
CONSTANTS
  Sources = {a, b}
  NoSource = none
  Controllers = {c1, c2}
  Engines = {e1, e2}
  NoEngine = nil
  GPU = TRUE
  Delivering = {a, b}
  Operations = {"start", "ftb", "cut"}
  Patient = FALSE
INVARIANTS HandOff RightHandler
PROPERTIES ImplementsFairBus StateMachine
