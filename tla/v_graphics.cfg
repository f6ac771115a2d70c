SPECIFICATION Spec
CONSTANTS
  Clients = {c1, c2}
  Drivers = {d1, d2}
  NoDriver = nil
  Engines = {e1}
  NoEngine = none
  Operations = {"overlay", "auto_on", "on", "off"}
  Together = {"off"}
INVARIANTS SafeTogether
