SPECIFICATION Spec
SYMMETRY Symmetry
CONSTANTS
  Clients = {c1, c2}
  Drivers = {d1, d2}
  NoDriver = nil
  Engines = {e1, e2}
  NoEngine = none
  Operations = {"overlay", "auto_on", "auto_off", "pulse", "fly_out", "fly_on", "on", "off", "remove", "stop_animation", "close", "text", "ticker", "stop", "update"}
  Together = {"auto_on", "off", "remove", "text", "ticker", "stop"}
INVARIANTS OneDriver OffIsStill EngineListed ClosedOnce WaitEnds
CHECK_DEADLOCK FALSE
