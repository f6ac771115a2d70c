SPECIFICATION FairSpec
CONSTANTS
  Ids = {i1, i2}
  Controllers = {c1, c2}
  Timers = {t1, t2}
  NoTimer = nil
  PreRolls = {p1}
  NoPreRoll = none
  MaxActive = 2
  Operations = {"group", "schedule"}
  Tempos = {TRUE, FALSE}
INVARIANTS SiblingsTogether TimersOwned WireAgrees
PROPERTIES BreakEnds
CHECK_DEADLOCK FALSE
