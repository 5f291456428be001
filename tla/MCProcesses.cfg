SPECIFICATION Spec
CONSTANTS
  Workers = {w1, w2}
  Main = main
  Engines = {e1, e2}
  None = none
  Slots = 1
  MaxGames = 3
  MaxRestarts = 2
  MaxFailures = 1
CHECK_DEADLOCK FALSE
INVARIANTS EnoughDead NoIdleSlot NoneOutlives
PROPERTY MainReturns
