SPECIFICATION Spec
CONSTANTS
  Free = Free
  NControllers = 1
  TRIES = 3
  MaxLoss = 0
  MaxCommands = 1
  MaxAlarms = 1
CHECK_DEADLOCK FALSE
INVARIANTS
  SweepPutsOut
