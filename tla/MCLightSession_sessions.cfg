SPECIFICATION FairSpec
CONSTANTS
  Free = Free
  NControllers = 2
  TRIES = 2
  MaxLoss = 1
  MaxCommands = 1
  MaxAlarms = 1
CHECK_DEADLOCK FALSE
INVARIANTS
  TypeOK
  MasksAgree
  KeepsPlace
  InStep
  AllTold
  SweepPutsOutUnlessExcused
PROPERTIES
  ExchangesReturn
