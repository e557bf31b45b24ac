SPECIFICATION FairSpec
CHECK_DEADLOCK FALSE
CONSTANTS
  CAP = 10
  PINGEVERY = 5
  GIVEUP = 10
  SILENCE = 6
  MaxReadings = 60
  PONGS = 2
  FAILS = 1
  RETRIES = 5
  TROUBLE = 6
INVARIANTS
  TypeOK
  NeverSilent
  OnceAndInOrder
  ShownIsRecent
PROPERTIES
  GivesUpAfterManyPings
  StopsByItself
  KeptUntilSent
