SPECIFICATION FairSpec
CONSTANTS
  Stranger = Stranger
  NControllers = 3
  TRIES = 3
  MAX_DEVICE = 2
  MaxTrouble = 2
CHECK_DEADLOCK FALSE
INVARIANTS
  TypeOK
  AllConnect
  StartsInStep
  AcceptedOnce
  SlotsAgree
  AtMostOneLeftBehind
PROPERTIES
  ConnectingEnds
