SPECIFICATION Spec
CHECK_DEADLOCK FALSE
CONSTANTS
  CAP = 3
  PINGEVERY = 4
  GIVEUP = 6
  SILENCE = 6
  MaxReadings = 14
  PONGS = 2
  FAILS = 1
  RETRIES = 5
  TROUBLE = 0
PROPERTIES
  ClearedAfterSending
