SPECIFICATION FairSpec
CONSTANTS
  s1 = s1
  s2 = s2
  s3 = s3
  cool = cool
  hot = hot
  NoTemp = NoTemp
  NoClient = NoClient
  NoMsg = NoMsg
  Absent = Absent
  Free = Free
  MAX_DEVICE = 1
  Sensors <- OneSensor
  Temps <- OnlyHot
  HotTemps <- OnlyHot
  TIMEOUT = 1
PROPERTIES
  QuietNetworkEmptiesTable
  CloseCompletes
