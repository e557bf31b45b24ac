SPECIFICATION Spec
CONSTANTS
  s1 = s1
  s2 = s2
  s3 = s3
  cool = cool
  hot = hot
  NoTemp = NoTemp
  NoClient = NoClient
  NoMsg = NoMsg
  Absent = Absent
  Free = Free
  MAX_DEVICE = 2
  Sensors <- ThreeSensors
  Temps <- NoTemps
  HotTemps <- NoTemps
  TIMEOUT = 1
SYMMETRY ThreeSymmetric
INVARIANTS
  AtMostOneStranded
