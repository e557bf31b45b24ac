SPECIFICATION Spec
CONSTANTS
  SIZE = 3
  Messages = {m1, m2}
  NoMessage = NoMessage
INVARIANTS
  RingInv
PROPERTIES
  ImplementsLog
