SPECIFICATION Spec
CONSTANTS
  getter = getter
  monitor = monitor
  accepter = accepter
  main = main
  stats = stats
  SIZE = 1
  Loggers <- AllLoggers
SYMMETRY Symmetric
INVARIANTS
  Bounded
  SettledRing
