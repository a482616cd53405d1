SPECIFICATION InsistentSpec
CONSTANTS
  Servers = {s1, s2}
  Clients = {c1, c2}
  MaxStarts = 2
  PortShared = TRUE
INVARIANTS
  DrainedBeforeStop
  OneServerPerMutex
  OneSaveAfterStop
PROPERTIES
  QuitStops
CHECK_DEADLOCK FALSE
