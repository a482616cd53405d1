SPECIFICATION ServerFairSpec
CONSTANTS
  Servers = {s1}
  Clients = {c1}
  MaxStarts = 1
  PortShared = FALSE
PROPERTY QuitStops
CHECK_DEADLOCK FALSE
