CONSTANTS
  Jars = {j1}
  ClassFiles = {c1}
  Workers = {w1, w2}
  EntryCount = 7
  MaxConcurrentBuffers = 3
  Unreadable = {1, 3}
  Throwing = {4}
  PoolCatches = TRUE
  Addresses = {a1, a2, a3, a4}
  Null = null
  Idle = idle
  None = None
  Unused = unused
SPECIFICATION RunSpec
INVARIANTS
  ExitTellsOutcome
  ReportIsExact
  BufferBound
  BuffersInUse
  SleepsOnlyWithoutSlots
  OutputIsWhole
PROPERTIES
  EverythingEnds
