CONSTANTS
  Scenarios = {"database", "list", "query"}
  Strings = {a, b}
  MaxFiles = 2
  MaxClasses = 2
  Unused = unused
  MaxRows = 5
  MaxThreads = 6
SPECIFICATION RunSpec
INVARIANTS
  ClosedAfterExit
  StringsBeforeRows
  
  PoolFileIsPrefix
  ListIsExact
  PrintsWhatIsAsked
PROPERTIES
  ExitSavesAll
SYMMETRY NameSymmetry
