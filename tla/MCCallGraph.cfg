CONSTANTS
  Scenarios = {"graph", "pool"}
  Files = {"jar", "file"}
  Jars = {"jar"}
  Classes = {"A", "B", "C"}
  Names = {"run", "go", "stop"}
  Descriptors = {1, 2}
  Contents <- FileContents
  Broken = Broken
  MaxEdits = 2
  MaxAnalyses = 3
  Characters = {"a", "b"}
  Strings <- PoolStrings
  Nul = Nul
  StartPoolSize = 7
  MaxBytes = 15
  MaxCrashes = 1
  Unused = unused
SPECIFICATION RunSpec
INVARIANTS
  ExportShowsCalls
  GraphIsUpToDate
  OldRowsDoNoHarm
  PoolReadsBack
