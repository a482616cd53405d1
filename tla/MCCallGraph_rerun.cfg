\* The same files are analysed twice
CONSTANTS
  Scenarios = {"graph"}
  Files = {"jar", "file"}
  Jars = {"jar"}
  Classes = {"A", "B", "C"}
  Names = {"run", "go", "stop"}
  Descriptors = {1, 2}
  Contents <- FileContents
  Broken = Broken
  MaxEdits = 0
  MaxAnalyses = 2
  Characters = {"a", "b"}
  Strings <- PoolStrings
  Nul = Nul
  StartPoolSize = 7
  MaxBytes = 15
  MaxCrashes = 1
  Unused = unused
SPECIFICATION RunSpec
INVARIANT
  EdgesAreNew
