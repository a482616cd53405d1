CONSTANTS
  Scenarios = {"memory", "file", "legal signature", "short signature", "legal descriptor",
               "short descriptor", "attribute", "methods", "fields", "public", "all"}
  Broken = Broken
  Unused = Unused
SPECIFICATION Spec
INVARIANTS
  ParsedIsWritten
  FormatIsRead
  OtherInputEnds
  DiffIsExact
PROPERTIES
  DigestShowsVisibleEdits
