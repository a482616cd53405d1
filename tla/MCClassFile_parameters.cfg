\* A public method gets other parameters
CONSTANTS
  Scenarios = {"methods"}
  Broken = Broken
  Unused = Unused
SPECIFICATION Spec
PROPERTY DistinguishesDifferentClasses
