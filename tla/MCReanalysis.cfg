CONSTANTS
  Entries = {1, 2}
  Layouts <- JarLayouts
  Contents = {1, 2, 3}
  DigestOf <- Digests
  NoDigest = NoDigest
  MaxChanges = 2
  MaxCount = 5
  MaxCrashes = 1
SPECIFICATION RunSpec
INVARIANTS
  RecordedDigestIsCurrent
  RecordedJarIsComplete
  RerunReportsUnchanged
  
PROPERTIES
  GetsRecorded
