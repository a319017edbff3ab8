SPECIFICATION TargetsSpec
CONSTANTS
  None = None
  File <- MCFile
  Contents <- MCContents
INVARIANTS
  TestsAlike
  LastGoodLoads
