CONSTANTS
  t1 = t1
  t2 = t2
  s1 = s1
  s2 = s2
  Threads <- MCThreads
  Scenes <- MCOneScene
  Kinds <- MCLookups
  BuildMayFail = TRUE
  MaxWrites = 2
  MaxInvalidations = 2
  MaxFailures = 1
  MaxForced = 0
  MaxBuilt = 3
SPECIFICATION FairSpec
PROPERTIES
  LookupReturns
  TeardownHappens
