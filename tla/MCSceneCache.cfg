CONSTANTS
  t1 = t1
  t2 = t2
  s1 = s1
  s2 = s2
  Threads <- MCThreads
  Scenes <- MCScenes
  Kinds <- MCKinds
  BuildMayFail = FALSE
  MaxWrites = 3
  MaxInvalidations = 2
  MaxFailures = 1
  MaxForced = 1
  MaxBuilt = 3
SPECIFICATION Spec
SYMMETRY Symmetry
INVARIANTS
  NoLiveTeardown
  NoTrackerLeak
  SceneMatchesData
PROPERTIES
  ForcedSeesWrite
  ViewSpec
