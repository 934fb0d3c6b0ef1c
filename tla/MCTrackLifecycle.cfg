CONSTANTS
  Unreliable = 3
  Reactivation = 1
  DynamicFrames = 1
  StaticFrames = 2
  MaxAge = 3
  MaxElapsed = 2
  MaxBirths = 2
  MaxTracks = 3
SPECIFICATION FairSpec
INVARIANTS
  CountersMatch
  ReliableIsEarned
PROPERTIES
  NeverReused
  NoEarlyDeath
  UnseenTracksGo
