\* Two tracks, the first of which may return while its first query is still in the
\* pool; the database is empty and fills with what this process writes.
CONSTANTS
  r1 = r1
  r2 = r2
  person = person
  Tracks = {r1, r2}
  Earlier = {}
  NoGid = NoGid
  MinFeatures = 1
  MaxLives <- MCLives
SPECIFICATION Spec
INVARIANTS
  GidUnique
  ClaimsAfterProof
  StagedIsTimed
PROPERTIES
  HandedOverForGood
