CONSTANTS
  Workers = {"w1", "w2"}
  Methods = {"user", "mapanything"}
  MaxRequests = 3
  MaxFailures = 1
  Sources = {"s1", "s2"}
  Ids = {"i1"}
  Ttl = 1
  MaxLag = 1
  Chunk = 1
  Kinds <- MCKinds
  MaxNow = 4
  MaxMessages = 3
  Parts = {"maps", "external"}
SPECIFICATION Spec
INVARIANTS MapsServed SweepNotSeen
PROPERTIES DefaultKept PosesAdvance LeftoversGo
CHECK_DEADLOCK FALSE
