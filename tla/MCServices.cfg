CONSTANTS
  Categories <- MCCategories
  Cameras = {"a"}
  Messengers <- MCMessengers
  MaxMessages = 3
  Topics = {"database", "camera"}
  MaxUpdates = 2
  MaxDrops = 2
  Scenarios <- MCScenarios
  Parents = {"p1", "p2"}
  Children = {"c1"}
  ParentOf <- MCParentOf
  Hosts = {"h1", "h2"}
  BadHosts = {}
  FirstRow <- MCFirstRow
  Capacity = 2
  MaxChanges = 2
  MaxFailures = 1
  MaxLosses = 1
  Objects = {"a", "b", "c"}
  TypeOf <- MCTypeOf
  Debounce = 1
  MinFrames = 1
  MaxMoves = 5
  Tags = {"t1", "t2"}
  TagsOf <- MCTagsOf
  Runs = {"r1", "r2"}
  MaxMap = 2
  MaxCalls = 2
  MaxRefusals = 1
  Parts = {"region", "registration", "trackers", "session", "calibration", "children"}
SPECIFICATION Spec
INVARIANTS
  QueueBounded ManagerHeld HandlerOutlivesCalls
  CalibrationNotOutdated PendingIsServed LoopsOwned StatusSettles
PROPERTIES
  ExitFollowsEntry NothingObsolete ServicesSettle
CHECK_DEADLOCK FALSE
