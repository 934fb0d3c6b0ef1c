CONSTANTS
  Scenarios <- MCInterrupted
  MaxTime = 6
  MaxPosition = 2
  HomePositions <- NearHome
  Settle = 1
  MaxPoseAge = 2
  Reports <- NeverMoving
  MaxInFlight = 1
  Latency = 2
  Uncertainty = 1
SPECIFICATION Spec
INVARIANT
  DwellInOneSession
CHECK_DEADLOCK FALSE
