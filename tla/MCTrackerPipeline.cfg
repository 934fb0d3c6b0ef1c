\* Three scopes, two workers that are stopped and joined one after the other: the
\* third scope starves, and a queue is full with the second frame.
CONSTANTS
  Scene = scene
  Scenes <- OneScene
  SceneOf <- AllInOneScene
  Cameras = {cam1}
  Categories = {person, vehicle, bicycle}
  MaxWorkers = 2
  QueueCapacity = 1
  MaxFrames = 2
  Times = {1}
  NoBatch = NoBatch
SPECIFICATION FairSpec
INVARIANTS
  TypeOK
  FrameConservation
  CameraOrder
  DrainedWhenStopped
PROPERTIES
  FeedSpec
  StopTerminates
  FramesSettle
