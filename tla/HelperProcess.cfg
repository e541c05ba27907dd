CONSTANTS
  i1 = i1
  i2 = i2
  i3 = i3
  NoId = NoId
  Ids <- ThreeIds
  Sends <- EachSends
  MaxQueue = 1
  MaxTasks = 1
  MaxBatch = 2
  MaxRetries = 1
SPECIFICATION Spec
INVARIANTS WaitersServed RunsOnce
PROPERTIES ImplementsService EveryRequestEnds StopEnds
CHECK_DEADLOCK FALSE
