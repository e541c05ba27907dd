CONSTANTS
  i1 = i1
  i2 = i2
  i3 = i3
  NoId = NoId
  Ids <- TwoIds
  Sends <- EachSends
  MaxQueue = 1
  MaxTasks = 1
  MaxBatch = 1
  MaxRetries = 0
SPECIFICATION Spec
PROPERTIES RequestsAlwaysEnd
CHECK_DEADLOCK FALSE
