SPECIFICATION FairSpec
CONSTANTS
  Size = 6
  Connections = 2
  QueueMode = TRUE
  SegmentSize = 1
  BufferSize = 1
  MaxRetries = 0
  TransientFloor = 0
  ShortBodies = FALSE
  SaveMayFail = FALSE
  Interruptions <- Cancel
  MaxRuns = 1
PROPERTIES
  UndisturbedRunSucceeds
  ShortQueueEnds
CHECK_DEADLOCK FALSE
