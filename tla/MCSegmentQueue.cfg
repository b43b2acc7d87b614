SPECIFICATION Spec
CONSTANTS
  Size = 4
  Connections = 2
  QueueMode = TRUE
  SegmentSize = 2
  BufferSize = 2
  MaxRetries = 0
  TransientFloor = 1
  ShortBodies = FALSE
  SaveMayFail = TRUE
  Interruptions <- CancelOrDeadline
  MaxRuns = 2
INVARIANTS
  TypeOK
  OneOwner
  NothingLost
  ProducerReadsAlone
PROPERTIES
  TransferSpec
CHECK_DEADLOCK FALSE
