SPECIFICATION FairSpec
CONSTANTS
  Size = 3
  Connections = 2
  QueueMode = FALSE
  SegmentSize = 1
  BufferSize = 2
  MaxRetries = 0
  TransientFloor = 1
  ShortBodies = FALSE
  SaveMayFail = TRUE
  Interruptions <- CancelOrDeadline
  MaxRuns = 2
  Dynamic = TRUE
  MinSplitSize = 1
  MinDynamicFileSize = 0
INVARIANTS
  TypeOK
  OneOwner
  NothingLost
  ClaimedIsWritten
  SuccessMeansWhole
  CancelSavesEverything
PROPERTIES
  EveryRunEnds
  UndisturbedRunSucceeds
  TransferSpec
CHECK_DEADLOCK FALSE
