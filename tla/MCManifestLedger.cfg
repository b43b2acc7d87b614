SPECIFICATION MCSpec
CONSTANTS
  Size = 5
  Connections = 2
  Foreign <- MCForeign
  MaxForeignRanges = 2
  MaxSize = 24
  MaxParts = 9
INVARIANTS
  ChunksTileTheFile
  SegmentsTileTheFile
  TypeOK
  Canonical
  ExactBookkeeping
  PlansExactlyTheGaps
  CompleteMeansEveryByte
CHECK_DEADLOCK FALSE
