SPECIFICATION Spec
CONSTANTS
  fast = fast
  careful = careful
  Size = 2
  Settings <- MCSettings
  Modes <- BothModes
  SizesDiffer = FALSE
  ShortBodies = FALSE
  OutputMayVanish = FALSE
  MaxCommands = 4
SYMMETRY Interchangeable
INVARIANTS
  SuccessMeansWhole
CHECK_DEADLOCK FALSE
