SPECIFICATION Spec
CONSTANTS
  fast = fast
  careful = careful
  Size = 3
  Settings <- MCSettings
  Modes <- BothModes
  SizesDiffer = TRUE
  ShortBodies = TRUE
  OutputMayVanish = TRUE
  MaxCommands = 4
SYMMETRY Interchangeable
INVARIANTS
  TypeOK
PROPERTIES
  OnlyTruncationBreaksTrust
  SuccessFromTrust
  ProgressIsKept
CHECK_DEADLOCK FALSE
