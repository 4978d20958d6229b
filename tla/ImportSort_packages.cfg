SPECIFICATION Spec
CONSTANTS
  Family = "packages"
  Inputs <- MCInputs
  Kind <- MCKind
  OwnName <- MCOwnName
  None = None
  Length = 3
  MaxNumber = 3
  MaxLines = 4
  MaxGap = 2
INVARIANT ImportsKept
CHECK_DEADLOCK FALSE
