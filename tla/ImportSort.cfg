SPECIFICATION Spec
CONSTANTS
  Family = "includes"
  Inputs <- MCInputs
  Kind <- MCKind
  OwnName <- MCOwnName
  None = None
  Length = 4
  MaxNumber = 3
  MaxLines = 4
  MaxGap = 2
INVARIANTS ImportsKept SortedAtEnd
PROPERTY Stable
CHECK_DEADLOCK FALSE
