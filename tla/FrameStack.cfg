SPECIFICATION Spec
CONSTANTS
  outer = outer
  open = open
  inner = inner
  Unknown = Unknown
  States <- MCStates
  Level <- MCLevel
  Empty = outer
  Blank = open
  MaxNest = 3
INVARIANT TypeOK
INVARIANT FramesMatchRegions
PROPERTY Transparent
CHECK_DEADLOCK FALSE
