CONSTANTS
  Configs <- MCConfigs
  Blank = 2
  Infinity = 99
SPECIFICATION Spec
INVARIANTS InOnePlace LoopsInOrder OneColumn SpanKept ThresholdKept
PROPERTY CallsReturn
CHECK_DEADLOCK FALSE
