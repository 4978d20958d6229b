CHECK_DEADLOCK FALSE
SPECIFICATION Spec
CONSTANTS
  Inputs <- MCInputs
  Families = {"braces", "loops", "cases", "scrub", "all"}
INVARIANTS MeaningKept BracesPair ChainsAgree Settled

PROPERTY Progress
