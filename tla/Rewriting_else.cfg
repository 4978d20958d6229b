CHECK_DEADLOCK FALSE
SPECIFICATION Spec
CONSTANTS
  Inputs <- MCInputs
  Families = {"dangling"}
INVARIANT MeaningKept

