SPECIFICATION Spec
CONSTANT Inputs <- MCInputs
INVARIANTS TypeOK TextKept SameBytes ReadsBack
PROPERTY OnlyIllegalLost
CHECK_DEADLOCK FALSE
