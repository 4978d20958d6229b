SPECIFICATION Spec
CONSTANTS
  Inputs <- MCInputs
  Family = "all"
INVARIANT Braced
INVARIANT FlowUnaffected
INVARIANT LevelsMatchNesting
INVARIANT ElseExpected
INVARIANT Accepted
PROPERTY Advances
CHECK_DEADLOCK FALSE
