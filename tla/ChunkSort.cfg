CONSTANTS
  a1 = a1
  a2 = a2
  b = b
  c1 = c1
  c2 = c2
  N = 5
  Chunks <- MCChunks
  Less <- MCLess
SPECIFICATION Spec
INVARIANTS InStep SortedAtEnd FewSwaps
PROPERTIES NeverUnsettles Terminates
CHECK_DEADLOCK FALSE
