CONSTANTS
  Chunks = {c1, c2, c3, c4, c5}
  Null = Null
SPECIFICATION Spec
INVARIANTS ListIsOrder
