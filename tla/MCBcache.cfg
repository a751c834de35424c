SPECIFICATION Spec
CONSTANTS
  Procs = {p1, p2, p3}
  Blocks = {k1, k2, k3}
  Vals = {v1, v2}
  None = None
  NBUF = 2
  LogMax = 1
SYMMETRY Symmetry
CHECK_DEADLOCK FALSE
INVARIANTS
  BuffersExact
  DirtyIsPinned
PROPERTIES
  ImplementsBlockStore
