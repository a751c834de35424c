SPECIFICATION Spec
CONSTANTS
  Procs = {p1, p2, p3}
  Inums = {i1, i2, i3}
  NINODE = 2
  MaxLinks = 2
  None = None
SYMMETRY Symmetry
CHECK_DEADLOCK FALSE
INVARIANTS
  EntriesExact
  InUseIsAllocated
  IputWontBlock
PROPERTIES
  NoneLost
