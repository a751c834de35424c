SPECIFICATION Spec
CHECK_DEADLOCK FALSE
SYMMETRY Symmetry
CONSTANTS
  Procs = {p1, p2}
  Inums = {1, 2, 3}
  ROOTINO = 1
  FileNames = {a, b}
  MaxEntries = 4
  MaxLinks = 2
  None = None
INVARIANTS
  TreeExact
  NamesAllocated
  NoLockCircle
