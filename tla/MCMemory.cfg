SPECIFICATION MCSpec
CONSTANTS
  Procs = {1, 2, 3}
  NPAGES = 16
  PGSIZE = 2
  PTES = 2
  MaxSz = 6
  MAXARG = 2
  HeapMax = 9
  CORE = 3
  Units = {1, 2, 4}
INVARIANTS
  PagesConserved
  HeapExact
