SPECIFICATION Spec
VIEW Live
SYMMETRY Symmetry
CONSTANTS
  Procs = {p1, p2}
  NFILES = 2
  Fds = {1, 2}
  Ip <- MCIp
  NBLOCKS = 5
  NDIRECT = 2
  BSIZE = 2
  MAXOPBLOCKS = 6
  Counts = {7}
  Lengths = {0, 5}
  MaxTorn = 1
  None = None
INVARIANTS
  BlocksExact
  WritesFitLog
PROPERTIES
  ImplementsByteFiles
