SPECIFICATION FairSpec
CONSTANTS
  Writers = {w1}
  Readers = {r1}
  Bytes = {a, b}
  PIPESIZE = 2
  UINT = 4
  MaxN = 3
  None = None
CHECK_DEADLOCK FALSE
INVARIANTS
  SleepersMustWait
PROPERTIES
  ImplementsFifo
  CloseUnblocks
