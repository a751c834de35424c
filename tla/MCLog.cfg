SPECIFICATION FairSpec
CONSTANTS
  Procs = {p1, p2}
  Blocks = {b1, b2}
  Vals = {v1, v2}
  NotCached = NotCached
  MAXOPBLOCKS = 2
  LOGSIZE = 4
  LogSize = 3
INVARIANTS
  PinnedUntilHome
  SpaceReserved
  SyncedWhenIdle
PROPERTIES
  ImplementsAtomicDisk
  EveryWaiterWoken
