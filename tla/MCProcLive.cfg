SPECIFICATION FairSpec
CONSTANTS
  NPROC = 3
  CPUs = {c1, c2}
  None = None
  Clock = Clock
  Calls <- Family
  Victims = {2}
PROPERTIES
  InitKeepsReaping
  KilledExits
