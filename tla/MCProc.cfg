SPECIFICATION Spec
CONSTANTS
  NPROC = 3
  CPUs = {c1, c2}
  None = None
  Clock = Clock
  Calls <- AnyCalls
  Victims = {2}
SYMMETRY Symmetry
INVARIANTS
  OneStackOneCpu
  NoMissedWakeup
  ParentCanWait
