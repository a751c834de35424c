SPECIFICATION Spec
CONSTANTS
  Procs = {p1, p2, p3, p4}
  NUM = 8
  UINT = 16
  None = None
SYMMETRY Symmetry
VIEW View
INVARIANTS
  DescriptorsOwned
  DoneMeansServed
  CompletionSeen
