SPECIFICATION Spec
CONSTANTS
  BasePage = 1
  Pages = 4
  Counts = {1, 2, 3}
  Aligns = {1, 2}
INVARIANTS
  Partition
  FreeListCoalesced
  FirstFitComplete
PROPERTY
  ImplementsAbs
