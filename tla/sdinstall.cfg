SPECIFICATION FairSpec
CONSTANTS
  MaxLosses = 2
  MaxFaults = 1
INVARIANTS
  DoneBoots
  PanicHasCause
PROPERTIES
  DoneIsUsed
  Recovers
