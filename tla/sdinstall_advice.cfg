SPECIFICATION Spec
CONSTANTS
  MaxLosses = 0
  MaxFaults = 0
INVARIANT
  AdviceWorks
