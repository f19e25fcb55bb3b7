SPECIFICATION FairSpec
CONSTANTS
  Blocks = 4
  Tries = 3
  BlockMod = 2
  MaxThreads = 2
  Cap = 3
INVARIANTS
  CompleteIsTrue
  StoredInPlace
  FailureHasCauses
PROPERTY
  ThreadEnds
CHECK_DEADLOCK FALSE
