SPECIFICATION FairSpec
CONSTANTS
  Buffers = {b1, b2}
  NoBuf = NoBuf
  MaxRetries = 1
  NumMod = 3
INVARIANTS
  AssertionsHold
  QuietWhenDone
  EventsAreOwn
  SuccessIsReal
  BytesAreOwn
PROPERTY
  RequestEnds
CHECK_DEADLOCK FALSE
