SPECIFICATION Spec
CONSTANTS
  Buffers = {b1, b2}
  NoBuf = NoBuf
  MaxRetries = 1
  NumMod = 3
INVARIANT OwnBuffer
