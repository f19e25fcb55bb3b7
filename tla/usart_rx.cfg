SPECIFICATION BusySpec
CONSTANTS
  BUF_LEN = 4
  SeqMod = 16
  MaxDuring = 8
INVARIANTS
  InOrder
  ReaderBehind
  NoCharMissed
  StoppedDrained
PROPERTY
  Delivered
