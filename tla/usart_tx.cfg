SPECIFICATION FairSpec
CONSTANTS
  SIZE = 4
  WAKEUP_CHARS = 2
  SeqMod = 8
  MaxWrite = 5
INVARIANTS
  TypeOK
  RingInOrder
  TxArmed
  SleeperWoken
  FlowAgrees
PROPERTY
  WriteEnds
