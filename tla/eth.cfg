SPECIFICATION FairSpec
CONSTANTS
  TX_BUF_NUM = 2
  RX_BUF_NUM = 2
  BUDGET = 1
  TxDoneIrq = FALSE
INVARIANTS
  TypeOK
  TxIndexInv
  BlockedIffStopped
  NoForgottenFrame
  RxInOrder
  RxNoLostWakeup
PROPERTIES
  TxWakeTraffic
  RxServed
  CloseEnds
