SPECIFICATION Spec
CONSTANTS
  TX_BUF_NUM = 2
  RX_BUF_NUM = 2
  BUDGET = 1
  TxDoneIrq = FALSE
INVARIANT CapturedIsFree
