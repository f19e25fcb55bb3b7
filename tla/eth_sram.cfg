SPECIFICATION Spec
CONSTANTS
  SRAM_BASE = 4096
  SRAM_PHYS_SIZE = 131072
  DTCM_SIZE = 65536
  FRAME_MAX_SIZE = 2044
  RX_BUF_NUM = 12
  TX_BUF_NUM = 8
  DtcmOpens = 227
  SramOpens = 971
  MaxOpens = 1000
INVARIANTS
  LeakPerOpen
  SramLasts
CHECK_DEADLOCK FALSE
