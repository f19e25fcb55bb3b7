------------------------------- MODULE EthSram -------------------------------
(***************************************************************************)
(* How the STM32 Ethernet driver takes its descriptor rings and frame      *)
(* buffers from on-chip SRAM (stm32_sram_alloc(), stm32_eth_buffers_alloc()*)
(* and stm32_eth_buffers_free() in drivers/net/arm/stm32_eth.c): a pointer *)
(* that moves up at every open() and down at every close() or failed       *)
(* open(). The probe takes its two arrays of buffer pointers from the same *)
(* place. Addresses are byte offsets from SRAM_PHYS_OFFSET.                *)
(***************************************************************************)
EXTENDS Integers

CONSTANTS
  SRAM_BASE,        \* CONFIG_STM32_ETHER_BUF_IN_SRAM_BASE
  SRAM_PHYS_SIZE,
  DTCM_SIZE,        \* the part of SRAM no cache sits in front of
  FRAME_MAX_SIZE, RX_BUF_NUM, TX_BUF_NUM,   \* the board's platform data
  DtcmOpens,        \* the last open() whose rings end inside the DTCM
  SramOpens,        \* the last open() that finds enough SRAM
  MaxOpens          \* bound: calls of open() considered

ASSUME SramAssumption ==
  /\ SRAM_BASE \in Nat /\ SRAM_PHYS_SIZE \in Nat /\ DTCM_SIZE \in Nat
  /\ FRAME_MAX_SIZE \in Nat /\ RX_BUF_NUM \in Nat /\ TX_BUF_NUM \in Nat
  /\ DtcmOpens \in Nat /\ SramOpens \in Nat /\ MaxOpens \in Nat

VARIABLES
  sram_pointer,
  held,        \* does the device hold rings and buffers?
  opens,       \* how often open() has been called
  bug          \* the BUG_ON() in stm32_sram_alloc() has fired

vars == <<sram_pointer, held, opens, bug>>

ALIGN4(n) == ((n + 3) \div 4) * 4

BD_SIZE == 16    \* sizeof(struct stm32_eth_dma_bd)
FAKE_SKB == 4    \* sizeof(struct stm32_sk_buff_fake)
SkbSize == FAKE_SKB + FRAME_MAX_SIZE + 4

\* What one stm32_sram_alloc() adds to the pointer.
sram_alloc(size) == ALIGN4(size) + 4

\* Two rings of descriptors and a buffer for each descriptor.
AllocSize ==
  sram_alloc(BD_SIZE * RX_BUF_NUM) + sram_alloc(BD_SIZE * TX_BUF_NUM)
    + (RX_BUF_NUM + TX_BUF_NUM) * sram_alloc(SkbSize)

\* Mutant: the frame buffers only.
TotalAllocSizeNoBds == SkbSize * (RX_BUF_NUM + TX_BUF_NUM)

\* total_alloc_size in stm32_eth_buffers_free().
total_alloc_size == (BD_SIZE + SkbSize) * (RX_BUF_NUM + TX_BUF_NUM)

POINTER == 4     \* sizeof(void *)

\* The arrays rx_skb and tx_skb, which the probe allocates and nobody frees.
SkbArrays == sram_alloc(POINTER * RX_BUF_NUM) + sram_alloc(POINTER * TX_BUF_NUM)

\* The pointer as the probe leaves it, before the first open().
ProbedPointer == ALIGN4(SRAM_BASE) + SkbArrays

\* The probe itself does not meet the BUG_ON() in stm32_sram_alloc().
ASSUME ProbeAssumption == ProbedPointer < SRAM_PHYS_SIZE

Init ==
  /\ sram_pointer = ProbedPointer
  /\ held = FALSE
  /\ opens = 0
  /\ bug = FALSE

\* open(): the pointer only grows while buffers are taken, so one of the
\* BUG_ON()s fires iff the last one does.
buffers_alloc ==
  /\ ~held /\ ~bug /\ opens < MaxOpens
  /\ opens' = opens + 1
  /\ held' = TRUE
  /\ sram_pointer' = sram_pointer + AllocSize
  /\ bug' = (sram_pointer + AllocSize >= SRAM_PHYS_SIZE)

\* Mutant: a failed open() or a close() that forgets to move the pointer.
buffers_free_nothing ==
  /\ held /\ ~bug
  /\ held' = FALSE
  /\ UNCHANGED <<sram_pointer, opens, bug>>

\* close(), or an open() that fails after it has taken the buffers.
buffers_free ==
  /\ held /\ ~bug
  /\ sram_pointer' = sram_pointer - total_alloc_size
  /\ held' = FALSE
  /\ UNCHANGED <<opens, bug>>

Next == buffers_alloc \/ buffers_free

Spec == Init /\ [][Next]_vars

-----------------------------------------------------------------------------
\* What buffers_free() does not give back.
Leak == AllocSize - total_alloc_size

\* The pointer after any number of calls of open() and close(): every open()
\* leaves Leak bytes behind, for good, whether it succeeds or fails, on top of
\* what the probe took.
LeakPerOpen ==
  sram_pointer = ProbedPointer + opens * Leak
                   + (IF held THEN total_alloc_size ELSE 0)

\* Comment on stm32f7_eth_data in arch/arm/mach-stm32/eth.c: "Keep the rings
\* inside the DTCM." The leak lets that be true of the first DtcmOpens calls of
\* open() and of no later one, and the BUG_ON() in stm32_sram_alloc() fires in
\* the call after the first SramOpens and not before.
SramLasts ==
  held => /\ sram_pointer <= DTCM_SIZE <=> opens <= DtcmOpens
          /\ bug <=> opens > SramOpens
=============================================================================
