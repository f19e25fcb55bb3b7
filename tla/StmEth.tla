-------------------------------- MODULE StmEth --------------------------------
(***************************************************************************)
(* The data path of the STM32 Ethernet driver (drivers/net/arm/stm32_eth.c)*)
(* in the configuration the board is built with: one CPU, no kernel        *)
(* preemption, frames copied through buffers in on-chip SRAM.              *)
(*                                                                         *)
(* Four actors share the two descriptor rings and the DMA registers:       *)
(*   - xmit(), called by the network core, serialised by its tx lock;      *)
(*   - the NAPI poll, a softirq that may call xmit() while it hands a      *)
(*     frame to the protocols;                                             *)
(*   - the MAC interrupt, which preempts both of them and is not itself    *)
(*     preempted;                                                          *)
(*   - the DMA engine, which runs beside all three.                        *)
(* open() and close() run in process context and start and stop the rest.  *)
(*                                                                         *)
(* An action is what its actor does between two points where another actor *)
(* may run: a section under spin_lock_irqsave is one action, a read of a   *)
(* descriptor the DMA may write concurrently starts a new one. Frame       *)
(* contents, error bits and statistics never influence control and are     *)
(* left out; xmit's drop of an oversized frame changes statistics only.    *)
(***************************************************************************)
EXTENDS Integers, FiniteSets

CONSTANTS
  TX_BUF_NUM,   \* descriptors in the transmit ring (tx_buf_num)
  RX_BUF_NUM,   \* descriptors in the receive ring (rx_buf_num)
  BUDGET,       \* frames one NAPI poll may take (the napi weight)
  TxDoneIrq     \* does the DMA raise DMASR.TS when a frame has been sent?

ASSUME TxAssumption == TX_BUF_NUM \in Nat \ {0}
ASSUME RxAssumption == RX_BUF_NUM \in Nat \ {0}
ASSUME BudgetAssumption == BUDGET \in Nat \ {0}
ASSUME IrqAssumption == TxDoneIrq \in BOOLEAN

VARIABLES
  phase,         \* progress of open()/close()
  tx_own,        \* tx_own[i]: STM32_DMA_TBD_DMA_OWN of tx_bd[i]
  tx_todo_idx,   \* next descriptor xmit() takes
  tx_done_idx,   \* next descriptor tx_complete() looks at
  tx_pending,    \* captured and not yet completed descriptors
  tx_blocked,    \* the ring was full, the queue is to be woken
  queue_stopped, \* __QUEUE_STATE_XOFF of the net device's queue
  xmit,          \* progress of the running xmit(): [pc, idx]
  rx_own,        \* rx_own[i]: STM32_DMA_RBD_DMA_OWN of rx_bd[i]
  rx_done_idx,   \* next descriptor rx_get() looks at
  poll,          \* progress of the running NAPI poll: [pc, work]
  napi,          \* NAPI_STATE_SCHED and NAPI_STATE_DISABLE
  irq,           \* is the interrupt handler inside tx_complete()?
  dmasr,         \* pending status bits
  dmaier,        \* enabled interrupts
  dma            \* the engine: running, tx suspended, current descriptors

txVars   == <<tx_own, tx_todo_idx, tx_done_idx, tx_pending, tx_blocked>>
rxVars   == <<rx_own, rx_done_idx>>
hwVars   == <<dmasr, dmaier, dma>>
vars == <<phase, txVars, queue_stopped, xmit, rxVars, poll, napi, irq, hwVars>>

TxBd == 0 .. TX_BUF_NUM - 1
RxBd == 0 .. RX_BUF_NUM - 1

TxNext(i) == (i + 1) % TX_BUF_NUM
RxNext(i) == (i + 1) % RX_BUF_NUM

\* STM32_MAC_DMASR_TX_MSK and _RX_MSK, without the bits (TUS, ROS) that only
\* count errors on top of what TBUS and RBUS do.
TX_MSK == {"TS", "TBUS"}
RX_MSK == {"RS", "RBUS"}

\* How far open() and close() have got. The interrupt is requested in the last
\* four; the network core calls xmit() in "up" only (dev_deactivate() has run
\* before close()).
Phases == {"down", "allocated", "started", "up", "closing", "napi_off", "queue_off"}
IrqRequested == phase \in {"up", "closing", "napi_off", "queue_off"}

DmaType == [run : BOOLEAN, tx_susp : BOOLEAN, tx : TxBd, rx : RxBd]

TypeOK ==
  /\ phase \in Phases
  /\ tx_own \in [TxBd -> BOOLEAN]
  /\ tx_todo_idx \in TxBd
  /\ tx_done_idx \in TxBd
  /\ tx_pending \in 0 .. TX_BUF_NUM
  /\ tx_blocked \in BOOLEAN
  /\ queue_stopped \in BOOLEAN
  /\ xmit \in [pc : {"idle", "captured", "owned", "demanded"}, idx : TxBd]
  /\ rx_own \in [RxBd -> BOOLEAN]
  /\ rx_done_idx \in RxBd
  /\ poll \in [pc : {"off", "get", "next", "complete", "ack", "resched"},
               work : 0 .. BUDGET]
  /\ napi \in [sched : BOOLEAN, disable : BOOLEAN]
  /\ irq \in BOOLEAN
  /\ dmasr \subseteq TX_MSK \cup RX_MSK
  /\ dmaier \subseteq {"TIE", "RIE"}
  /\ dma \in DmaType

\* After probe(): netif_napi_add() leaves the instance with SCHED set.
Init ==
  /\ phase = "down"
  /\ tx_own = [i \in TxBd |-> FALSE]
  /\ tx_todo_idx = 0
  /\ tx_done_idx = 0
  /\ tx_pending = 0
  /\ tx_blocked = FALSE
  /\ queue_stopped = FALSE
  /\ xmit = [pc |-> "idle", idx |-> 0]
  /\ rx_own = [i \in RxBd |-> FALSE]
  /\ rx_done_idx = 0
  /\ poll = [pc |-> "off", work |-> 0]
  /\ napi = [sched |-> TRUE, disable |-> FALSE]
  /\ irq = FALSE
  /\ dmasr = {}
  /\ dmaier = {}
  /\ dma = [run |-> FALSE, tx_susp |-> FALSE, tx |-> 0, rx |-> 0]

\* No softirq, interrupt or xmit() is in progress: process context runs.
ProcessContext == ~irq /\ poll.pc = "off" /\ xmit.pc = "idle"

-----------------------------------------------------------------------------
(* open(): buffers_alloc() and napi_enable(), then hw_start(), then        *)
(* request_irq() and the enabling of interrupts.                           *)

OpenAlloc ==
  /\ phase = "down" /\ ProcessContext
  /\ phase' = "allocated"
  /\ rx_own' = [i \in RxBd |-> TRUE]
  /\ tx_own' = [i \in TxBd |-> FALSE]
  /\ napi' = [napi EXCEPT !.sched = FALSE]
  /\ UNCHANGED <<tx_todo_idx, tx_done_idx, tx_pending, tx_blocked, rx_done_idx,
                 queue_stopped, xmit, poll, irq, hwVars>>

\* hw_start() stopped the engine, reset the MAC and gave it the rings. The
\* indices are set before the interrupt is requested.
OpenStart ==
  /\ phase = "allocated" /\ ProcessContext
  /\ phase' = "started"
  /\ dma' = [run |-> TRUE, tx_susp |-> FALSE, tx |-> 0, rx |-> 0]
  /\ dmasr' = {} /\ dmaier' = {}
  /\ rx_done_idx' = 0
  /\ tx_todo_idx' = 0 /\ tx_done_idx' = 0
  /\ tx_pending' = 0 /\ tx_blocked' = FALSE
  /\ UNCHANGED <<tx_own, rx_own, queue_stopped, xmit, poll, napi, irq>>

\* hw_start() timed out on the MAC reset or on the FIFO flush.
OpenStartFails ==
  /\ phase = "allocated" /\ ProcessContext
  /\ phase' = "down"
  /\ napi' = [napi EXCEPT !.sched = TRUE]
  /\ dma' = [dma EXCEPT !.run = FALSE]
  /\ dmasr' = {} /\ dmaier' = {}
  /\ UNCHANGED <<txVars, rxVars, queue_stopped, xmit, poll, irq>>

OpenIrq ==
  /\ phase = "started" /\ ProcessContext
  /\ phase' = "up"
  /\ dmaier' = dmaier \cup {"TIE", "RIE"}
  /\ queue_stopped' = FALSE
  /\ UNCHANGED <<txVars, rxVars, xmit, poll, napi, irq, dmasr, dma>>

OpenIrqFails ==
  /\ phase = "started" /\ ProcessContext
  /\ phase' = "down"
  /\ napi' = [napi EXCEPT !.sched = TRUE]
  /\ dma' = [dma EXCEPT !.run = FALSE]
  /\ UNCHANGED <<txVars, rxVars, queue_stopped, xmit, poll, irq, dmasr, dmaier>>

-----------------------------------------------------------------------------
(* close(): napi_disable() waits for a scheduled poll to finish; interrupts *)
(* stay enabled until the queue has been stopped.                           *)

CloseBegin ==
  /\ phase = "up" /\ ProcessContext
  /\ phase' = "closing"
  /\ napi' = [napi EXCEPT !.disable = TRUE]
  /\ UNCHANGED <<txVars, rxVars, queue_stopped, xmit, poll, irq, hwVars>>

CloseNapi ==
  /\ phase = "closing" /\ ProcessContext
  /\ ~napi.sched
  /\ phase' = "napi_off"
  /\ napi' = [sched |-> TRUE, disable |-> FALSE]
  /\ UNCHANGED <<txVars, rxVars, queue_stopped, xmit, poll, irq, hwVars>>

CloseQueue ==
  /\ phase = "napi_off" /\ ProcessContext
  /\ phase' = "queue_off"
  /\ queue_stopped' = TRUE
  /\ UNCHANGED <<txVars, rxVars, xmit, poll, napi, irq, hwVars>>

\* Interrupts off, free_irq(), hw_stop(), buffers_free().
CloseHw ==
  /\ phase = "queue_off" /\ ProcessContext
  /\ phase' = "down"
  /\ dmaier' = dmaier \ {"TIE", "RIE"}
  /\ dma' = [dma EXCEPT !.run = FALSE]
  /\ UNCHANGED <<txVars, rxVars, queue_stopped, xmit, poll, napi, irq, dmasr>>

-----------------------------------------------------------------------------
(* xmit(). The core calls it from process context or from the protocols    *)
(* that the NAPI poll is feeding, never on a stopped queue.                *)

XmitCalled ==
  /\ phase = "up" /\ ~queue_stopped
  /\ ~irq /\ xmit.pc = "idle" /\ poll.pc \in {"off", "next"}

\* Mutant: only tx_blocked is checked.
XmitCaptureBlockedOnly ==
  /\ XmitCalled /\ ~tx_blocked
  /\ xmit' = [pc |-> "captured", idx |-> tx_todo_idx]
  /\ tx_pending' = tx_pending + 1
  /\ tx_todo_idx' = TxNext(tx_todo_idx)
  /\ UNCHANGED <<phase, tx_own, tx_done_idx, tx_blocked, queue_stopped, rxVars,
                 poll, napi, irq, hwVars>>

\* Under tx_lock: take the next descriptor.
XmitCapture ==
  /\ XmitCalled
  /\ ~tx_blocked /\ tx_pending < TX_BUF_NUM
  /\ xmit' = [pc |-> "captured", idx |-> tx_todo_idx]
  /\ tx_pending' = tx_pending + 1
  /\ tx_todo_idx' = TxNext(tx_todo_idx)
  /\ UNCHANGED <<phase, tx_own, tx_done_idx, tx_blocked, queue_stopped, rxVars,
                 poll, napi, irq, hwVars>>

\* "TX queue overflow": NETDEV_TX_BUSY, the core keeps the frame.
XmitBusy ==
  /\ XmitCalled
  /\ tx_blocked \/ tx_pending >= TX_BUF_NUM
  /\ UNCHANGED vars

\* Copy the frame into the descriptor's buffer and hand it to the DMA.
XmitOwn ==
  /\ xmit.pc = "captured" /\ ~irq
  /\ tx_own' = [tx_own EXCEPT ![xmit.idx] = TRUE]
  /\ xmit' = [xmit EXCEPT !.pc = "owned"]
  /\ UNCHANGED <<phase, tx_todo_idx, tx_done_idx, tx_pending, tx_blocked,
                 queue_stopped, rxVars, poll, napi, irq, hwVars>>

\* Mutant: the poll demand is forgotten.
XmitDemandForgotten ==
  /\ xmit.pc = "owned" /\ ~irq
  /\ xmit' = [xmit EXCEPT !.pc = "demanded"]
  /\ UNCHANGED <<phase, txVars, queue_stopped, rxVars, poll, napi, irq, hwVars>>

\* Transmit poll demand (dmatpdr).
XmitDemand ==
  /\ xmit.pc = "owned" /\ ~irq
  /\ dma' = [dma EXCEPT !.tx_susp = FALSE]
  /\ xmit' = [xmit EXCEPT !.pc = "demanded"]
  /\ UNCHANGED <<phase, txVars, queue_stopped, rxVars, poll, napi, irq, dmasr, dmaier>>

\* Mutant: the queue is stopped and tx_blocked is not set.
XmitStopUnmarked ==
  /\ xmit.pc = "demanded" /\ ~irq
  /\ xmit' = [xmit EXCEPT !.pc = "idle"]
  /\ queue_stopped' = (queue_stopped \/ tx_pending = TX_BUF_NUM)
  /\ UNCHANGED <<phase, txVars, rxVars, poll, napi, irq, hwVars>>

\* Under tx_lock: stop the queue if there is no place for the next frame.
XmitStop ==
  /\ xmit.pc = "demanded" /\ ~irq
  /\ xmit' = [xmit EXCEPT !.pc = "idle"]
  /\ tx_blocked' = (tx_blocked \/ tx_pending = TX_BUF_NUM)
  /\ queue_stopped' = (queue_stopped \/ tx_pending = TX_BUF_NUM)
  /\ UNCHANGED <<phase, tx_own, tx_todo_idx, tx_done_idx, tx_pending, rxVars,
                 poll, napi, irq, hwVars>>

-----------------------------------------------------------------------------
(* The interrupt handler.                                                   *)

\* The line is asserted by an enabled and pending event; the CPU takes it
\* outside the handler itself and outside poll's spin_lock_irqsave section.
IrqAsserted ==
  \/ "TS" \in dmasr /\ "TIE" \in dmaier
  \/ "RS" \in dmasr /\ "RIE" \in dmaier

napi_schedule_prep == ~napi.disable /\ ~napi.sched

\* Read and acknowledge the status, and do the RX part.
IrqEnter ==
  /\ IrqRequested /\ IrqAsserted
  /\ ~irq /\ poll.pc # "ack"
  /\ LET schedule == dmasr \cap RX_MSK # {} /\ napi_schedule_prep
     IN /\ napi' = [napi EXCEPT !.sched = @ \/ schedule]
        /\ dmaier' = IF schedule THEN dmaier \ {"RIE"} ELSE dmaier
  /\ irq' = (dmasr \cap TX_MSK # {})
  /\ dmasr' = {}
  /\ UNCHANGED <<phase, txVars, queue_stopped, xmit, rxVars, poll, dma>>

\* Mutant: tx_pending is not counted down.
TxCompleteBdUncounted ==
  /\ irq /\ tx_pending > 0 /\ ~tx_own[tx_done_idx]
  /\ tx_done_idx' = TxNext(tx_done_idx)
  /\ UNCHANGED <<phase, tx_own, tx_todo_idx, tx_pending, tx_blocked, queue_stopped,
                 xmit, rxVars, poll, napi, irq, hwVars>>

\* One round of tx_complete(): a descriptor the DMA has given back.
TxCompleteBd ==
  /\ irq /\ tx_pending > 0 /\ ~tx_own[tx_done_idx]
  /\ tx_pending' = tx_pending - 1
  /\ tx_done_idx' = TxNext(tx_done_idx)
  /\ UNCHANGED <<phase, tx_own, tx_todo_idx, tx_blocked, queue_stopped, xmit,
                 rxVars, poll, napi, irq, hwVars>>

\* The end of tx_complete(): wake the queue if it was blocked.
TxCompleteEnd ==
  /\ irq /\ (tx_pending = 0 \/ tx_own[tx_done_idx])
  /\ irq' = FALSE
  /\ tx_blocked' = FALSE
  /\ queue_stopped' = (queue_stopped /\ ~tx_blocked)
  /\ UNCHANGED <<phase, tx_own, tx_todo_idx, tx_done_idx, tx_pending, xmit,
                 rxVars, poll, napi, hwVars>>

-----------------------------------------------------------------------------
(* The NAPI poll, run by the softirq for a scheduled instance. Its steps    *)
(* wait for an interrupt, and for an xmit() the protocols made.             *)

Softirq(pc) == poll.pc = pc /\ ~irq /\ xmit.pc = "idle"

PollStart ==
  /\ Softirq("off") /\ phase \in {"up", "closing"} /\ napi.sched
  /\ poll' = [pc |-> "get", work |-> 0]
  /\ UNCHANGED <<phase, txVars, queue_stopped, xmit, rxVars, napi, irq, hwVars>>

\* rx_get() looks at the next descriptor: a frame is copied and delivered.
PollGet ==
  /\ Softirq("get") /\ poll.work < BUDGET
  /\ poll' = [poll EXCEPT !.pc = IF rx_own[rx_done_idx] THEN "complete" ELSE "next"]
  /\ UNCHANGED <<phase, txVars, queue_stopped, xmit, rxVars, napi, irq, hwVars>>

\* Mutant: the descriptor is not given back.
PollNextKept ==
  /\ Softirq("next")
  /\ rx_done_idx' = RxNext(rx_done_idx)
  /\ poll' = [pc |-> "get", work |-> poll.work + 1]
  /\ UNCHANGED <<phase, txVars, queue_stopped, xmit, rx_own, napi, irq, hwVars>>

\* ... and its descriptor goes back to the DMA.
PollNext ==
  /\ Softirq("next")
  /\ rx_own' = [rx_own EXCEPT ![rx_done_idx] = TRUE]
  /\ rx_done_idx' = RxNext(rx_done_idx)
  /\ poll' = [pc |-> "get", work |-> poll.work + 1]
  /\ UNCHANGED <<phase, txVars, queue_stopped, xmit, napi, irq, hwVars>>

\* Mutant: a pending napi_disable() is not noticed.
PollBudgetKeeps ==
  /\ Softirq("get") /\ poll.work = BUDGET
  /\ dmaier' = dmaier \cup {"RIE"}
  /\ poll' = [poll EXCEPT !.pc = "off"]
  /\ UNCHANGED <<phase, txVars, queue_stopped, xmit, rxVars, napi, irq, dmasr, dma>>

\* The budget is used up: RX interrupts on, the instance stays scheduled
\* unless napi_disable() waits for it (net_rx_action()).
PollBudget ==
  /\ Softirq("get") /\ poll.work = BUDGET
  /\ dmaier' = dmaier \cup {"RIE"}
  /\ napi' = [napi EXCEPT !.sched = ~napi.disable]
  /\ poll' = [poll EXCEPT !.pc = "off"]
  /\ UNCHANGED <<phase, txVars, queue_stopped, xmit, rxVars, irq, dmasr, dma>>

\* Mutant: no second look at the ring.
PollCompleteBlind ==
  /\ Softirq("complete")
  /\ napi' = [napi EXCEPT !.sched = FALSE]
  /\ dmaier' = dmaier \cup {"RIE"}
  /\ poll' = [poll EXCEPT !.pc = "off"]
  /\ UNCHANGED <<phase, txVars, queue_stopped, xmit, rxVars, irq, dmasr, dma>>

\* Under rx_lock, interrupts off: complete, RX interrupts on, look again.
PollComplete ==
  /\ Softirq("complete")
  /\ napi' = [napi EXCEPT !.sched = FALSE]
  /\ dmaier' = dmaier \cup {"RIE"}
  /\ poll' = [poll EXCEPT !.pc = IF rx_own[rx_done_idx] THEN "off" ELSE "ack"]
  /\ UNCHANGED <<phase, txVars, queue_stopped, xmit, rxVars, irq, dmasr, dma>>

\* Still under the lock: a frame slipped in, go back to polling.
PollAck ==
  /\ Softirq("ack")
  /\ dmaier' = dmaier \ {"RIE"}
  /\ dmasr' = dmasr \ RX_MSK
  /\ poll' = [poll EXCEPT !.pc = "resched"]
  /\ UNCHANGED <<phase, txVars, queue_stopped, xmit, rxVars, napi, irq, dma>>

PollResched ==
  /\ Softirq("resched")
  /\ napi' = [napi EXCEPT !.sched = @ \/ napi_schedule_prep]
  /\ poll' = [poll EXCEPT !.pc = IF napi_schedule_prep THEN "get" ELSE "off"]
  /\ UNCHANGED <<phase, txVars, queue_stopped, xmit, rxVars, irq, hwVars>>

-----------------------------------------------------------------------------
(* The DMA engine (external), as the driver uses it: it walks each ring in  *)
(* order, gives a descriptor back by clearing OWN, and suspends             *)
(* transmission at a descriptor it does not own until a poll demand.        *)

DmaTxSent ==
  /\ dma.run /\ ~dma.tx_susp /\ tx_own[dma.tx]
  /\ tx_own' = [tx_own EXCEPT ![dma.tx] = FALSE]
  /\ dma' = [dma EXCEPT !.tx = TxNext(@)]
  /\ dmasr' = IF TxDoneIrq THEN dmasr \cup {"TS"} ELSE dmasr
  /\ UNCHANGED <<phase, tx_todo_idx, tx_done_idx, tx_pending, tx_blocked,
                 queue_stopped, xmit, rxVars, poll, napi, irq, dmaier>>

DmaTxSuspend ==
  /\ dma.run /\ ~dma.tx_susp /\ ~tx_own[dma.tx]
  /\ dma' = [dma EXCEPT !.tx_susp = TRUE]
  /\ dmasr' = dmasr \cup {"TBUS"}
  /\ UNCHANGED <<phase, txVars, queue_stopped, xmit, rxVars, poll, napi, irq, dmaier>>

DmaRxFrame ==
  /\ dma.run /\ rx_own[dma.rx]
  /\ rx_own' = [rx_own EXCEPT ![dma.rx] = FALSE]
  /\ dma' = [dma EXCEPT !.rx = RxNext(@)]
  /\ dmasr' = dmasr \cup {"RS"}
  /\ UNCHANGED <<phase, txVars, queue_stopped, xmit, rx_done_idx, poll, napi, irq, dmaier>>

\* A frame arrives and there is no descriptor for it: it is lost.
DmaRxNoBuf ==
  /\ dma.run /\ ~rx_own[dma.rx]
  /\ dmasr' = dmasr \cup {"RBUS"}
  /\ UNCHANGED <<phase, txVars, queue_stopped, xmit, rxVars, poll, napi, irq, dmaier, dma>>

-----------------------------------------------------------------------------
Open  == OpenAlloc \/ OpenStart \/ OpenStartFails \/ OpenIrq \/ OpenIrqFails
Close == CloseBegin \/ CloseNapi \/ CloseQueue \/ CloseHw
Xmit  == XmitCapture \/ XmitBusy \/ XmitOwn \/ XmitDemand \/ XmitStop
Irq   == IrqEnter \/ TxCompleteBd \/ TxCompleteEnd
Poll  == PollStart \/ PollGet \/ PollNext \/ PollBudget \/ PollComplete
           \/ PollAck \/ PollResched
Dma   == DmaTxSent \/ DmaTxSuspend \/ DmaRxFrame \/ DmaRxNoBuf

Next == Open \/ Close \/ Xmit \/ Irq \/ Poll \/ Dma

Spec == Init /\ [][Next]_vars

-----------------------------------------------------------------------------
(* Fairness. An asserted interrupt is taken as soon as interrupts are on,  *)
(* whatever ran meanwhile, and the softirq runs when the handler or the    *)
(* interrupted xmit() ends; xmit() and close() go on when the interrupt or *)
(* softirq that preempted them returns: strong fairness. The DMA walks the *)
(* transmit ring until it suspends.                                        *)

XmitGoesOn  == XmitOwn \/ XmitDemand \/ XmitStop
CloseGoesOn == CloseNapi \/ CloseQueue \/ CloseHw

Fairness ==
  /\ SF_vars(Irq)
  /\ SF_vars(Poll)
  /\ SF_vars(XmitGoesOn)
  /\ SF_vars(CloseGoesOn)
  /\ WF_vars(DmaTxSent \/ DmaTxSuspend)

FairSpec == Spec /\ Fairness

-----------------------------------------------------------------------------
(* Transmit properties.                                                     *)

\* The two transmit indices are tx_pending descriptors apart, whatever xmit()
\* and tx_complete() did in between and however they interrupted each other.
TxIndexInv ==
  tx_todo_idx = (tx_done_idx + tx_pending) % TX_BUF_NUM

\* The queue of an open device is stopped exactly when tx_blocked says that
\* tx_complete() has to wake it.
BlockedIffStopped ==
  phase = "up" => (queue_stopped <=> tx_blocked)

\* The DMA never sleeps on a descriptor it owns, unless the poll demand for it
\* is about to be written by the running xmit().
NoForgottenFrame ==
  dma.run /\ dma.tx_susp /\ tx_own[dma.tx] => xmit.pc = "owned"

\* A stopped queue is woken again, or the device is closed.
TxWake ==
  (phase = "up" /\ queue_stopped) ~> (~queue_stopped \/ phase # "up")

\* ... at least as long as frames keep arriving: their interrupts let the handler
\* see the completed transmissions too.
TxWakeTraffic == ([]<><<DmaRxFrame>>_vars) => TxWake

\* Comment in xmit() on its tx_lock section: "We need atomical access only while
\* 'capturing' next tx bd; then we may unlock the spin". Said as: the descriptor
\* that xmit() has captured is its own, the DMA is not still sending it.
CapturedIsFree ==
  xmit.pc = "captured" => ~tx_own[xmit.idx]

-----------------------------------------------------------------------------
(* Receive properties.                                                      *)

\* The position of descriptor i counted from rx_done_idx.
RxDist(i) == IF i >= rx_done_idx THEN i - rx_done_idx
                                 ELSE i - rx_done_idx + RX_BUF_NUM

\* The received frames are the descriptors from rx_done_idx up to the one the
\* DMA fills next (none or all of them when the two are the same): rx_get()
\* hands every frame over once and in the order of arrival.
RxInOrder ==
  dma.run =>
    \/ dma.rx = rx_done_idx /\ \A i \in RxBd : ~rx_own[i]
    \/ \A i \in RxBd : rx_own[i] <=> RxDist(i) >= RxDist(dma.rx)

\* No lost wake-up: while a received frame waits and no poll is looking at the
\* ring, one is scheduled or an enabled receive interrupt is pending.
RxNoLostWakeup ==
  phase = "up" /\ poll.pc = "off" /\ ~rx_own[rx_done_idx]
    => napi.sched \/ ("RS" \in dmasr /\ "RIE" \in dmaier)

\* RX interrupts are off only while a poll is scheduled or about to look again.
RxArmed ==
  phase = "up" /\ "RIE" \notin dmaier => napi.sched \/ poll.pc = "resched"

\* A received frame is taken from the ring, or the device is closed.
RxServed ==
  \A i \in RxBd :
    (phase = "up" /\ rx_done_idx = i /\ ~rx_own[i])
      ~> (rx_own[i] \/ phase # "up")

\* What else is true at every point of open() and close(), and what the pcs of
\* the other actors imply: the facts the invariants above rest on.
ControlInv ==
  /\ irq => IrqRequested
  /\ xmit.pc # "idle" => phase = "up"
  /\ poll.pc # "off" => phase \in {"up", "closing"}
  /\ poll.pc \notin {"off", "get"} => poll.work < BUDGET
  /\ poll.pc = "next" => ~rx_own[rx_done_idx]
  /\ napi.disable <=> phase = "closing"
  /\ phase \in {"down", "allocated"} => ~dma.run
  /\ phase = "allocated" => \A i \in RxBd : rx_own[i]
  /\ phase = "started" =>
        ~tx_blocked /\ ("RS" \in dmasr \/ \A i \in RxBd : rx_own[i])

\* The inductive invariant.
IInv ==
  /\ TypeOK
  /\ ControlInv
  /\ TxIndexInv
  /\ BlockedIffStopped
  /\ NoForgottenFrame
  /\ RxInOrder
  /\ RxNoLostWakeup
  /\ RxArmed

\* close() gets through: napi_disable() does not wait for ever.
CloseEnds == (phase = "closing") ~> (phase = "napi_off")
=============================================================================
