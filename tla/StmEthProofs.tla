----------------------------- MODULE StmEthProofs -----------------------------
(***************************************************************************)
(* Proofs about the Ethernet data path of StmEth, for rings and a NAPI     *)
(* budget of any size and for both behaviours of the transmit status bit.  *)
(***************************************************************************)
EXTENDS StmEth, TLAPS

USE DEF txVars, rxVars, hwVars

(* Index arithmetic: the successor on a ring, and the reduction of a sum of *)
(* an index and a count.                                                    *)
LEMMA TxNextValue ==
  ASSUME NEW i \in TxBd
  PROVE  /\ TxNext(i) \in TxBd
         /\ TxNext(i) = IF i + 1 = TX_BUF_NUM THEN 0 ELSE i + 1
  BY TxAssumption DEF TxBd, TxNext

LEMMA RxNextValue ==
  ASSUME NEW i \in RxBd
  PROVE  /\ RxNext(i) \in RxBd
         /\ RxNext(i) = IF i + 1 = RX_BUF_NUM THEN 0 ELSE i + 1
  BY RxAssumption DEF RxBd, RxNext

LEMMA TxIndexValue ==
  ASSUME NEW d \in TxBd, NEW p \in 0 .. TX_BUF_NUM
  PROVE  (d + p) % TX_BUF_NUM = IF d + p < TX_BUF_NUM THEN d + p ELSE d + p - TX_BUF_NUM
<1> DEFINE a == d + p
<1>1. a \in Nat /\ a < 2 * TX_BUF_NUM
  BY TxAssumption DEF TxBd
<1> HIDE DEF a
<1>2. a % TX_BUF_NUM = IF a < TX_BUF_NUM THEN a ELSE a - TX_BUF_NUM
  BY <1>1, TxAssumption
<1> QED BY <1>2, TxAssumption DEF a, TxBd

LEMMA TxCaptureIndex ==
  ASSUME NEW d \in TxBd, NEW p \in 0 .. TX_BUF_NUM, p < TX_BUF_NUM
  PROVE  TxNext((d + p) % TX_BUF_NUM) = (d + (p + 1)) % TX_BUF_NUM
<1> DEFINE t == IF d + p < TX_BUF_NUM THEN d + p ELSE d + p - TX_BUF_NUM
<1>1. (d + p) % TX_BUF_NUM = t
  BY TxIndexValue
<1>2. t \in TxBd
  BY TxAssumption DEF TxBd
<1>3. TxNext(t) = IF t + 1 = TX_BUF_NUM THEN 0 ELSE t + 1
  BY <1>2, TxNextValue
<1>4. (d + (p + 1)) % TX_BUF_NUM =
        IF d + (p + 1) < TX_BUF_NUM THEN d + (p + 1) ELSE d + (p + 1) - TX_BUF_NUM
  <2>1. p + 1 \in 0 .. TX_BUF_NUM
    BY TxAssumption
  <2> QED BY <2>1, TxIndexValue
<1> QED BY <1>1, <1>3, <1>4, TxAssumption DEF TxBd

LEMMA TxCompleteIndex ==
  ASSUME NEW d \in TxBd, NEW p \in 0 .. TX_BUF_NUM, p > 0
  PROVE  (TxNext(d) + (p - 1)) % TX_BUF_NUM = (d + p) % TX_BUF_NUM
<1> DEFINE n == TxNext(d)
<1>1. n \in TxBd /\ n = IF d + 1 = TX_BUF_NUM THEN 0 ELSE d + 1
  BY TxNextValue
<1>2. (d + p) % TX_BUF_NUM = IF d + p < TX_BUF_NUM THEN d + p ELSE d + p - TX_BUF_NUM
  BY TxIndexValue
<1> HIDE DEF n
<1>3. (n + (p - 1)) % TX_BUF_NUM =
        IF n + (p - 1) < TX_BUF_NUM THEN n + (p - 1) ELSE n + (p - 1) - TX_BUF_NUM
  <2>1. p - 1 \in 0 .. TX_BUF_NUM
    BY TxAssumption
  <2> QED BY <1>1, <2>1, TxIndexValue
<1>4. (n + (p - 1)) % TX_BUF_NUM = (d + p) % TX_BUF_NUM
  BY <1>1, <1>2, <1>3, TxAssumption DEF TxBd
<1> QED BY <1>4 DEF n

LEMMA RingsNotEmpty == 0 \in TxBd /\ 0 \in RxBd
  BY TxAssumption, RxAssumption DEF TxBd, RxBd

(* Type correctness needs one fact about control: a poll that looks at or   *)
(* returns a descriptor has budget left.                                    *)
LEMMA TypeStep ==
  ASSUME TypeOK, ControlInv, [Next]_vars
  PROVE  TypeOK'
<1> USE DEF TypeOK, TX_MSK, RX_MSK, Phases
<1>1. CASE Open
  <2>1. CASE OpenAlloc
    BY <2>1 DEF OpenAlloc
  <2>2. CASE OpenStart
    <3>1. dma' \in DmaType
      BY <2>2, RingsNotEmpty, Zenon DEF OpenStart, DmaType
    <3>2. 0 \in 0 .. TX_BUF_NUM
      BY TxAssumption
    <3> QED BY <2>2, <3>1, <3>2, RingsNotEmpty DEF OpenStart
  <2>3. CASE OpenStartFails
    BY <2>3 DEF OpenStartFails, DmaType
  <2>4. CASE OpenIrq
    BY <2>4 DEF OpenIrq
  <2>5. CASE OpenIrqFails
    BY <2>5 DEF OpenIrqFails, DmaType
  <2> QED BY <1>1, <2>1, <2>2, <2>3, <2>4, <2>5 DEF Open
<1>2. CASE Close
  <2>1. CASE CloseBegin
    BY <2>1 DEF CloseBegin
  <2>2. CASE CloseNapi
    BY <2>2 DEF CloseNapi
  <2>3. CASE CloseQueue
    BY <2>3 DEF CloseQueue
  <2>4. CASE CloseHw
    BY <2>4 DEF CloseHw, DmaType
  <2> QED BY <1>2, <2>1, <2>2, <2>3, <2>4 DEF Close
<1>3. CASE Xmit
  <2>1. CASE XmitCapture
    BY <2>1, TxNextValue, TxAssumption DEF XmitCapture, XmitCalled
  <2>2. CASE XmitBusy
    BY <2>2 DEF XmitBusy, vars
  <2>3. CASE XmitOwn
    BY <2>3 DEF XmitOwn
  <2>4. CASE XmitDemand
    BY <2>4 DEF XmitDemand, DmaType
  <2>5. CASE XmitStop
    BY <2>5 DEF XmitStop
  <2> QED BY <1>3, <2>1, <2>2, <2>3, <2>4, <2>5 DEF Xmit
<1>4. CASE Irq
  <2>1. CASE IrqEnter
    BY <2>1 DEF IrqEnter, napi_schedule_prep
  <2>2. CASE TxCompleteBd
    BY <2>2, TxNextValue, TxAssumption DEF TxCompleteBd
  <2>3. CASE TxCompleteEnd
    BY <2>3 DEF TxCompleteEnd
  <2> QED BY <1>4, <2>1, <2>2, <2>3 DEF Irq
<1>5. CASE Poll
  <2>1. CASE PollStart
    BY <2>1, BudgetAssumption DEF PollStart, Softirq
  <2>2. CASE PollGet
    BY <2>2 DEF PollGet, Softirq
  <2>3. CASE PollNext
    BY <2>3, RxNextValue, BudgetAssumption DEF PollNext, Softirq, ControlInv
  <2>4. CASE PollBudget
    BY <2>4 DEF PollBudget, Softirq
  <2>5. CASE PollComplete
    BY <2>5 DEF PollComplete, Softirq
  <2>6. CASE PollAck
    BY <2>6 DEF PollAck, Softirq
  <2>7. CASE PollResched
    BY <2>7 DEF PollResched, Softirq, napi_schedule_prep
  <2> QED BY <1>5, <2>1, <2>2, <2>3, <2>4, <2>5, <2>6, <2>7 DEF Poll
<1>6. CASE Dma
  <2>1. CASE DmaTxSent
    BY <2>1, TxNextValue DEF DmaTxSent, DmaType
  <2>2. CASE DmaTxSuspend
    <3>1. dma' \in DmaType
      BY <2>2, Zenon DEF DmaTxSuspend, DmaType
    <3> QED BY <2>2, <3>1 DEF DmaTxSuspend
  <2>3. CASE DmaRxFrame
    BY <2>3, RxNextValue DEF DmaRxFrame, DmaType
  <2>4. CASE DmaRxNoBuf
    BY <2>4 DEF DmaRxNoBuf
  <2> QED BY <1>6, <2>1, <2>2, <2>3, <2>4 DEF Dma
<1>7. CASE UNCHANGED vars
  BY <1>7 DEF vars
<1> QED BY <1>1, <1>2, <1>3, <1>4, <1>5, <1>6, <1>7 DEF Next

(* One lemma per part of the inductive invariant, one step per action.      *)
LEMMA ControlStep ==
  ASSUME TypeOK, ControlInv, [Next]_vars
  PROVE  ControlInv'
<1> USE DEF TypeOK, ControlInv, IrqRequested, Phases, DmaType
<1>1. CASE Open
  <2>1. CASE OpenAlloc
    BY <2>1 DEF OpenAlloc, ProcessContext
  <2>2. CASE OpenStart
    BY <2>2 DEF OpenStart, ProcessContext
  <2>3. CASE OpenStartFails
    BY <2>3 DEF OpenStartFails, ProcessContext
  <2>4. CASE OpenIrq
    BY <2>4 DEF OpenIrq, ProcessContext
  <2>5. CASE OpenIrqFails
    BY <2>5 DEF OpenIrqFails, ProcessContext
  <2> QED BY <1>1, <2>1, <2>2, <2>3, <2>4, <2>5 DEF Open
<1>2. CASE Close
  <2>1. CASE CloseBegin
    BY <2>1 DEF CloseBegin, ProcessContext
  <2>2. CASE CloseNapi
    BY <2>2 DEF CloseNapi, ProcessContext
  <2>3. CASE CloseQueue
    BY <2>3 DEF CloseQueue, ProcessContext
  <2>4. CASE CloseHw
    BY <2>4 DEF CloseHw, ProcessContext
  <2> QED BY <1>2, <2>1, <2>2, <2>3, <2>4 DEF Close
<1>3. CASE Xmit
  <2>1. CASE XmitCapture
    BY <2>1 DEF XmitCapture, XmitCalled
  <2>2. CASE XmitBusy
    BY <2>2 DEF XmitBusy, vars
  <2>3. CASE XmitOwn
    BY <2>3 DEF XmitOwn
  <2>4. CASE XmitDemand
    BY <2>4 DEF XmitDemand
  <2>5. CASE XmitStop
    BY <2>5 DEF XmitStop
  <2> QED BY <1>3, <2>1, <2>2, <2>3, <2>4, <2>5 DEF Xmit
<1>4. CASE Irq
  <2>1. CASE IrqEnter
    BY <2>1 DEF IrqEnter, napi_schedule_prep, TX_MSK, RX_MSK
  <2>2. CASE TxCompleteBd
    BY <2>2 DEF TxCompleteBd
  <2>3. CASE TxCompleteEnd
    BY <2>3 DEF TxCompleteEnd
  <2> QED BY <1>4, <2>1, <2>2, <2>3 DEF Irq
<1>5. CASE Poll
  <2>1. CASE PollStart
    BY <2>1 DEF PollStart, Softirq
  <2>2. CASE PollGet
    BY <2>2 DEF PollGet, Softirq
  <2>3. CASE PollNext
    BY <2>3 DEF PollNext, Softirq
  <2>4. CASE PollBudget
    BY <2>4 DEF PollBudget, Softirq
  <2>5. CASE PollComplete
    BY <2>5 DEF PollComplete, Softirq
  <2>6. CASE PollAck
    BY <2>6 DEF PollAck, RX_MSK, Softirq
  <2>7. CASE PollResched
    BY <2>7 DEF PollResched, napi_schedule_prep, Softirq
  <2> QED BY <1>5, <2>1, <2>2, <2>3, <2>4, <2>5, <2>6, <2>7 DEF Poll
<1>6. CASE Dma
  <2>1. CASE DmaTxSent
    BY <2>1 DEF DmaTxSent
  <2>2. CASE DmaTxSuspend
    BY <2>2 DEF DmaTxSuspend
  <2>3. CASE DmaRxFrame
    BY <2>3 DEF DmaRxFrame
  <2>4. CASE DmaRxNoBuf
    BY <2>4 DEF DmaRxNoBuf
  <2> QED BY <1>6, <2>1, <2>2, <2>3, <2>4 DEF Dma
<1>7. CASE UNCHANGED vars
  BY <1>7 DEF vars
<1> QED BY <1>1, <1>2, <1>3, <1>4, <1>5, <1>6, <1>7 DEF Next

LEMMA TxIndexStep ==
  ASSUME TypeOK, TxIndexInv, [Next]_vars
  PROVE  TxIndexInv'
<1> USE DEF TypeOK, TxIndexInv
<1>1. CASE Open
  <2>1. CASE OpenAlloc
    BY <2>1 DEF OpenAlloc, ProcessContext
  <2>2. CASE OpenStart
    BY <2>2, TxAssumption, TxIndexValue, RingsNotEmpty DEF OpenStart, ProcessContext
  <2>3. CASE OpenStartFails
    BY <2>3 DEF OpenStartFails, ProcessContext
  <2>4. CASE OpenIrq
    BY <2>4 DEF OpenIrq, ProcessContext
  <2>5. CASE OpenIrqFails
    BY <2>5 DEF OpenIrqFails, ProcessContext
  <2> QED BY <1>1, <2>1, <2>2, <2>3, <2>4, <2>5 DEF Open
<1>2. CASE Close
  <2>1. CASE CloseBegin
    BY <2>1 DEF CloseBegin, ProcessContext
  <2>2. CASE CloseNapi
    BY <2>2 DEF CloseNapi, ProcessContext
  <2>3. CASE CloseQueue
    BY <2>3 DEF CloseQueue, ProcessContext
  <2>4. CASE CloseHw
    BY <2>4 DEF CloseHw, ProcessContext
  <2> QED BY <1>2, <2>1, <2>2, <2>3, <2>4 DEF Close
<1>3. CASE Xmit
  <2>1. CASE XmitCapture
    BY <2>1, TxCaptureIndex DEF XmitCapture, XmitCalled
  <2>2. CASE XmitBusy
    BY <2>2 DEF XmitBusy, vars
  <2>3. CASE XmitOwn
    BY <2>3 DEF XmitOwn
  <2>4. CASE XmitDemand
    BY <2>4 DEF XmitDemand
  <2>5. CASE XmitStop
    BY <2>5 DEF XmitStop
  <2> QED BY <1>3, <2>1, <2>2, <2>3, <2>4, <2>5 DEF Xmit
<1>4. CASE Irq
  <2>1. CASE IrqEnter
    BY <2>1 DEF IrqEnter, napi_schedule_prep, TX_MSK, RX_MSK
  <2>2. CASE TxCompleteBd
    BY <2>2, TxCompleteIndex DEF TxCompleteBd
  <2>3. CASE TxCompleteEnd
    BY <2>3 DEF TxCompleteEnd
  <2> QED BY <1>4, <2>1, <2>2, <2>3 DEF Irq
<1>5. CASE Poll
  <2>1. CASE PollStart
    BY <2>1 DEF PollStart, Softirq
  <2>2. CASE PollGet
    BY <2>2 DEF PollGet, Softirq
  <2>3. CASE PollNext
    BY <2>3 DEF PollNext, Softirq
  <2>4. CASE PollBudget
    BY <2>4 DEF PollBudget, Softirq
  <2>5. CASE PollComplete
    BY <2>5 DEF PollComplete, Softirq
  <2>6. CASE PollAck
    BY <2>6 DEF PollAck, RX_MSK, Softirq
  <2>7. CASE PollResched
    BY <2>7 DEF PollResched, napi_schedule_prep, Softirq
  <2> QED BY <1>5, <2>1, <2>2, <2>3, <2>4, <2>5, <2>6, <2>7 DEF Poll
<1>6. CASE Dma
  <2>1. CASE DmaTxSent
    BY <2>1 DEF DmaTxSent
  <2>2. CASE DmaTxSuspend
    BY <2>2 DEF DmaTxSuspend
  <2>3. CASE DmaRxFrame
    BY <2>3 DEF DmaRxFrame
  <2>4. CASE DmaRxNoBuf
    BY <2>4 DEF DmaRxNoBuf
  <2> QED BY <1>6, <2>1, <2>2, <2>3, <2>4 DEF Dma
<1>7. CASE UNCHANGED vars
  BY <1>7 DEF vars
<1> QED BY <1>1, <1>2, <1>3, <1>4, <1>5, <1>6, <1>7 DEF Next

LEMMA BlockedStep ==
  ASSUME TypeOK, ControlInv, BlockedIffStopped, [Next]_vars
  PROVE  BlockedIffStopped'
<1> USE DEF TypeOK, ControlInv, BlockedIffStopped
<1>1. CASE Open
  <2>1. CASE OpenAlloc
    BY <2>1 DEF OpenAlloc, ProcessContext
  <2>2. CASE OpenStart
    BY <2>2 DEF OpenStart, ProcessContext
  <2>3. CASE OpenStartFails
    BY <2>3 DEF OpenStartFails, ProcessContext
  <2>4. CASE OpenIrq
    BY <2>4 DEF OpenIrq, ProcessContext
  <2>5. CASE OpenIrqFails
    BY <2>5 DEF OpenIrqFails, ProcessContext
  <2> QED BY <1>1, <2>1, <2>2, <2>3, <2>4, <2>5 DEF Open
<1>2. CASE Close
  <2>1. CASE CloseBegin
    BY <2>1 DEF CloseBegin, ProcessContext
  <2>2. CASE CloseNapi
    BY <2>2 DEF CloseNapi, ProcessContext
  <2>3. CASE CloseQueue
    BY <2>3 DEF CloseQueue, ProcessContext
  <2>4. CASE CloseHw
    BY <2>4 DEF CloseHw, ProcessContext
  <2> QED BY <1>2, <2>1, <2>2, <2>3, <2>4 DEF Close
<1>3. CASE Xmit
  <2>1. CASE XmitCapture
    BY <2>1 DEF XmitCapture, XmitCalled
  <2>2. CASE XmitBusy
    BY <2>2 DEF XmitBusy, vars
  <2>3. CASE XmitOwn
    BY <2>3 DEF XmitOwn
  <2>4. CASE XmitDemand
    BY <2>4 DEF XmitDemand
  <2>5. CASE XmitStop
    BY <2>5 DEF XmitStop
  <2> QED BY <1>3, <2>1, <2>2, <2>3, <2>4, <2>5 DEF Xmit
<1>4. CASE Irq
  <2>1. CASE IrqEnter
    BY <2>1 DEF IrqEnter, napi_schedule_prep, TX_MSK, RX_MSK
  <2>2. CASE TxCompleteBd
    BY <2>2 DEF TxCompleteBd
  <2>3. CASE TxCompleteEnd
    BY <2>3 DEF TxCompleteEnd
  <2> QED BY <1>4, <2>1, <2>2, <2>3 DEF Irq
<1>5. CASE Poll
  <2>1. CASE PollStart
    BY <2>1 DEF PollStart, Softirq
  <2>2. CASE PollGet
    BY <2>2 DEF PollGet, Softirq
  <2>3. CASE PollNext
    BY <2>3 DEF PollNext, Softirq
  <2>4. CASE PollBudget
    BY <2>4 DEF PollBudget, Softirq
  <2>5. CASE PollComplete
    BY <2>5 DEF PollComplete, Softirq
  <2>6. CASE PollAck
    BY <2>6 DEF PollAck, RX_MSK, Softirq
  <2>7. CASE PollResched
    BY <2>7 DEF PollResched, napi_schedule_prep, Softirq
  <2> QED BY <1>5, <2>1, <2>2, <2>3, <2>4, <2>5, <2>6, <2>7 DEF Poll
<1>6. CASE Dma
  <2>1. CASE DmaTxSent
    BY <2>1 DEF DmaTxSent
  <2>2. CASE DmaTxSuspend
    BY <2>2 DEF DmaTxSuspend
  <2>3. CASE DmaRxFrame
    BY <2>3 DEF DmaRxFrame
  <2>4. CASE DmaRxNoBuf
    BY <2>4 DEF DmaRxNoBuf
  <2> QED BY <1>6, <2>1, <2>2, <2>3, <2>4 DEF Dma
<1>7. CASE UNCHANGED vars
  BY <1>7 DEF vars
<1> QED BY <1>1, <1>2, <1>3, <1>4, <1>5, <1>6, <1>7 DEF Next

LEMMA ForgottenStep ==
  ASSUME TypeOK, NoForgottenFrame, [Next]_vars
  PROVE  NoForgottenFrame'
<1> USE DEF TypeOK, NoForgottenFrame, DmaType
<1>1. CASE Open
  <2>1. CASE OpenAlloc
    BY <2>1 DEF OpenAlloc, ProcessContext
  <2>2. CASE OpenStart
    BY <2>2 DEF OpenStart, ProcessContext
  <2>3. CASE OpenStartFails
    BY <2>3 DEF OpenStartFails, ProcessContext
  <2>4. CASE OpenIrq
    BY <2>4 DEF OpenIrq, ProcessContext
  <2>5. CASE OpenIrqFails
    BY <2>5 DEF OpenIrqFails, ProcessContext
  <2> QED BY <1>1, <2>1, <2>2, <2>3, <2>4, <2>5 DEF Open
<1>2. CASE Close
  <2>1. CASE CloseBegin
    BY <2>1 DEF CloseBegin, ProcessContext
  <2>2. CASE CloseNapi
    BY <2>2 DEF CloseNapi, ProcessContext
  <2>3. CASE CloseQueue
    BY <2>3 DEF CloseQueue, ProcessContext
  <2>4. CASE CloseHw
    BY <2>4 DEF CloseHw, ProcessContext
  <2> QED BY <1>2, <2>1, <2>2, <2>3, <2>4 DEF Close
<1>3. CASE Xmit
  <2>1. CASE XmitCapture
    BY <2>1 DEF XmitCapture, XmitCalled
  <2>2. CASE XmitBusy
    BY <2>2 DEF XmitBusy, vars
  <2>3. CASE XmitOwn
    BY <2>3 DEF XmitOwn
  <2>4. CASE XmitDemand
    BY <2>4 DEF XmitDemand
  <2>5. CASE XmitStop
    BY <2>5 DEF XmitStop
  <2> QED BY <1>3, <2>1, <2>2, <2>3, <2>4, <2>5 DEF Xmit
<1>4. CASE Irq
  <2>1. CASE IrqEnter
    BY <2>1 DEF IrqEnter, napi_schedule_prep, TX_MSK, RX_MSK
  <2>2. CASE TxCompleteBd
    BY <2>2 DEF TxCompleteBd
  <2>3. CASE TxCompleteEnd
    BY <2>3 DEF TxCompleteEnd
  <2> QED BY <1>4, <2>1, <2>2, <2>3 DEF Irq
<1>5. CASE Poll
  <2>1. CASE PollStart
    BY <2>1 DEF PollStart, Softirq
  <2>2. CASE PollGet
    BY <2>2 DEF PollGet, Softirq
  <2>3. CASE PollNext
    BY <2>3 DEF PollNext, Softirq
  <2>4. CASE PollBudget
    BY <2>4 DEF PollBudget, Softirq
  <2>5. CASE PollComplete
    BY <2>5 DEF PollComplete, Softirq
  <2>6. CASE PollAck
    BY <2>6 DEF PollAck, RX_MSK, Softirq
  <2>7. CASE PollResched
    BY <2>7 DEF PollResched, napi_schedule_prep, Softirq
  <2> QED BY <1>5, <2>1, <2>2, <2>3, <2>4, <2>5, <2>6, <2>7 DEF Poll
<1>6. CASE Dma
  <2>1. CASE DmaTxSent
    BY <2>1 DEF DmaTxSent
  <2>2. CASE DmaTxSuspend
    BY <2>2 DEF DmaTxSuspend
  <2>3. CASE DmaRxFrame
    BY <2>3 DEF DmaRxFrame
  <2>4. CASE DmaRxNoBuf
    BY <2>4 DEF DmaRxNoBuf
  <2> QED BY <1>6, <2>1, <2>2, <2>3, <2>4 DEF Dma
<1>7. CASE UNCHANGED vars
  BY <1>7 DEF vars
<1> QED BY <1>1, <1>2, <1>3, <1>4, <1>5, <1>6, <1>7 DEF Next

LEMMA RxArmedStep ==
  ASSUME TypeOK, ControlInv, RxArmed, [Next]_vars
  PROVE  RxArmed'
<1> USE DEF TypeOK, ControlInv, RxArmed
<1>1. CASE Open
  <2>1. CASE OpenAlloc
    BY <2>1 DEF OpenAlloc, ProcessContext
  <2>2. CASE OpenStart
    BY <2>2 DEF OpenStart, ProcessContext
  <2>3. CASE OpenStartFails
    BY <2>3 DEF OpenStartFails, ProcessContext
  <2>4. CASE OpenIrq
    BY <2>4 DEF OpenIrq, ProcessContext
  <2>5. CASE OpenIrqFails
    BY <2>5 DEF OpenIrqFails, ProcessContext
  <2> QED BY <1>1, <2>1, <2>2, <2>3, <2>4, <2>5 DEF Open
<1>2. CASE Close
  <2>1. CASE CloseBegin
    BY <2>1 DEF CloseBegin, ProcessContext
  <2>2. CASE CloseNapi
    BY <2>2 DEF CloseNapi, ProcessContext
  <2>3. CASE CloseQueue
    BY <2>3 DEF CloseQueue, ProcessContext
  <2>4. CASE CloseHw
    BY <2>4 DEF CloseHw, ProcessContext
  <2> QED BY <1>2, <2>1, <2>2, <2>3, <2>4 DEF Close
<1>3. CASE Xmit
  <2>1. CASE XmitCapture
    BY <2>1 DEF XmitCapture, XmitCalled
  <2>2. CASE XmitBusy
    BY <2>2 DEF XmitBusy, vars
  <2>3. CASE XmitOwn
    BY <2>3 DEF XmitOwn
  <2>4. CASE XmitDemand
    BY <2>4 DEF XmitDemand
  <2>5. CASE XmitStop
    BY <2>5 DEF XmitStop
  <2> QED BY <1>3, <2>1, <2>2, <2>3, <2>4, <2>5 DEF Xmit
<1>4. CASE Irq
  <2>1. CASE IrqEnter
    BY <2>1 DEF IrqEnter, napi_schedule_prep, TX_MSK, RX_MSK
  <2>2. CASE TxCompleteBd
    BY <2>2 DEF TxCompleteBd
  <2>3. CASE TxCompleteEnd
    BY <2>3 DEF TxCompleteEnd
  <2> QED BY <1>4, <2>1, <2>2, <2>3 DEF Irq
<1>5. CASE Poll
  <2>1. CASE PollStart
    BY <2>1 DEF PollStart, Softirq
  <2>2. CASE PollGet
    BY <2>2 DEF PollGet, Softirq
  <2>3. CASE PollNext
    BY <2>3 DEF PollNext, Softirq
  <2>4. CASE PollBudget
    BY <2>4 DEF PollBudget, Softirq
  <2>5. CASE PollComplete
    BY <2>5 DEF PollComplete, Softirq
  <2>6. CASE PollAck
    BY <2>6 DEF PollAck, RX_MSK, Softirq
  <2>7. CASE PollResched
    BY <2>7 DEF PollResched, napi_schedule_prep, Softirq
  <2> QED BY <1>5, <2>1, <2>2, <2>3, <2>4, <2>5, <2>6, <2>7 DEF Poll
<1>6. CASE Dma
  <2>1. CASE DmaTxSent
    BY <2>1 DEF DmaTxSent
  <2>2. CASE DmaTxSuspend
    BY <2>2 DEF DmaTxSuspend
  <2>3. CASE DmaRxFrame
    BY <2>3 DEF DmaRxFrame
  <2>4. CASE DmaRxNoBuf
    BY <2>4 DEF DmaRxNoBuf
  <2> QED BY <1>6, <2>1, <2>2, <2>3, <2>4 DEF Dma
<1>7. CASE UNCHANGED vars
  BY <1>7 DEF vars
<1> QED BY <1>1, <1>2, <1>3, <1>4, <1>5, <1>6, <1>7 DEF Next

LEMMA RxWakeupStep ==
  ASSUME TypeOK, ControlInv, RxArmed, RxNoLostWakeup, [Next]_vars
  PROVE  RxNoLostWakeup'
<1> USE DEF TypeOK, ControlInv, RxArmed, RxNoLostWakeup, DmaType
<1>1. CASE Open
  <2>1. CASE OpenAlloc
    BY <2>1 DEF OpenAlloc, ProcessContext
  <2>2. CASE OpenStart
    BY <2>2 DEF OpenStart, ProcessContext
  <2>3. CASE OpenStartFails
    BY <2>3 DEF OpenStartFails, ProcessContext
  <2>4. CASE OpenIrq
    BY <2>4 DEF OpenIrq, ProcessContext
  <2>5. CASE OpenIrqFails
    BY <2>5 DEF OpenIrqFails, ProcessContext
  <2> QED BY <1>1, <2>1, <2>2, <2>3, <2>4, <2>5 DEF Open
<1>2. CASE Close
  <2>1. CASE CloseBegin
    BY <2>1 DEF CloseBegin, ProcessContext
  <2>2. CASE CloseNapi
    BY <2>2 DEF CloseNapi, ProcessContext
  <2>3. CASE CloseQueue
    BY <2>3 DEF CloseQueue, ProcessContext
  <2>4. CASE CloseHw
    BY <2>4 DEF CloseHw, ProcessContext
  <2> QED BY <1>2, <2>1, <2>2, <2>3, <2>4 DEF Close
<1>3. CASE Xmit
  <2>1. CASE XmitCapture
    BY <2>1 DEF XmitCapture, XmitCalled
  <2>2. CASE XmitBusy
    BY <2>2 DEF XmitBusy, vars
  <2>3. CASE XmitOwn
    BY <2>3 DEF XmitOwn
  <2>4. CASE XmitDemand
    BY <2>4 DEF XmitDemand
  <2>5. CASE XmitStop
    BY <2>5 DEF XmitStop
  <2> QED BY <1>3, <2>1, <2>2, <2>3, <2>4, <2>5 DEF Xmit
<1>4. CASE Irq
  <2>1. CASE IrqEnter
    BY <2>1 DEF IrqEnter, napi_schedule_prep, TX_MSK, RX_MSK
  <2>2. CASE TxCompleteBd
    BY <2>2 DEF TxCompleteBd
  <2>3. CASE TxCompleteEnd
    BY <2>3 DEF TxCompleteEnd
  <2> QED BY <1>4, <2>1, <2>2, <2>3 DEF Irq
<1>5. CASE Poll
  <2>1. CASE PollStart
    BY <2>1 DEF PollStart, Softirq
  <2>2. CASE PollGet
    BY <2>2 DEF PollGet, Softirq
  <2>3. CASE PollNext
    BY <2>3 DEF PollNext, Softirq
  <2>4. CASE PollBudget
    BY <2>4 DEF PollBudget, Softirq
  <2>5. CASE PollComplete
    BY <2>5 DEF PollComplete, Softirq
  <2>6. CASE PollAck
    BY <2>6 DEF PollAck, RX_MSK, Softirq
  <2>7. CASE PollResched
    BY <2>7 DEF PollResched, napi_schedule_prep, Softirq
  <2> QED BY <1>5, <2>1, <2>2, <2>3, <2>4, <2>5, <2>6, <2>7 DEF Poll
<1>6. CASE Dma
  <2>1. CASE DmaTxSent
    BY <2>1 DEF DmaTxSent
  <2>2. CASE DmaTxSuspend
    BY <2>2 DEF DmaTxSuspend
  <2>3. CASE DmaRxFrame
    BY <2>3 DEF DmaRxFrame
  <2>4. CASE DmaRxNoBuf
    BY <2>4 DEF DmaRxNoBuf
  <2> QED BY <1>6, <2>1, <2>2, <2>3, <2>4 DEF Dma
<1>7. CASE UNCHANGED vars
  BY <1>7 DEF vars
<1> QED BY <1>1, <1>2, <1>3, <1>4, <1>5, <1>6, <1>7 DEF Next

(* Receive order. Only four actions touch what RxInOrder is about.          *)
RxKept ==
  /\ rx_own' = rx_own
  /\ rx_done_idx' = rx_done_idx
  /\ dma'.rx = dma.rx
  /\ dma'.run => dma.run

LEMMA RxOrderOthers ==
  ASSUME TypeOK, [Next]_vars, ~OpenAlloc, ~OpenStart, ~PollNext, ~DmaRxFrame
  PROVE  RxKept
<1> USE DEF RxKept, TypeOK, DmaType
<1>1. CASE Open
  BY <1>1 DEF Open, OpenStartFails, OpenIrq, OpenIrqFails
<1>2. CASE Close
  BY <1>2 DEF Close, CloseBegin, CloseNapi, CloseQueue, CloseHw
<1>3. CASE Xmit
  BY <1>3 DEF Xmit, XmitCapture, XmitBusy, XmitOwn, XmitDemand, XmitStop, vars
<1>4. CASE Irq
  BY <1>4 DEF Irq, IrqEnter, TxCompleteBd, TxCompleteEnd
<1>5. CASE Poll
  BY <1>5 DEF Poll, PollStart, PollGet, PollBudget, PollComplete, PollAck, PollResched
<1>6. CASE Dma
  BY <1>6 DEF Dma, DmaTxSent, DmaTxSuspend, DmaRxNoBuf
<1>7. CASE UNCHANGED vars
  BY <1>7 DEF vars
<1> QED BY <1>1, <1>2, <1>3, <1>4, <1>5, <1>6, <1>7 DEF Next

LEMMA RxOrderStep ==
  ASSUME TypeOK, ControlInv, RxInOrder, [Next]_vars
  PROVE  RxInOrder'
<1>1. CASE OpenAlloc
  BY <1>1 DEF OpenAlloc, ControlInv, RxInOrder
<1>2. CASE OpenStart
  <2>1. rx_done_idx' = 0 /\ dma'.rx = 0 /\ rx_own' = rx_own
    BY <1>2 DEF OpenStart
  <2>2. \A i \in RxBd : rx_own[i]
    BY <1>2 DEF OpenStart, ControlInv
  <2>3. \A i \in RxBd : (RxDist(i))' = i
    BY <2>1, RxAssumption DEF RxDist, RxBd
  <2> QED BY <2>1, <2>2, <2>3, RingsNotEmpty DEF RxInOrder, RxBd, RxDist
<1>3. CASE PollNext
  <2>1. /\ rx_done_idx' = RxNext(rx_done_idx)
        /\ rx_own' = [rx_own EXCEPT ![rx_done_idx] = TRUE]
        /\ dma' = dma /\ ~rx_own[rx_done_idx]
    BY <1>3 DEF PollNext, Softirq, ControlInv
  <2>2. \A i \in RxBd : (RxDist(i))' =
           IF i = rx_done_idx THEN RX_BUF_NUM - 1 ELSE RxDist(i) - 1
    <3>1. rx_done_idx \in RxBd
      BY DEF TypeOK
    <3>2. rx_done_idx' = IF rx_done_idx + 1 = RX_BUF_NUM THEN 0 ELSE rx_done_idx + 1
      BY <2>1, <3>1, RxNextValue
    <3> QED BY <3>1, <3>2, RxAssumption DEF RxDist, RxBd
  <2>3. \A i \in RxBd : RxDist(i) \in 0 .. RX_BUF_NUM - 1
                          /\ (RxDist(i) = 0 <=> i = rx_done_idx)
    BY RxAssumption DEF RxDist, RxBd, TypeOK
  <2>4. SUFFICES ASSUME dma.run
                 PROVE  \A i \in RxBd : rx_own'[i] <=> (RxDist(i))' >= (RxDist(dma.rx))'
    BY <2>1 DEF RxInOrder
  <2>5. dma.rx \in RxBd /\ rx_own \in [RxBd -> BOOLEAN]
    BY DEF TypeOK, DmaType
  <2>6. (RxDist(dma.rx))' = IF dma.rx = rx_done_idx THEN RX_BUF_NUM - 1 ELSE RxDist(dma.rx) - 1
    BY <2>1, <2>2, <2>5 DEF RxDist
  <2> QED BY <2>1, <2>2, <2>3, <2>4, <2>5, <2>6, RxAssumption DEF RxInOrder
<1>4. CASE DmaRxFrame
  <2>1. /\ dma.run /\ rx_own[dma.rx] /\ dma'.run
        /\ rx_own' = [rx_own EXCEPT ![dma.rx] = FALSE]
        /\ dma'.rx = RxNext(dma.rx)
        /\ rx_done_idx' = rx_done_idx
    BY <1>4 DEF DmaRxFrame, TypeOK, DmaType
  <2>2. dma.rx \in RxBd /\ rx_done_idx \in RxBd /\ rx_own \in [RxBd -> BOOLEAN]
    BY DEF TypeOK, DmaType
  <2>3. \A i \in RxBd : rx_own[i] <=> RxDist(i) >= RxDist(dma.rx)
    BY <2>1, <2>2 DEF RxInOrder
  <2>4. \A i \in RxBd : (RxDist(i))' = RxDist(i)
    BY <2>1 DEF RxDist
  <2>5. \A i \in RxBd : /\ RxDist(i) \in 0 .. RX_BUF_NUM - 1
                        /\ (RxDist(i) = RxDist(dma.rx) <=> i = dma.rx)
    BY <2>2, RxAssumption DEF RxDist, RxBd
  <2>6. RxNext(dma.rx) \in RxBd
    BY <2>2, RxNextValue
  <2>7. IF RxNext(dma.rx) = rx_done_idx
        THEN RxDist(dma.rx) = RX_BUF_NUM - 1
        ELSE RxDist(RxNext(dma.rx)) = RxDist(dma.rx) + 1
    <3>1. RxNext(dma.rx) = IF dma.rx + 1 = RX_BUF_NUM THEN 0 ELSE dma.rx + 1
      BY <2>2, RxNextValue
    <3> QED BY <2>2, <3>1, RxAssumption DEF RxDist, RxBd
  <2>8. CASE RxNext(dma.rx) = rx_done_idx
    BY <2>1, <2>2, <2>3, <2>5, <2>7, <2>8, RxAssumption DEF RxInOrder
  <2>9. CASE RxNext(dma.rx) # rx_done_idx
    <3>1. (RxDist(dma.rx))' = RxDist(dma.rx) + 1
      BY <2>1, <2>7, <2>9 DEF RxDist
    <3>2. \A i \in RxBd : rx_own'[i] <=> (RxDist(i))' >= (RxDist(dma.rx))'
      BY <2>1, <2>2, <2>3, <2>4, <2>5, <3>1, RxAssumption
    <3> QED BY <3>2 DEF RxInOrder
  <2> QED BY <2>8, <2>9
<1>5. CASE RxKept
  BY <1>5 DEF RxKept, RxInOrder, RxDist
<1> QED BY <1>1, <1>2, <1>3, <1>4, <1>5, RxOrderOthers

LEMMA InitIInv == Init => IInv
<1> SUFFICES ASSUME Init PROVE IInv
  OBVIOUS
<1> USE DEF Init
<1>1. TypeOK
  <2>1. dma \in DmaType
    BY RingsNotEmpty, Zenon DEF DmaType
  <2>2. 0 \in 0 .. TX_BUF_NUM /\ 0 \in 0 .. BUDGET
    BY TxAssumption, BudgetAssumption
  <2> QED BY <2>1, <2>2, RingsNotEmpty DEF TypeOK, Phases
<1>2. ControlInv
  BY DEF ControlInv
<1>3. TxIndexInv
  BY TxIndexValue, RingsNotEmpty, TxAssumption DEF TxIndexInv
<1>4. BlockedIffStopped /\ NoForgottenFrame /\ RxInOrder /\ RxNoLostWakeup /\ RxArmed
  BY DEF BlockedIffStopped, NoForgottenFrame, RxInOrder, RxNoLostWakeup, RxArmed
<1> QED BY <1>1, <1>2, <1>3, <1>4 DEF IInv

(* IInv is an invariant: each part is preserved by its own lemma.           *)
THEOREM Invariance == Spec => []IInv
<1>1. IInv /\ [Next]_vars => IInv'
  <2> SUFFICES ASSUME IInv, [Next]_vars PROVE IInv'
    OBVIOUS
  <2> QED BY TypeStep, ControlStep, TxIndexStep, BlockedStep, ForgottenStep,
             RxArmedStep, RxWakeupStep, RxOrderStep DEF IInv
<1> QED BY InitIInv, <1>1, PTL DEF Spec

(* Every variable keeps its type: tx_pending never exceeds the ring         *)
(* (stm32_netdev_xmit, stm32_eth_tx_complete), no index leaves its ring,    *)
(* and a poll never takes more than its budget (stm32_eth_rx_get).          *)
THEOREM TypeCorrect == Spec => []TypeOK
<1>1. IInv => TypeOK
  BY DEF IInv
<1> QED BY Invariance, <1>1, PTL

(* tx_todo_idx and tx_done_idx are tx_pending apart, for every interleaving *)
(* of stm32_netdev_xmit with stm32_eth_tx_complete.                         *)
THEOREM TxIndicesAgree == Spec => []TxIndexInv
<1>1. IInv => TxIndexInv
  BY DEF IInv
<1> QED BY Invariance, <1>1, PTL

(* The transmit queue is stopped exactly when tx_complete will wake it.     *)
THEOREM StoppedQueueIsMarked == Spec => []BlockedIffStopped
<1>1. IInv => BlockedIffStopped
  BY DEF IInv
<1> QED BY Invariance, <1>1, PTL

(* No programmed frame is left to a suspended DMA.                          *)
THEOREM NoFrameForgotten == Spec => []NoForgottenFrame
<1>1. IInv => NoForgottenFrame
  BY DEF IInv
<1> QED BY Invariance, <1>1, PTL

(* stm32_eth_rx_get takes every received frame once and in order.           *)
THEOREM ReceiveInOrder == Spec => []RxInOrder
<1>1. IInv => RxInOrder
  BY DEF IInv
<1> QED BY Invariance, <1>1, PTL

(* The handshake of stm32_eth_rx_poll with stm32_eth_irq loses no wake-up.  *)
THEOREM ReceiveNoLostWakeup == Spec => [](RxNoLostWakeup /\ RxArmed)
<1>1. IInv => RxNoLostWakeup /\ RxArmed
  BY DEF IInv
<1> QED BY Invariance, <1>1, PTL
=============================================================================
