---------------------------- MODULE UsartTxProofs ----------------------------
(***************************************************************************)
(* Proofs about transmission in UsartTx, for a ring of any size, any       *)
(* wake-up mark and writes of any length.                                  *)
(***************************************************************************)
EXTENDS UsartTx, TLAPS

(* uart_stop() is called for a stopped tty, and what set_termios will write *)
(* back has the interrupt on if characters wait and nothing is stopped.     *)
CallKeeps ==
  /\ task.at = "stop" => stopped
  /\ task.at = "termios" /\ head # tail /\ ~stopped => task.saw

(* The flow-control character of the running call is on its way or sent;    *)
(* outside of such a call none is left, and the other side knows.           *)
Wanted == IF throttled THEN "XOFF" ELSE "XON"

FlowInv ==
  /\ task.at # "xclear"
  /\ x_char # "none" => task.at = "xchar" /\ x_char = Wanted
  /\ x_char = "none" => (flow = "XOFF" <=> throttled)

(* A writer that found no room: it was woken since, the mark has not been   *)
(* passed, or the tasklet is on its way.                                    *)
WakeComing == CIRC_CNT >= WAKEUP_CHARS \/ tlet

NoRoomInv ==
  /\ ~open => writer.state = "none"
  /\ writer.state # "none" /\ task.at # "write_start" => writer.left > 0
  /\ task.at = "write_start" => writer.state = "run"
  /\ task.at = "write_start" /\ task.saw /\ writer.left > 0 /\ ~writer.woken => WakeComing

(* The ring is as it should be, and a closed port's is empty.               *)
RingInv == RingInOrder /\ (~open => head = tail)

IInv == TypeOK /\ TxArmed /\ CallKeeps /\ FlowInv /\ NoRoomInv /\ SleeperWoken /\ RingInv

-----------------------------------------------------------------------------
LEMMA ModRange ==
  ASSUME NEW a \in Int
  PROVE  a % SIZE \in Slots /\ a % SeqMod \in Chars
  BY SizeAssumption, SeqAssumption DEF Slots, Chars

Calls == [at : {"idle", "write_start", "stop", "start", "xchar", "xclear", "termios"},
          saw : BOOLEAN]

LEMMA AtType ==
  /\ At("stop") \in Calls /\ At("start") \in Calls
  /\ At("xchar") \in Calls /\ At("xclear") \in Calls
  BY DEF At, Calls

LEMMA TransmitType ==
  ASSUME TypeOK, NEW eie \in BOOLEAN, Transmit(eie)
  PROVE  /\ txe' \in BOOLEAN /\ txeie' \in BOOLEAN /\ tlet' \in BOOLEAN
         /\ x_char' \in {"none", "XON", "XOFF"} /\ flow' \in {"XON", "XOFF", "stale"}
         /\ tail' \in Slots /\ buf' \in [Slots -> Chars] /\ due' \in Chars
<1> USE DEF TypeOK, Transmit
<1>1. CASE x_char # "none"
  BY <1>1
<1>2. CASE x_char = "none" /\ (head = tail \/ stopped)
  BY <1>2
<1>3. CASE x_char = "none" /\ ~(head = tail \/ stopped)
  <2>1. tail + 1 \in Int /\ buf[tail] + 1 \in Int
    BY DEF Slots, Chars
  <2>2. tail' \in Slots /\ due' \in Chars
    BY <1>3, <2>1, ModRange DEF NextSlot
  <2>3. 0 \in Chars
    BY SeqAssumption, SizeAssumption DEF Chars
  <2>4. buf' \in [Slots -> Chars]
    BY <1>3, <2>3
  <2>5. tlet' \in BOOLEAN
    BY <1>3 DEF LowWater
  <2> QED BY <1>3, <2>2, <2>4, <2>5
<1> QED BY <1>1, <1>2, <1>3

LEMMA SpaceRange ==
  ASSUME NEW h \in Slots, tail \in Slots
  PROVE  CIRC_SPACE_TO_END(h) \in Nat
<1>1. SIZE - 1 - h + tail \in Int /\ SIZE - 1 - h \in Nat
  BY SizeAssumption DEF Slots
<1>2. (SIZE - 1 - h + tail) % SIZE \in Slots
  BY <1>1, ModRange
<1> QED BY <1>1, <1>2, SizeAssumption DEF CIRC_SPACE_TO_END, Slots

LEMMA CopiedRange ==
  ASSUME TypeOK, NEW count \in Nat
  PROVE  Copied(count) \in 0 .. count
<1> DEFINE c == Least(count, CIRC_SPACE_TO_END(head))
<1>1. head \in Slots /\ tail \in Slots
  BY DEF TypeOK
<1>2. c \in 0 .. count
  BY <1>1, SpaceRange DEF Least
<1>3. (head + c) % SIZE \in Slots
  <2>1. head + c \in Int
    BY <1>1, <1>2 DEF Slots
  <2> QED BY <2>1, ModRange
<1> HIDE DEF c
<1>4. CIRC_SPACE_TO_END((head + c) % SIZE) \in Nat
  BY <1>1, <1>3, SpaceRange
<1>5. Least(count - c, CIRC_SPACE_TO_END((head + c) % SIZE)) \in 0 .. count - c
  BY <1>2, <1>4 DEF Least
<1> QED BY <1>2, <1>5 DEF Copied, c

-----------------------------------------------------------------------------
LEMMA WokenType ==
  ASSUME TypeOK
  PROVE  Woken \in [state : {"none", "run", "sleep"}, left : 0 .. MaxWrite, woken : BOOLEAN]
  BY DEF TypeOK, Woken

LEMMA StartType ==
  ASSUME TypeOK, start_tx \/ uart_start
  PROVE  /\ txe' \in BOOLEAN /\ txeie' \in BOOLEAN /\ tlet' \in BOOLEAN
         /\ x_char' \in {"none", "XON", "XOFF"} /\ flow' \in {"XON", "XOFF", "stale"}
         /\ tail' \in Slots /\ buf' \in [Slots -> Chars] /\ due' \in Chars
<1>1. CASE Transmit(TRUE)
  BY <1>1, TransmitType
<1>2. CASE UNCHANGED <<txe, txeie, x_char, flow, tail, buf, due, tlet>>
  BY <1>2 DEF TypeOK
<1> QED BY <1>1, <1>2 DEF start_tx, uart_start

LEMMA TypeStep ==
  ASSUME TypeOK, [Next]_vars
  PROVE  TypeOK'
<1>1. 0 \in Slots /\ NoChars \in [Slots -> Chars]
  BY SizeAssumption, SeqAssumption DEF Slots, Chars, NoChars
<1>2. CASE stm32_usart_isr
  <2>1. Transmit(txeie) /\ txeie \in BOOLEAN
    BY <1>2 DEF stm32_usart_isr, TypeOK
  <2>2. /\ txe' \in BOOLEAN /\ txeie' \in BOOLEAN /\ tlet' \in BOOLEAN
        /\ x_char' \in {"none", "XON", "XOFF"} /\ flow' \in {"XON", "XOFF", "stale"}
        /\ tail' \in Slots /\ buf' \in [Slots -> Chars] /\ due' \in Chars
    BY <2>1, TransmitType
  <2> QED BY <1>2, <2>2 DEF stm32_usart_isr, TypeOK
<1>3. CASE Shift
  BY <1>3 DEF Shift, TypeOK
<1>4. CASE Tasklet
  <2>1. /\ tlet' \in BOOLEAN /\ writer' = Woken
        /\ UNCHANGED <<open, txeie, txe, x_char, head, tail, buf, stopped, task, throttled, flow,
                       due, written>>
    BY <1>4 DEF Tasklet
  <2> QED BY <2>1, WokenType DEF TypeOK
<1>5. CASE WriteCopy
  <2> DEFINE n == Copied(writer.left)
  <2>1. n \in 0 .. writer.left
    <3>1. writer.left \in Nat
      BY WriteAssumption DEF TypeOK
    <3> QED BY <3>1, CopiedRange
  <2> HIDE DEF n
  <2>2. head + n \in Int /\ written + n \in Int
    BY <2>1, WriteAssumption DEF TypeOK, Slots, Chars
  <2>3. (head + n) % SIZE \in Slots /\ (written + n) % SeqMod \in Chars
    BY <2>2, ModRange
  <2>4. \A s \in Slots : (written + ((s - head) % SIZE)) % SeqMod \in Chars
    <3> TAKE s \in Slots
    <3>1. s - head \in Int
      BY DEF TypeOK, Slots
    <3>2. (s - head) % SIZE \in Slots
      BY <3>1, ModRange
    <3>3. written + ((s - head) % SIZE) \in Int
      BY <3>2 DEF TypeOK, Slots, Chars
    <3> QED BY <3>3, ModRange
  <2>5. [s \in Slots |-> IF (s - head) % SIZE < n
                         THEN (written + ((s - head) % SIZE)) % SeqMod ELSE buf[s]]
          \in [Slots -> Chars]
    BY <2>4 DEF TypeOK
  <2>6. buf' \in [Slots -> Chars] /\ head' \in Slots /\ written' \in Chars
    BY <1>5, <2>3, <2>5 DEF WriteCopy, n
  <2>7. writer' \in [state : {"none", "run", "sleep"}, left : 0 .. MaxWrite, woken : BOOLEAN]
    <3>1. writer' = [writer EXCEPT !.left = @ - n]
      BY <1>5 DEF WriteCopy, n
    <3> QED BY <3>1, <2>1, WriteAssumption DEF TypeOK
  <2>8. task' \in Calls
    BY <1>5 DEF WriteCopy, Calls
  <2> QED BY <1>5, <2>6, <2>7, <2>8 DEF WriteCopy, Calls, TypeOK
<1>6. CASE WriteStart
  <2>1. writer' \in [state : {"none", "run", "sleep"}, left : 0 .. MaxWrite, woken : BOOLEAN]
    BY <1>6, WriteAssumption DEF WriteStart, NoWriter, TypeOK
  <2> QED BY <1>6, <2>1, StartType DEF WriteStart, Idle, TypeOK
<1>7. CASE Stop
  BY <1>7 DEF Stop, Idle, TypeOK
<1>8. CASE Start
  BY <1>8, StartType, WokenType DEF Start, Idle, TypeOK
<1>9. CASE Xchar
  <2>1. CASE task.at = "xchar"
    BY <1>9, <2>1, StartType DEF Xchar, Idle, TypeOK
  <2>2. CASE task.at # "xchar"
    BY <1>9, <2>2 DEF Xchar, Idle, TypeOK
  <2> QED BY <2>1, <2>2
<1>10. CASE TermiosWrite
  BY <1>10 DEF TermiosWrite, Idle, TypeOK
<1>11. CASE Startup
  BY <1>11, <1>1 DEF Startup, TypeOK
<1>12. CASE Shutdown \/ Hangup
  <2>1. flow' \in {"XON", "XOFF", "stale"}
    BY <1>12 DEF Shutdown, Hangup, uart_shutdown, Abandoned, TypeOK
  <2>2. CASE Shutdown
    BY <2>1, <2>2, <1>1 DEF Shutdown, uart_shutdown, TypeOK
  <2>3. CASE Hangup
    <3>1. NoWriter \in [state : {"none", "run", "sleep"}, left : 0 .. MaxWrite, woken : BOOLEAN]
      BY WriteAssumption DEF NoWriter
    <3>2. stopped' \in BOOLEAN
      BY <2>3 DEF Hangup, uart_shutdown, TypeOK
    <3> QED BY <2>1, <2>3, <3>1, <3>2, <1>1 DEF Hangup, uart_shutdown, TypeOK
  <2> QED BY <1>12, <2>2, <2>3
<1>13. CASE \E n \in 1 .. MaxWrite : WriteBegin(n)
  BY <1>13, WriteAssumption DEF WriteBegin, TypeOK
<1>14. CASE StopTty \/ StartTty
  <2>1. /\ stopped' \in BOOLEAN
        /\ task' \in Calls
        /\ UNCHANGED <<open, txeie, txe, x_char, head, tail, buf, tlet, writer, throttled, flow,
                       due, written>>
    BY <1>14, AtType DEF StopTty, StartTty
  <2> QED BY <2>1 DEF Calls, TypeOK
<1>15. CASE Flush
  BY <1>15, <1>1, WokenType DEF Flush, TypeOK
<1>16. CASE Throttle \/ Unthrottle
  <2>1. /\ throttled' \in BOOLEAN
        /\ task' \in Calls
        /\ x_char' \in {x_char, "XON", "XOFF"}
        /\ UNCHANGED <<open, txeie, txe, head, tail, buf, stopped, tlet, writer, flow, due,
                       written>>
    BY <1>16, AtType DEF Throttle, Unthrottle
  <2> QED BY <2>1 DEF Calls, TypeOK
<1>17. CASE TermiosRead
  BY <1>17 DEF TermiosRead, TypeOK
<1>18. CASE ConsoleWrite
  <2>1. /\ txe' \in BOOLEAN
        /\ UNCHANGED <<open, txeie, x_char, head, tail, buf, stopped, tlet, task, writer,
                       throttled, flow, due, written>>
    BY <1>18 DEF ConsoleWrite
  <2> QED BY <2>1 DEF TypeOK
<1>19. CASE UNCHANGED vars
  BY <1>19 DEF vars, TypeOK
<1> QED
  BY <1>2, <1>3, <1>4, <1>5, <1>6, <1>7, <1>8, <1>9, <1>10, <1>11, <1>12, <1>13, <1>14, <1>15,
     <1>16, <1>17, <1>18, <1>19 DEF Next, CallStep, TxEmptyIrq, IdleIrq

-----------------------------------------------------------------------------

LEMMA ArmedStep ==
  ASSUME TypeOK, TxArmed, CallKeeps, [Next]_vars
  PROVE  TxArmed' /\ CallKeeps'
<1> USE DEF TypeOK, TxArmed, CallKeeps
<1>1. CASE stm32_usart_isr
  BY <1>1 DEF stm32_usart_isr, Transmit
<1>2. CASE Shift
  BY <1>2 DEF Shift
<1>3. CASE Tasklet
  BY <1>3 DEF Tasklet, Woken
<1>4. CASE WriteCopy
  BY <1>4 DEF WriteCopy
<1>5. CASE WriteStart
  BY <1>5 DEF WriteStart, uart_start, start_tx, Transmit, Idle, NoWriter
<1>6. CASE Stop
  BY <1>6 DEF Stop, Idle
<1>7. CASE Start
  BY <1>7 DEF Start, uart_start, start_tx, Transmit, Idle, Woken
<1>8. CASE Xchar
  BY <1>8 DEF Xchar, start_tx, Transmit, Idle
<1>9. CASE TermiosWrite
  BY <1>9 DEF TermiosWrite, Idle
<1>10. CASE Startup
  BY <1>10 DEF Startup
<1>11. CASE Shutdown \/ Hangup
  BY <1>11 DEF Shutdown, Hangup, uart_shutdown, Abandoned, NoWriter
<1>12. CASE \E n \in 1 .. MaxWrite : WriteBegin(n)
  BY <1>12 DEF WriteBegin
<1>13. CASE StopTty \/ StartTty
  BY <1>13 DEF StopTty, StartTty, At
<1>14. CASE Flush
  BY <1>14 DEF Flush, Woken
<1>15. CASE Throttle \/ Unthrottle
  BY <1>15 DEF Throttle, Unthrottle, At
<1>16. CASE TermiosRead
  BY <1>16 DEF TermiosRead
<1>17. CASE ConsoleWrite
  BY <1>17 DEF ConsoleWrite
<1>18. CASE UNCHANGED vars
  BY <1>18 DEF vars
<1> QED
  BY <1>1, <1>2, <1>3, <1>4, <1>5, <1>6, <1>7, <1>8, <1>9, <1>10, <1>11, <1>12, <1>13, <1>14,
     <1>15, <1>16, <1>17, <1>18 DEF Next, CallStep, TxEmptyIrq, IdleIrq

LEMMA FlowStep ==
  ASSUME TypeOK, FlowInv, [Next]_vars
  PROVE  FlowInv'
<1> USE DEF TypeOK, FlowInv, Wanted
<1>1. CASE stm32_usart_isr
  BY <1>1 DEF stm32_usart_isr, Transmit
<1>2. CASE Shift
  BY <1>2 DEF Shift
<1>3. CASE Tasklet
  BY <1>3 DEF Tasklet, Woken
<1>4. CASE WriteCopy
  BY <1>4 DEF WriteCopy
<1>5. CASE WriteStart
  BY <1>5 DEF WriteStart, uart_start, start_tx, Transmit, Idle, NoWriter
<1>6. CASE Stop
  BY <1>6 DEF Stop, Idle
<1>7. CASE Start
  BY <1>7 DEF Start, uart_start, start_tx, Transmit, Idle, Woken
<1>8. CASE Xchar
  BY <1>8 DEF Xchar, start_tx, Transmit, Idle
<1>9. CASE TermiosWrite
  BY <1>9 DEF TermiosWrite, Idle
<1>10. CASE Startup
  BY <1>10 DEF Startup
<1>11. CASE Shutdown \/ Hangup
  BY <1>11 DEF Shutdown, Hangup, uart_shutdown, Abandoned, NoWriter
<1>12. CASE \E n \in 1 .. MaxWrite : WriteBegin(n)
  BY <1>12 DEF WriteBegin
<1>13. CASE StopTty \/ StartTty
  BY <1>13 DEF StopTty, StartTty, At
<1>14. CASE Flush
  BY <1>14 DEF Flush, Woken
<1>15. CASE Throttle \/ Unthrottle
  BY <1>15 DEF Throttle, Unthrottle, At
<1>16. CASE TermiosRead
  BY <1>16 DEF TermiosRead
<1>17. CASE ConsoleWrite
  BY <1>17 DEF ConsoleWrite
<1>18. CASE UNCHANGED vars
  BY <1>18 DEF vars
<1> QED
  BY <1>1, <1>2, <1>3, <1>4, <1>5, <1>6, <1>7, <1>8, <1>9, <1>10, <1>11, <1>12, <1>13, <1>14,
     <1>15, <1>16, <1>17, <1>18 DEF Next, CallStep, TxEmptyIrq, IdleIrq

-----------------------------------------------------------------------------
LEMMA ModValue ==
  ASSUME NEW a \in Int, -SIZE <= a, a < 2 * SIZE
  PROVE  a % SIZE = IF a < 0 THEN a + SIZE ELSE IF a < SIZE THEN a ELSE a - SIZE
  BY SizeAssumption

LEMMA FullRing ==
  ASSUME TypeOK, NEW count \in Nat, count > 0, Copied(count) = 0
  PROVE  CIRC_CNT = SIZE - 1
<1> DEFINE c == Least(count, CIRC_SPACE_TO_END(head))
<1> DEFINE a == SIZE - 1 - head + tail
<1>1. head \in Slots /\ tail \in Slots
  BY DEF TypeOK
<1>2. CIRC_SPACE_TO_END(head) \in Nat
  BY <1>1, SpaceRange
<1>3. c \in 0 .. count
  BY <1>2 DEF Least
<1>4. Least(count - c, CIRC_SPACE_TO_END((head + c) % SIZE)) \in Nat
  <2>1. head + c \in Int
    BY <1>1, <1>3 DEF Slots
  <2>2. CIRC_SPACE_TO_END((head + c) % SIZE) \in Nat
    BY <1>1, <2>1, ModRange, SpaceRange
  <2> HIDE DEF c
  <2> QED BY <1>3, <2>2 DEF Least
<1>5. c = 0
  <2> HIDE DEF c
  <2>1. c + Least(count - c, CIRC_SPACE_TO_END((head + c) % SIZE)) = 0
    BY DEF Copied, c
  <2> QED BY <2>1, <1>3, <1>4
<1>6. CIRC_SPACE_TO_END(head) = 0
  BY <1>2, <1>5 DEF Least
<1>7. a \in Int /\ -SIZE <= a /\ a < 2 * SIZE
  BY <1>1, SizeAssumption DEF Slots
<1>8. a % SIZE = 0
  <2>1. a % SIZE \in Slots
    BY <1>7, ModRange
  <2>2. SIZE - 1 - head + 1 # 0
    BY <1>1, SizeAssumption DEF Slots
  <2> QED BY <1>6, <2>1, <2>2 DEF CIRC_SPACE_TO_END
<1>9. a % SIZE = IF a < 0 THEN a + SIZE ELSE IF a < SIZE THEN a ELSE a - SIZE
  BY <1>7, ModValue
<1>10. a = 0 \/ a = SIZE
  BY <1>1, <1>7, <1>8, <1>9, SizeAssumption DEF Slots
<1>11. head - tail = SIZE - 1 \/ head - tail = -1
  BY <1>1, <1>10, SizeAssumption DEF Slots
<1>12. (head - tail) % SIZE = SIZE - 1
  <2>1. CASE head - tail = SIZE - 1
    BY <2>1, ModValue, SizeAssumption
  <2>2. CASE head - tail = -1
    BY <2>2, ModValue, SizeAssumption
  <2> QED BY <1>11, <2>1, <2>2
<1> QED BY <1>12 DEF CIRC_CNT

LEMMA TransmitWakes ==
  ASSUME TypeOK, NEW eie \in BOOLEAN, Transmit(eie), head' = head, WakeComing
  PROVE  WakeComing'
<1>1. CASE x_char # "none" \/ head = tail \/ stopped
  BY <1>1 DEF Transmit, WakeComing, CIRC_CNT
<1>2. CASE x_char = "none" /\ ~(head = tail \/ stopped)
  <2>1. tail' \in Slots /\ head \in Slots
    BY TransmitType DEF TypeOK
  <2>2. head' - tail' \in Int
    BY <2>1 DEF Slots
  <2>3. CIRC_CNT' \in Slots
    BY <2>2, ModRange DEF CIRC_CNT
  <2>4. tlet' = (tlet \/ CIRC_CNT' < WAKEUP_CHARS)
    BY <1>2 DEF Transmit, LowWater, CIRC_CNT
  <2>5. CIRC_CNT' < WAKEUP_CHARS \/ CIRC_CNT' >= WAKEUP_CHARS
    BY <2>3, WakeAssumption, SizeAssumption DEF Slots
  <2>6. CIRC_CNT' < WAKEUP_CHARS => tlet'
    BY <2>4
  <2> QED BY <2>5, <2>6, Zenon DEF WakeComing
<1> QED BY <1>1, <1>2

LEMMA StartWakes ==
  ASSUME TypeOK, start_tx \/ uart_start, head' = head, WakeComing
  PROVE  WakeComing'
<1>1. CASE Transmit(TRUE)
  BY <1>1, TransmitWakes
<1>2. CASE UNCHANGED <<txe, txeie, x_char, flow, tail, buf, due, tlet>>
  BY <1>2 DEF WakeComing, CIRC_CNT
<1> QED BY <1>1, <1>2 DEF start_tx, uart_start

LEMMA RoomStep ==
  ASSUME TypeOK, NoRoomInv, SleeperWoken, [Next]_vars
  PROVE  NoRoomInv' /\ SleeperWoken'
<1>1. SleeperWoken <=> (writer.state = "sleep" => WakeComing)
  BY DEF SleeperWoken, WakeComing
<1>2. CASE stm32_usart_isr
  <2>1. Transmit(txeie) /\ txeie \in BOOLEAN /\ UNCHANGED <<open, head, task, writer>>
    BY <1>2 DEF stm32_usart_isr, TypeOK
  <2>2. WakeComing => WakeComing'
    BY <2>1, TransmitWakes
  <2> QED BY <2>1, <2>2 DEF NoRoomInv, SleeperWoken, WakeComing
<1>3. CASE Shift \/ TermiosRead \/ TermiosWrite \/ Stop \/ StopTty \/ StartTty \/ Throttle
          \/ Unthrottle \/ ConsoleWrite
  <2>1. \/ /\ UNCHANGED <<open, head, tail, tlet, writer>>
           /\ task.at # "write_start" /\ task'.at # "write_start"
        \/ UNCHANGED <<open, head, tail, tlet, writer, task>>
    BY <1>3 DEF Shift, TermiosRead, TermiosWrite, Stop, StopTty, StartTty, Throttle, Unthrottle,
                ConsoleWrite, Idle, At
  <2> QED BY <2>1 DEF NoRoomInv, SleeperWoken, WakeComing, CIRC_CNT
<1>4. CASE Tasklet
  BY <1>4 DEF Tasklet, Woken, TypeOK, NoRoomInv, SleeperWoken
<1>5. CASE WriteCopy
  <2> DEFINE n == Copied(writer.left)
  <2>1. writer.left \in Nat /\ writer.left > 0
    BY <1>5, WriteAssumption DEF WriteCopy, TypeOK, NoRoomInv
  <2>2. n \in 0 .. writer.left
    BY <2>1, CopiedRange
  <2>3. /\ writer' = [writer EXCEPT !.left = @ - n] /\ writer.state = "run" /\ open' = open
        /\ task' = [at |-> "write_start", saw |-> n = 0]
    BY <1>5 DEF WriteCopy
  <2>4. n = 0 => WakeComing'
    <3> SUFFICES ASSUME n = 0 PROVE WakeComing'
      OBVIOUS
    <3>1. CIRC_CNT = SIZE - 1
      BY <2>1, FullRing
    <3>2. head' = head /\ tail' = tail
      <4>1. head \in Slots
        BY DEF TypeOK
      <4>2. (head + 0) % SIZE = head
        BY <4>1, ModValue, SizeAssumption DEF Slots
      <4>3. head' = (head + n) % SIZE /\ tail' = tail
        BY <1>5 DEF WriteCopy
      <4> QED BY <4>2, <4>3
    <3>3. CIRC_CNT' = CIRC_CNT
      BY <3>2 DEF CIRC_CNT
    <3>4. CIRC_CNT' >= WAKEUP_CHARS
      BY <3>1, <3>3, WakeAssumption, SizeAssumption
    <3> QED BY <3>4 DEF WakeComing
  <2> HIDE DEF n
  <2>5. writer'.state = "run" /\ task'.at = "write_start" /\ (task'.saw => n = 0)
    BY <2>3 DEF TypeOK
  <2> QED BY <2>3, <2>4, <2>5 DEF NoRoomInv, SleeperWoken
<1>6. CASE WriteStart
  <2>1. WakeComing => WakeComing'
    BY <1>6, StartWakes DEF WriteStart
  <2>2. /\ task.at = "write_start" /\ task'.at = "idle" /\ open' = open
        /\ writer' = IF writer.left = 0 THEN NoWriter
                     ELSE IF ~task.saw THEN writer
                     ELSE IF writer.woken THEN [writer EXCEPT !.woken = FALSE]
                     ELSE [writer EXCEPT !.state = "sleep"]
    BY <1>6 DEF WriteStart, Idle
  <2>3. writer.state = "run" /\ writer.left \in Nat
    BY <2>2, WriteAssumption DEF NoRoomInv, TypeOK
  <2>4. writer'.state = "sleep" => task.saw /\ writer.left > 0 /\ ~writer.woken
    BY <2>2, <2>3 DEF NoWriter, TypeOK
  <2>5. writer'.state # "none" => writer'.left > 0
    BY <2>2, <2>3 DEF NoWriter, TypeOK
  <2>6. SleeperWoken'
    BY <2>1, <2>2, <2>4 DEF NoRoomInv, SleeperWoken, WakeComing
  <2>7. open
    BY <2>3 DEF NoRoomInv
  <2> QED BY <2>2, <2>5, <2>6, <2>7 DEF NoRoomInv
<1>7. CASE Start
  <2>1. /\ task.at = "start" /\ task'.at = "idle" /\ open' = open /\ writer' = Woken
    BY <1>7 DEF Start, Idle
  <2> QED BY <2>1 DEF Woken, TypeOK, NoRoomInv, SleeperWoken
<1>8. CASE Xchar
  <2>1. WakeComing => WakeComing'
    <3>1. CASE task.at = "xchar"
      BY <1>8, <3>1, StartWakes DEF Xchar
    <3>2. CASE task.at # "xchar"
      BY <1>8, <3>2 DEF Xchar, WakeComing, CIRC_CNT
    <3> QED BY <3>1, <3>2
  <2>2. task.at # "write_start" /\ task'.at = "idle" /\ UNCHANGED <<open, writer>>
    BY <1>8 DEF Xchar, Idle
  <2> QED BY <2>1, <2>2 DEF NoRoomInv, SleeperWoken, WakeComing
<1>9. CASE Startup \/ Shutdown \/ Hangup
  <2>1. task' = task /\ task.at = "idle"
    BY <1>9 DEF Startup, Shutdown, Hangup, uart_shutdown
  <2>2. NoWriter.state = "none"
    BY DEF NoWriter
  <2>3. writer'.state = "none"
    <3>1. CASE Startup
      BY <3>1 DEF Startup, NoRoomInv
    <3>2. CASE Shutdown
      BY <3>2, <2>2 DEF Shutdown, uart_shutdown
    <3>3. CASE Hangup
      BY <3>3, <2>2 DEF Hangup, uart_shutdown
    <3> QED BY <1>9, <3>1, <3>2, <3>3
  <2> QED BY <2>1, <2>3 DEF NoRoomInv, SleeperWoken
<1>10. CASE \E n \in 1 .. MaxWrite : WriteBegin(n)
  <2>1. PICK n \in 1 .. MaxWrite : WriteBegin(n)
    BY <1>10
  <2>2. n > 0
    BY WriteAssumption
  <2> QED BY <2>1, <2>2 DEF WriteBegin, NoRoomInv, SleeperWoken
<1>11. CASE Flush
  BY <1>11 DEF Flush, Woken, TypeOK, NoRoomInv, SleeperWoken
<1>12. CASE UNCHANGED vars
  BY <1>12 DEF vars, NoRoomInv, SleeperWoken, WakeComing, CIRC_CNT
<1> QED
  BY <1>2, <1>3, <1>4, <1>5, <1>6, <1>7, <1>8, <1>9, <1>10, <1>11, <1>12
     DEF Next, CallStep, TxEmptyIrq, IdleIrq

-----------------------------------------------------------------------------
(* Counting on a circle of M places.                                        *)

LEMMA ModCases ==
  ASSUME NEW M \in Nat, M > 0, NEW a \in Int, -M <= a, a < 2 * M
  PROVE  a % M = IF a < 0 THEN a + M ELSE IF a < M THEN a ELSE a - M
  OBVIOUS

(* How far x is ahead of y on a circle of M places.                         *)
LEMMA Ahead ==
  ASSUME NEW M \in Nat, NEW x \in 0 .. M - 1, NEW y \in 0 .. M - 1
  PROVE  /\ (x - y) % M = IF x >= y THEN x - y ELSE x - y + M
         /\ (x - y) % M \in 0 .. M - 1
<1>1. M > 0 /\ x - y \in Int /\ -M <= x - y /\ x - y < 2 * M
  OBVIOUS
<1>2. (x - y) % M = IF x - y < 0 THEN x - y + M ELSE IF x - y < M THEN x - y ELSE x - y - M
  BY <1>1, ModCases
<1> QED BY <1>1, <1>2

LEMMA Onward ==
  ASSUME NEW M \in Nat, NEW x \in 0 .. M - 1, NEW c \in 0 .. M
  PROVE  /\ (x + c) % M = IF x + c < M THEN x + c ELSE x + c - M
         /\ (x + c) % M \in 0 .. M - 1
<1>1. M > 0 /\ x + c \in Int /\ -M <= x + c /\ x + c < 2 * M /\ 0 <= x + c
  OBVIOUS
<1>2. (x + c) % M = IF x + c < 0 THEN x + c + M ELSE IF x + c < M THEN x + c ELSE x + c - M
  BY <1>1, ModCases
<1> QED BY <1>1, <1>2

LEMMA OnwardTwice ==
  ASSUME NEW M \in Nat, NEW x \in 0 .. M - 1, NEW c \in Nat, NEW k \in Nat, c + k <= M
  PROVE  (((x + c) % M) + k) % M = (x + (c + k)) % M
<1> DEFINE z == (x + c) % M
<1>1. c \in 0 .. M /\ k \in 0 .. M /\ c + k \in 0 .. M
  OBVIOUS
<1>2. z = (IF x + c < M THEN x + c ELSE x + c - M) /\ z \in 0 .. M - 1
  BY <1>1, Onward
<1> HIDE DEF z
<1>3. (z + k) % M = IF z + k < M THEN z + k ELSE z + k - M
  BY <1>1, <1>2, Onward
<1>4. (x + (c + k)) % M = IF x + (c + k) < M THEN x + (c + k) ELSE x + (c + k) - M
  BY <1>1, Onward
<1>5. (z + k) % M = (x + (c + k)) % M
  BY <1>2, <1>3, <1>4
<1> QED BY <1>5 DEF z

LEMMA FurtherAhead ==
  ASSUME NEW M \in Nat, NEW x \in 0 .. M - 1, NEW y \in 0 .. M - 1, NEW c \in Nat,
         ((x - y) % M) + c < M
  PROVE  (((x + c) % M) - y) % M = ((x - y) % M) + c
<1> DEFINE z == (x + c) % M
           d == (x - y) % M
<1>1. d = (IF x >= y THEN x - y ELSE x - y + M) /\ d \in 0 .. M - 1 /\ d + c < M
  BY Ahead
<1>2. c \in 0 .. M
  <2> HIDE DEF d
  <2> QED BY <1>1
<1>3. z = (IF x + c < M THEN x + c ELSE x + c - M) /\ z \in 0 .. M - 1
  BY <1>2, Onward
<1> HIDE DEF z, d
<1>4. (z - y) % M = IF z >= y THEN z - y ELSE z - y + M
  BY <1>3, Ahead
<1>5. (z - y) % M = d + c
  BY <1>1, <1>3, <1>4
<1> QED BY <1>5 DEF z, d

(* The place k after y, seen from x.                                        *)
LEMMA SeenFrom ==
  ASSUME NEW M \in Nat, NEW x \in 0 .. M - 1, NEW y \in 0 .. M - 1, NEW k \in 0 .. M - 1
  PROVE  /\ (((y + k) % M) - x) % M =
              IF k >= (x - y) % M THEN k - ((x - y) % M) ELSE k - ((x - y) % M) + M
         /\ k >= (x - y) % M => (x + (k - ((x - y) % M))) % M = (y + k) % M
<1> DEFINE z == (y + k) % M
           d == (x - y) % M
<1>1. d = (IF x >= y THEN x - y ELSE x - y + M) /\ d \in 0 .. M - 1
  BY Ahead
<1>2. k \in 0 .. M
  OBVIOUS
<1>3. z = (IF y + k < M THEN y + k ELSE y + k - M) /\ z \in 0 .. M - 1
  BY <1>2, Onward
<1> HIDE DEF z, d
<1>4. (z - x) % M = IF z >= x THEN z - x ELSE z - x + M
  BY <1>3, Ahead
<1>5. (z - x) % M = IF k >= d THEN k - d ELSE k - d + M
  BY <1>1, <1>3, <1>4
<1>6. ASSUME k >= d PROVE (x + (k - d)) % M = z
  <2>1. k - d \in 0 .. M
    BY <1>1, <1>6
  <2>2. (x + (k - d)) % M = IF x + (k - d) < M THEN x + (k - d) ELSE x + (k - d) - M
    BY <2>1, Onward
  <2> QED BY <1>1, <1>3, <1>6, <2>2
<1> QED BY <1>5, <1>6 DEF z, d

-----------------------------------------------------------------------------
(* The ring.                                                                *)

LEMMA RingTypes ==
  ASSUME TypeOK
  PROVE  /\ SIZE \in Nat /\ SeqMod \in Nat /\ 1 < SIZE /\ SIZE <= SeqMod
         /\ head \in 0 .. SIZE - 1 /\ tail \in 0 .. SIZE - 1
         /\ written \in 0 .. SeqMod - 1 /\ due \in 0 .. SeqMod - 1
  BY SizeAssumption, SeqAssumption DEF TypeOK, Slots, Chars

(* CIRC_SPACE_TO_END() never reports more than the free slots.              *)
LEMMA SpaceBound ==
  ASSUME NEW h \in 0 .. SIZE - 1, tail \in 0 .. SIZE - 1
  PROVE  /\ CIRC_SPACE_TO_END(h) \in Nat
         /\ CIRC_SPACE_TO_END(h) <= SIZE - 1 - ((h - tail) % SIZE)
<1> DEFINE end == SIZE - 1 - h
           n   == (end + tail) % SIZE
<1>1. SIZE \in Nat /\ SIZE > 1
  BY SizeAssumption
<1>2. (h - tail) % SIZE = IF h >= tail THEN h - tail ELSE h - tail + SIZE
  BY <1>1, Ahead
<1>3. end \in 0 .. SIZE - 1 /\ tail \in 0 .. SIZE
  BY <1>1
<1>4. n = (IF end + tail < SIZE THEN end + tail ELSE end + tail - SIZE) /\ n \in 0 .. SIZE - 1
  <2> HIDE DEF end
  <2> QED BY <1>1, <1>3, Onward
<1>5. CIRC_SPACE_TO_END(h) = IF n <= end THEN n ELSE end + 1
  BY DEF CIRC_SPACE_TO_END
<1> HIDE DEF n
<1> QED BY <1>1, <1>2, <1>3, <1>4, <1>5

(* uart_write() copies no more than fits, in its two turns together.        *)
LEMMA CopiedFits ==
  ASSUME TypeOK, NEW count \in Nat
  PROVE  Copied(count) \in Nat /\ CIRC_CNT + Copied(count) < SIZE
<1> DEFINE c == Least(count, CIRC_SPACE_TO_END(head))
           h == (head + c) % SIZE
           e == Least(count - c, CIRC_SPACE_TO_END(h))
<1>1. SIZE \in Nat /\ 1 < SIZE /\ head \in 0 .. SIZE - 1 /\ tail \in 0 .. SIZE - 1
  BY RingTypes
<1>2. CIRC_CNT \in 0 .. SIZE - 1
  BY <1>1, Ahead DEF CIRC_CNT
<1>3. CIRC_SPACE_TO_END(head) \in Nat /\ CIRC_SPACE_TO_END(head) <= SIZE - 1 - CIRC_CNT
  BY <1>1, SpaceBound DEF CIRC_CNT
<1>4. c \in Nat /\ c <= count /\ CIRC_CNT + c < SIZE
  BY <1>1, <1>2, <1>3 DEF Least
<1> HIDE DEF c
<1>5. c \in 0 .. SIZE
  BY <1>1, <1>2, <1>4
<1>6. h \in 0 .. SIZE - 1
  BY <1>1, <1>5, Onward
<1>7. (h - tail) % SIZE = CIRC_CNT + c
  BY <1>1, <1>4, FurtherAhead DEF CIRC_CNT
<1> HIDE DEF h
<1>8. CIRC_SPACE_TO_END(h) \in Nat /\ CIRC_SPACE_TO_END(h) <= SIZE - 1 - (CIRC_CNT + c)
  BY <1>1, <1>6, <1>7, SpaceBound
<1>9. e \in Nat /\ e <= SIZE - 1 - (CIRC_CNT + c)
  BY <1>1, <1>2, <1>4, <1>8 DEF Least
<1>10. Copied(count) = c + e
  BY DEF Copied, c, h
<1> HIDE DEF e
<1> QED BY <1>1, <1>2, <1>4, <1>9, <1>10

LEMMA RingKept ==
  ASSUME RingInOrder, UNCHANGED <<head, tail, buf, written, due>>
  PROVE  RingInOrder'
  BY DEF RingInOrder, CIRC_CNT

(* Cleared, with the wire up to date.                                       *)
LEMMA RingCleared ==
  ASSUME TypeOK, head' = 0, tail' = 0, (written' - due') % SeqMod = 0
  PROVE  RingInOrder'
<1>1. SIZE \in Nat /\ 0 \in 0 .. SIZE - 1 /\ 0 - 0 = 0
  BY SizeAssumption
<1>2. (0 - 0) % SIZE = 0
  BY <1>1, Ahead
<1>3. CIRC_CNT' = 0
  BY <1>2 DEF CIRC_CNT
<1> QED BY <1>1, <1>3 DEF RingInOrder

(* stm32_transmit() takes the character that is due.                        *)
LEMMA RingRead ==
  ASSUME TypeOK, RingInOrder, NEW eie \in BOOLEAN, Transmit(eie), UNCHANGED <<head, written>>
  PROVE  RingInOrder' /\ (head = tail => tail' = tail)
<1>1. CASE x_char # "none" \/ head = tail \/ stopped
  BY <1>1, RingKept DEF Transmit
<1>2. CASE x_char = "none" /\ ~(head = tail \/ stopped)
  <2>1. /\ tail' = (tail + 1) % SIZE
        /\ buf' = [buf EXCEPT ![tail] = 0]
        /\ due' = (buf[tail] + 1) % SeqMod
    BY <1>2 DEF Transmit, NextSlot
  <2>2. /\ SIZE \in Nat /\ SeqMod \in Nat /\ 1 < SIZE /\ SIZE <= SeqMod
        /\ head \in 0 .. SIZE - 1 /\ tail \in 0 .. SIZE - 1
        /\ written \in 0 .. SeqMod - 1 /\ due \in 0 .. SeqMod - 1
    BY RingTypes
  <2>3. /\ 1 \in Nat /\ 1 \in 0 .. SIZE /\ 1 \in 0 .. SeqMod /\ 0 \in 0 .. SIZE - 1
        /\ 0 \in 0 .. SIZE /\ 0 \in 0 .. SeqMod
    BY <2>2
  <2>4. /\ CIRC_CNT = (IF head >= tail THEN head - tail ELSE head - tail + SIZE)
        /\ CIRC_CNT \in 1 .. SIZE - 1
    <3>1. CIRC_CNT = (IF head >= tail THEN head - tail ELSE head - tail + SIZE)
      BY <2>2, Ahead DEF CIRC_CNT
    <3> QED BY <1>2, <2>2, <3>1
  <2>5. /\ CIRC_CNT = (written - due) % SeqMod
        /\ \A k \in 0 .. SIZE - 1 :
             k < CIRC_CNT => buf[(tail + k) % SIZE] = (due + k) % SeqMod
    BY DEF RingInOrder
  <2>6. buf[tail] = due
    <3>1. (tail + 0) % SIZE = tail
      BY <2>2, <2>3, Onward
    <3>2. (due + 0) % SeqMod = due
      BY <2>2, <2>3, Onward
    <3>3. buf[(tail + 0) % SIZE] = (due + 0) % SeqMod
      BY <2>3, <2>4, <2>5
    <3> QED BY <3>1, <3>2, <3>3
  <2>7. tail' = (IF tail + 1 < SIZE THEN tail + 1 ELSE tail + 1 - SIZE) /\ tail' \in 0 .. SIZE - 1
    BY <2>1, <2>2, <2>3, Onward
  <2>8. due' = (due + 1) % SeqMod
    BY <2>1, <2>6
  <2>9. /\ due' = (IF due + 1 < SeqMod THEN due + 1 ELSE due + 1 - SeqMod)
        /\ due' \in 0 .. SeqMod - 1
    BY <2>2, <2>3, <2>8, Onward
  <2>10. CIRC_CNT' = CIRC_CNT - 1
    <3>1. CIRC_CNT' = IF head >= tail' THEN head - tail' ELSE head - tail' + SIZE
      BY <2>2, <2>7, Ahead DEF CIRC_CNT
    <3> QED BY <1>2, <2>2, <2>4, <2>7, <3>1
  <2>11. (written - due') % SeqMod = CIRC_CNT - 1
    <3>1. (written - due) % SeqMod = IF written >= due THEN written - due ELSE written - due + SeqMod
      BY <2>2, Ahead
    <3>2. (written - due') % SeqMod =
            IF written >= due' THEN written - due' ELSE written - due' + SeqMod
      BY <2>2, <2>9, Ahead
    <3>3. CIRC_CNT = IF written >= due THEN written - due ELSE written - due + SeqMod
      BY <2>5, <3>1
    <3>4. CASE due + 1 < SeqMod
      BY <2>2, <2>4, <2>9, <3>2, <3>3, <3>4
    <3>5. CASE ~(due + 1 < SeqMod)
      <4>1. due' = 0 /\ due = SeqMod - 1
        BY <2>2, <2>9, <3>5
      <4> QED BY <2>2, <2>4, <3>2, <3>3, <4>1
    <3> QED BY <3>4, <3>5
  <2>12. ASSUME NEW k \in 0 .. SIZE - 1, k < CIRC_CNT - 1
         PROVE  buf'[(tail' + k) % SIZE] = (due' + k) % SeqMod
    <3>1. /\ k \in Nat /\ 1 + k <= SIZE /\ 1 + k <= SeqMod
          /\ 1 + k \in 0 .. SIZE - 1 /\ 1 + k \in 0 .. SIZE /\ 1 + k < CIRC_CNT
      BY <2>2, <2>4, <2>12
    <3>2. (tail' + k) % SIZE = (tail + (1 + k)) % SIZE
      BY <2>1, <2>2, <2>3, <3>1, OnwardTwice
    <3>3. (due' + k) % SeqMod = (due + (1 + k)) % SeqMod
      BY <2>2, <2>3, <2>8, <3>1, OnwardTwice
    <3>4. /\ (tail + (1 + k)) % SIZE \in 0 .. SIZE - 1
          /\ (tail + (1 + k)) % SIZE # tail
      <4>1. (tail + (1 + k)) % SIZE =
              IF tail + (1 + k) < SIZE THEN tail + (1 + k) ELSE tail + (1 + k) - SIZE
        BY <2>2, <3>1, Onward
      <4> QED BY <2>2, <3>1, <4>1
    <3>5. buf'[(tail + (1 + k)) % SIZE] = buf[(tail + (1 + k)) % SIZE]
      BY <2>1, <3>4 DEF TypeOK, Slots
    <3>6. buf[(tail + (1 + k)) % SIZE] = (due + (1 + k)) % SeqMod
      BY <2>5, <3>1
    <3> QED BY <3>2, <3>3, <3>5, <3>6
  <2> QED BY <1>2, <2>10, <2>11, <2>12 DEF RingInOrder
<1> QED BY <1>1, <1>2

LEMMA RingStart ==
  ASSUME TypeOK, RingInOrder, start_tx \/ uart_start, UNCHANGED <<head, written>>
  PROVE  RingInOrder' /\ (head = tail => tail' = tail)
<1>1. CASE Transmit(TRUE)
  BY <1>1, RingRead
<1>2. CASE UNCHANGED <<txe, txeie, x_char, flow, tail, buf, due, tlet>>
  BY <1>2, RingKept
<1> QED BY <1>1, <1>2 DEF start_tx, uart_start

(* uart_write() fills free slots only, and goes on where it stopped.        *)
LEMMA RingWrite ==
  ASSUME TypeOK, RingInOrder, WriteCopy
  PROVE  RingInOrder'
<1> DEFINE n == Copied(writer.left)
<1>1. /\ buf' = [s \in Slots |-> IF (s - head) % SIZE < n
                                 THEN (written + ((s - head) % SIZE)) % SeqMod ELSE buf[s]]
      /\ head' = (head + n) % SIZE /\ tail' = tail
      /\ written' = (written + n) % SeqMod /\ due' = due
  BY DEF WriteCopy
<1>2. n \in Nat /\ CIRC_CNT + n < SIZE
  <2>1. writer.left \in Nat
    BY WriteAssumption DEF TypeOK
  <2> QED BY <2>1, CopiedFits
<1> HIDE DEF n
<1>3. /\ SIZE \in Nat /\ SeqMod \in Nat /\ 1 < SIZE /\ SIZE <= SeqMod
      /\ head \in 0 .. SIZE - 1 /\ tail \in 0 .. SIZE - 1
      /\ written \in 0 .. SeqMod - 1 /\ due \in 0 .. SeqMod - 1
  BY RingTypes
<1>4. CIRC_CNT \in 0 .. SIZE - 1 /\ CIRC_CNT = (head - tail) % SIZE
  BY <1>3, Ahead DEF CIRC_CNT
<1>5. /\ CIRC_CNT = (written - due) % SeqMod
      /\ \A k \in 0 .. SIZE - 1 :
           k < CIRC_CNT => buf[(tail + k) % SIZE] = (due + k) % SeqMod
  BY DEF RingInOrder
<1>6. CIRC_CNT' = CIRC_CNT + n
  <2>1. (((head + n) % SIZE) - tail) % SIZE = ((head - tail) % SIZE) + n
    BY <1>2, <1>3, <1>4, FurtherAhead
  <2>2. CIRC_CNT' = (head' - tail') % SIZE
    BY DEF CIRC_CNT
  <2> QED BY <1>1, <1>4, <2>1, <2>2
<1>7. (written' - due') % SeqMod = CIRC_CNT + n
  <2>1. CIRC_CNT + n < SeqMod
    BY <1>2, <1>3, <1>4
  <2>2. (((written + n) % SeqMod) - due) % SeqMod = ((written - due) % SeqMod) + n
    BY <1>2, <1>3, <1>5, <2>1, FurtherAhead
  <2> QED BY <1>1, <1>5, <2>2
<1>8. ASSUME NEW k \in 0 .. SIZE - 1, k < CIRC_CNT + n
      PROVE  buf'[(tail' + k) % SIZE] = (due' + k) % SeqMod
  <2> DEFINE s == (tail + k) % SIZE
  <2>1. s \in 0 .. SIZE - 1 /\ s \in Slots
    <3>1. k \in 0 .. SIZE
      BY <1>3
    <3> QED BY <1>3, <3>1, Onward DEF Slots
  <2>2. (s - head) % SIZE = IF k >= CIRC_CNT THEN k - CIRC_CNT ELSE k - CIRC_CNT + SIZE
    BY <1>3, <1>4, SeenFrom
  <2>3. k \in 0 .. SeqMod - 1
    BY <1>3
  <2>4. k >= CIRC_CNT => (written + (k - CIRC_CNT)) % SeqMod = (due + k) % SeqMod
    BY <1>3, <1>5, <2>3, SeenFrom
  <2> HIDE DEF s
  <2>5. buf'[s] = IF (s - head) % SIZE < n
                  THEN (written + ((s - head) % SIZE)) % SeqMod ELSE buf[s]
    BY <1>1, <2>1
  <2>6. CASE k >= CIRC_CNT
    <3>1. (s - head) % SIZE = k - CIRC_CNT /\ k - CIRC_CNT < n
      BY <1>2, <1>4, <1>8, <2>2, <2>6
    <3>2. buf'[s] = (written + (k - CIRC_CNT)) % SeqMod
      BY <2>5, <3>1
    <3> QED BY <1>1, <2>4, <2>6, <3>2 DEF s
  <2>7. CASE k < CIRC_CNT
    <3>1. ~((s - head) % SIZE < n)
      BY <1>2, <1>3, <1>4, <2>2, <2>7
    <3>2. buf'[s] = buf[s]
      BY <2>5, <3>1
    <3>3. buf[s] = (due + k) % SeqMod
      BY <1>5, <2>7 DEF s
    <3> QED BY <1>1, <3>2, <3>3 DEF s
  <2> QED BY <1>4, <2>6, <2>7
<1> QED BY <1>6, <1>7, <1>8 DEF RingInOrder

LEMMA RingStep ==
  ASSUME TypeOK, NoRoomInv, RingInv, [Next]_vars
  PROVE  RingInv'
<1>1. RingInOrder /\ (~open => head = tail)
  BY DEF RingInv
<1>2. CASE stm32_usart_isr
  <2>1. Transmit(txeie) /\ txeie \in BOOLEAN /\ UNCHANGED <<head, written>> /\ open /\ open' = open
    BY <1>2 DEF stm32_usart_isr, TypeOK
  <2> QED BY <1>1, <2>1, RingRead DEF RingInv
<1>3. CASE WriteStart \/ Start \/ (Xchar /\ task.at = "xchar")
  <2>1. (start_tx \/ uart_start) /\ UNCHANGED <<head, written, open>>
    BY <1>3 DEF WriteStart, Start, Xchar
  <2> QED BY <1>1, <2>1, RingStart DEF RingInv
<1>4. CASE WriteCopy
  <2>1. open /\ open' = open
    BY <1>4 DEF WriteCopy, NoRoomInv
  <2> QED BY <1>1, <1>4, <2>1, RingWrite DEF RingInv
<1>5. CASE Startup
  <2>1. head' = 0 /\ tail' = 0 /\ written' = written /\ due' = due /\ head = tail
    BY <1>1, <1>5 DEF Startup
  <2>2. SIZE \in Nat /\ head \in 0 .. SIZE - 1 /\ tail \in 0 .. SIZE - 1 /\ head - tail = 0
    BY <2>1, RingTypes
  <2>3. CIRC_CNT = 0
    BY <2>1, <2>2, Ahead DEF CIRC_CNT
  <2>4. (written' - due') % SeqMod = 0
    BY <1>1, <2>1, <2>3 DEF RingInOrder
  <2> QED BY <2>1, <2>4, RingCleared DEF RingInv
<1>6. CASE Shutdown \/ Hangup \/ Flush
  <2>1. head' = 0 /\ tail' = 0 /\ written' = written /\ due' = written
    BY <1>6 DEF Shutdown, Hangup, uart_shutdown, Flush
  <2>2. (written - written) % SeqMod = 0
    BY RingTypes, Ahead
  <2>3. (written' - due') % SeqMod = 0
    BY <2>1, <2>2
  <2> QED BY <2>1, <2>3, RingCleared DEF RingInv
<1>7. CASE \/ Shift \/ Tasklet \/ Stop \/ TermiosWrite \/ (\E n \in 1 .. MaxWrite : WriteBegin(n))
           \/ (Xchar /\ task.at # "xchar") \/ StopTty \/ StartTty \/ Throttle \/ Unthrottle
           \/ TermiosRead \/ ConsoleWrite \/ UNCHANGED vars
  <2>1. UNCHANGED <<open, head, tail, buf, written, due>>
    BY <1>7 DEF Shift, Tasklet, Stop, TermiosWrite, WriteBegin, Xchar, StopTty, StartTty, Throttle,
                Unthrottle, TermiosRead, ConsoleWrite, vars
  <2> QED BY <1>1, <2>1, RingKept DEF RingInv
<1> QED
  BY <1>2, <1>3, <1>4, <1>5, <1>6, <1>7 DEF Next, CallStep, TxEmptyIrq, IdleIrq

-----------------------------------------------------------------------------
LEMMA InitIInv == Init => IInv
<1> SUFFICES ASSUME Init PROVE IInv
  OBVIOUS
<1>1. 0 \in Slots /\ 0 \in Chars /\ 0 \in 0 .. MaxWrite
  BY SizeAssumption, SeqAssumption, WriteAssumption DEF Slots, Chars
<1>2. TypeOK
  BY <1>1 DEF Init, TypeOK, Idle, NoWriter, NoChars
<1>3. RingInv
  <2>1. SIZE \in Nat /\ SeqMod \in Nat /\ 0 \in 0 .. SIZE - 1 /\ 0 \in 0 .. SeqMod - 1
    BY SizeAssumption, SeqAssumption
  <2>2. (0 - 0) % SIZE = 0 /\ (0 - 0) % SeqMod = 0
    BY <2>1, Ahead
  <2>3. CIRC_CNT = 0 /\ (written - due) % SeqMod = 0
    BY <2>2 DEF Init, CIRC_CNT
  <2> QED BY <2>1, <2>3 DEF Init, RingInv, RingInOrder
<1> QED
  BY <1>2, <1>3 DEF Init, IInv, TxArmed, CallKeeps, FlowInv, Wanted, NoRoomInv, SleeperWoken, Idle,
              NoWriter

LEMMA StepIInv == IInv /\ [Next]_vars => IInv'
  BY TypeStep, ArmedStep, FlowStep, RoomStep, RingStep DEF IInv

(* The conjunction of the safety invariants is inductive.                   *)
THEOREM Invariance == Spec => []IInv
  BY InitIInv, StepIInv, PTL DEF Spec

(* Indices stay in the ring and a write never copies more than it has, for  *)
(* every size of the ring.                                                  *)
THEOREM TypeCorrect == Spec => []TypeOK
<1>1. IInv => TypeOK
  BY DEF IInv
<1> QED BY <1>1, Invariance, PTL

(* Characters never wait in a running tty with the transmit interrupt off,  *)
(* although set_termios writes back a CR1 that the handler has changed.     *)
THEOREM InterruptArmed == Spec => []TxArmed
<1>1. IInv => TxArmed
  BY DEF IInv
<1> QED BY <1>1, Invariance, PTL

(* A writer never sleeps without a wake-up to come.                         *)
THEOREM WriterWoken == Spec => []SleeperWoken
<1>1. IInv => SleeperWoken
  BY DEF IInv
<1> QED BY <1>1, Invariance, PTL

(* Between the calls of a session the other side is stopped by an XOFF of   *)
(* that session exactly while the tty is throttled: the unlocked test of    *)
(* x_char in uart_unthrottle() is harmless with this driver, which sends    *)
(* x_char before start_tx() returns. A session may end by uart_close() or a *)
(* hangup while the tty is throttled; its XOFF is then no longer counted.   *)
THEOREM FlowControlAgrees == Spec => []FlowAgrees
<1>1. IInv => FlowAgrees
  BY DEF IInv, FlowInv, Wanted, FlowAgrees, TypeOK
<1> QED BY <1>1, Invariance, PTL

(* The ring holds exactly the characters the wire has not seen, in order:   *)
(* uart_write(), in its two turns, the handler and uart_flush_buffer() lose *)
(* none, repeat none and overwrite none, for every size of the ring.        *)
THEOREM RingHoldsTheRest == Spec => []RingInOrder
<1>1. IInv => RingInOrder
  BY DEF IInv, RingInv
<1> QED BY <1>1, Invariance, PTL
=============================================================================
