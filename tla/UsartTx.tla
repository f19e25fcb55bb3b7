------------------------------- MODULE UsartTx -------------------------------
(***************************************************************************)
(* Transmission in the STM32 USART driver (drivers/serial/stm32_usart.c)   *)
(* under the serial core: a ring of characters, the transmit-empty         *)
(* interrupt that empties it, and the calls that fill, stop, start and     *)
(* flush it, send XON/XOFF, change CR1 and write to the console.           *)
(*                                                                         *)
(* The kernel runs on one processor and does not preempt: a call of a task *)
(* is interrupted only by the handler, and only where interrupts are on.   *)
(* task is where the running call is interrupted; a part of it that runs   *)
(* with interrupts off is one step, busy-waiting for TXE included.         *)
(*                                                                         *)
(* A character is its number in the stream of written ones, modulo SeqMod. *)
(***************************************************************************)
EXTENDS Integers

CONSTANTS
  SIZE,          \* UART_XMIT_SIZE
  WAKEUP_CHARS,
  SeqMod,        \* bound: characters are numbered modulo SeqMod
  MaxWrite       \* bound: characters in one write()

ASSUME SizeAssumption == SIZE \in Nat /\ SIZE > 1
ASSUME WakeAssumption == WAKEUP_CHARS \in 1 .. SIZE - 1
ASSUME SeqAssumption  == SeqMod \in Nat /\ SeqMod >= SIZE
ASSUME WriteAssumption == MaxWrite \in Nat

VARIABLES
  open,
  txeie,     \* CR1.TXEIE
  txe,       \* ISR.TXE: the data register can take a character
  x_char,    \* port->x_char
  head, tail, buf,   \* state->xmit
  stopped,   \* tty->stopped
  tlet,      \* the wake-up tasklet is scheduled
  task,      \* the running call, and what it saw: CR1.TXEIE, or no room
  writer,    \* n_tty_write(): its state, the characters left, and was it woken
  throttled, \* TTY_THROTTLED
  flow,      \* the last XON or XOFF sent, or "stale": an XOFF of an earlier session
  written,   \* number of the next character to be written
  due        \* number of the next character the wire should see

vars == <<open, txeie, txe, x_char, head, tail, buf, stopped, tlet, task, writer, throttled,
          flow, written, due>>

Slots == 0 .. SIZE - 1
Chars == 0 .. SeqMod - 1

TypeOK ==
  /\ open \in BOOLEAN /\ txeie \in BOOLEAN /\ txe \in BOOLEAN
  /\ x_char \in {"none", "XON", "XOFF"}
  /\ head \in Slots /\ tail \in Slots /\ buf \in [Slots -> Chars]
  /\ stopped \in BOOLEAN /\ tlet \in BOOLEAN
  /\ task \in [at : {"idle", "write_start", "stop", "start", "xchar", "xclear", "termios"},
               saw : BOOLEAN]
  /\ writer \in [state : {"none", "run", "sleep"}, left : 0 .. MaxWrite, woken : BOOLEAN]
  /\ throttled \in BOOLEAN /\ flow \in {"XON", "XOFF", "stale"}
  /\ written \in Chars /\ due \in Chars

Idle == [at |-> "idle", saw |-> FALSE]
At(where) == [at |-> where, saw |-> FALSE]
NoChars == [s \in Slots |-> 0]   \* slots outside the ring are cleared: nobody reads them
NoWriter == [state |-> "none", left |-> 0, woken |-> FALSE]

Init ==
  /\ open = FALSE /\ txeie = FALSE /\ txe = TRUE /\ x_char = "none"
  /\ head = 0 /\ tail = 0 /\ buf = NoChars
  /\ stopped = FALSE /\ tlet = FALSE /\ task = Idle /\ writer = NoWriter
  /\ throttled = FALSE /\ flow = "XON" /\ written = 0 /\ due = 0

-----------------------------------------------------------------------------
(* The ring (include/linux/circ_buf.h).                                     *)

CIRC_CNT == (head - tail) % SIZE

\* Mutant: the reader's place is forgotten.
SpaceToEnd(h) == SIZE - h

CIRC_SPACE_TO_END(h) ==
  LET end == SIZE - 1 - h
      n   == (end + tail) % SIZE
  IN  IF n <= end THEN n ELSE end + 1

-----------------------------------------------------------------------------
(* The driver.                                                              *)

\* Mutant: no mask.
NextSlotUnmasked(s) == s + 1

NextSlot(s) == (s + 1) % SIZE

\* Mutant: the comparison turned round.
LowWaterSwapped(cnt) == cnt > WAKEUP_CHARS

\* Time to wake the writer.
LowWater(cnt) == cnt < WAKEUP_CHARS

\* stm32_transmit(), with TXEIE = eie before it: x_char, else a character of the ring;
\* with nothing to send stm_port_stop_tx().
Transmit(eie) ==
  IF x_char # "none"
  THEN /\ txe /\ txe' = FALSE
       /\ flow' = x_char /\ x_char' = "none"
       /\ txeie' = eie
       /\ UNCHANGED <<tail, buf, due, tlet>>
  ELSE IF head = tail \/ stopped
  THEN /\ txeie' = FALSE
       /\ UNCHANGED <<txe, x_char, flow, tail, buf, due, tlet>>
  ELSE /\ txe /\ txe' = FALSE
       /\ tail' = NextSlot(tail)
       /\ buf' = [buf EXCEPT ![tail] = 0]
       /\ due' = (buf[tail] + 1) % SeqMod
       /\ tlet' = (tlet \/ LowWater((head - tail') % SIZE))
       /\ txeie' = eie
       /\ UNCHANGED <<x_char, flow>>

\* The handler, for an empty data register or for an idle line.
stm32_usart_isr ==
  /\ open
  /\ Transmit(txeie)
  /\ UNCHANGED <<open, head, stopped, task, writer, throttled, written>>

TxEmptyIrq == txeie /\ txe /\ stm32_usart_isr

IdleIrq == ~(txeie /\ txe) /\ stm32_usart_isr

\* Mutant: the first character is left to the handler.
start_tx_deferred ==
  /\ txeie' = TRUE
  /\ UNCHANGED <<txe, x_char, flow, tail, buf, due, tlet>>

\* stm_port_start_tx().
start_tx == Transmit(TRUE)

\* Mutant: the test for an empty ring turned round.
uart_start_inverted ==
  IF head = tail /\ ~stopped THEN start_tx
  ELSE UNCHANGED <<txe, txeie, x_char, flow, tail, buf, due, tlet>>

\* __uart_start().
uart_start ==
  IF head # tail /\ ~stopped THEN start_tx
  ELSE UNCHANGED <<txe, txeie, x_char, flow, tail, buf, due, tlet>>

\* The data register's character goes to the line.
Shift ==
  /\ ~txe /\ txe' = TRUE
  /\ UNCHANGED <<open, txeie, x_char, head, tail, buf, stopped, tlet, task, writer, throttled,
                 flow, due, written>>

-----------------------------------------------------------------------------
(* The calls of the serial core. Tasklet and other tasks run between them.  *)

\* tty_wakeup(): a sleeping writer begins its loop again, one that is about to sleep
\* will not.
Woken == [writer EXCEPT !.woken = (writer.state = "run"),
                        !.state = IF @ = "sleep" THEN "run" ELSE @]

\* uart_startup(), and the driver's start-up with TXEIE set.
Startup ==
  /\ ~open /\ task.at = "idle"
  /\ open' = TRUE /\ txeie' = TRUE
  /\ head' = 0 /\ tail' = 0
  /\ UNCHANGED <<txe, x_char, buf, stopped, tlet, task, writer, throttled, flow, due, written>>

\* TTY_THROTTLED is cleared without an XON: what the other side still obeys is an
\* XOFF of a session that is over.
Abandoned == IF throttled /\ flow = "XOFF" THEN "stale" ELSE flow

\* The port is disabled, the tasklet killed and the transmit page freed; what is left
\* in the ring is lost.
uart_shutdown ==
  /\ open' = FALSE /\ txe' = TRUE /\ tlet' = FALSE
  /\ head' = 0 /\ tail' = 0 /\ buf' = NoChars /\ due' = written

\* The last close, after the time allowed for draining the ring. A throttled tty is
\* unthrottled only after the shutdown, by tty_ldisc_flush(): start_tx() writes the
\* XON into the data register of a transmitter that is off, and leaves TXEIE on.
Shutdown ==
  /\ open /\ task.at = "idle" /\ writer = NoWriter
  /\ uart_shutdown
  /\ stopped' = FALSE
  /\ txeie' = (throttled /\ x_char = "none")
  /\ x_char' = IF throttled THEN "none" ELSE x_char
  /\ throttled' = FALSE /\ flow' = Abandoned
  /\ UNCHANGED <<task, writer, written>>

\* do_tty_hangup() from where it clears TTY_THROTTLED: its tty_ldisc_hangup() has
\* unthrottled the tty (Unthrottle), and input may have throttled it again. A writer
\* leaves with -EIO; the tty may stay stopped, for a task that has it open.
Hangup ==
  /\ open /\ task.at = "idle"
  /\ uart_shutdown
  /\ txeie' = FALSE /\ stopped' \in {stopped, FALSE}
  /\ writer' = NoWriter /\ throttled' = FALSE /\ flow' = Abandoned
  /\ UNCHANGED <<x_char, task, written>>

\* write() of n characters.
WriteBegin(n) ==
  /\ open /\ task.at = "idle" /\ writer.state = "none"
  /\ writer' = [state |-> "run", left |-> n, woken |-> FALSE]
  /\ UNCHANGED <<open, txeie, txe, x_char, head, tail, buf, stopped, tlet, task, throttled, flow,
                 due, written>>

Least(a, b) == IF a <= b THEN a ELSE b

\* What uart_write() copies: up to the end of the page, then from its beginning.
Copied(count) ==
  LET c == Least(count, CIRC_SPACE_TO_END(head))
  IN  c + Least(count - c, CIRC_SPACE_TO_END((head + c) % SIZE))

\* The locked part of uart_write(). The characters continue the stream.
WriteCopy ==
  LET n == Copied(writer.left)
  IN  /\ task.at = "idle" /\ writer.state = "run"
      /\ buf' = [s \in Slots |-> IF (s - head) % SIZE < n
                                 THEN (written + ((s - head) % SIZE)) % SeqMod ELSE buf[s]]
      /\ head' = (head + n) % SIZE
      /\ writer' = [writer EXCEPT !.left = @ - n]
      /\ written' = (written + n) % SeqMod
      /\ task' = [at |-> "write_start", saw |-> n = 0]
      /\ UNCHANGED <<open, txeie, txe, x_char, tail, stopped, tlet, throttled, flow, due>>

\* Its uart_start(); back in n_tty_write(), the writer leaves, writes on, or sleeps
\* unless it was woken after it had said that it would.
WriteStart ==
  /\ task.at = "write_start"
  /\ uart_start
  /\ task' = Idle
  /\ writer' = IF writer.left = 0 THEN NoWriter
               ELSE IF ~task.saw THEN writer
               ELSE IF writer.woken THEN [writer EXCEPT !.woken = FALSE]
               ELSE [writer EXCEPT !.state = "sleep"]
  /\ UNCHANGED <<open, head, stopped, throttled, written>>

\* The wake-up tasklet.
Tasklet ==
  /\ tlet /\ tlet' = FALSE
  /\ writer' = Woken
  /\ UNCHANGED <<open, txeie, txe, x_char, head, tail, buf, stopped, task, throttled, flow, due, written>>

\* stop_tty(), then uart_stop().
StopTty ==
  /\ open /\ task.at = "idle" /\ ~stopped
  /\ stopped' = TRUE /\ task' = At("stop")
  /\ UNCHANGED <<open, txeie, txe, x_char, head, tail, buf, tlet, writer, throttled, flow, due, written>>

Stop ==
  /\ task.at = "stop"
  /\ txeie' = FALSE /\ task' = Idle
  /\ UNCHANGED <<open, txe, x_char, head, tail, buf, stopped, tlet, writer, throttled, flow, due, written>>

\* start_tty(), then uart_start() and tty_wakeup().
StartTty ==
  /\ open /\ task.at = "idle" /\ stopped
  /\ stopped' = FALSE /\ task' = At("start")
  /\ UNCHANGED <<open, txeie, txe, x_char, head, tail, buf, tlet, writer, throttled, flow, due, written>>

Start ==
  /\ task.at = "start"
  /\ uart_start
  /\ task' = Idle /\ writer' = Woken
  /\ UNCHANGED <<open, head, stopped, throttled, written>>

\* uart_flush_buffer().
Flush ==
  /\ open /\ task.at = "idle"
  /\ head' = 0 /\ tail' = 0 /\ buf' = NoChars /\ due' = written
  /\ writer' = Woken
  /\ UNCHANGED <<open, txeie, txe, x_char, stopped, tlet, task, throttled, flow, written>>

\* tty_throttle() and uart_throttle() with IXOFF.
Throttle ==
  /\ open /\ task.at = "idle" /\ ~throttled
  /\ throttled' = TRUE /\ x_char' = "XOFF" /\ task' = At("xchar")
  /\ UNCHANGED <<open, txeie, txe, head, tail, buf, stopped, tlet, writer, flow, due, written>>

\* uart_unthrottle(): an unsent x_char is taken back in a second step.
Unthrottle ==
  /\ open /\ task.at = "idle" /\ throttled
  /\ throttled' = FALSE
  /\ IF x_char # "none"
     THEN task' = At("xclear") /\ UNCHANGED x_char
     ELSE task' = At("xchar") /\ x_char' = "XON"
  /\ UNCHANGED <<open, txeie, txe, head, tail, buf, stopped, tlet, writer, flow, due, written>>

Xchar ==
  /\ task.at \in {"xchar", "xclear"}
  /\ IF task.at = "xchar" THEN start_tx
     ELSE x_char' = "none" /\ UNCHANGED <<txeie, txe, flow, tail, buf, due, tlet>>
  /\ task' = Idle
  /\ UNCHANGED <<open, head, stopped, writer, throttled, written>>

\* Mutant: CR1 is put together anew.
TermiosReadAnew ==
  /\ open /\ task.at = "idle"
  /\ task' = [at |-> "termios", saw |-> FALSE]
  /\ UNCHANGED <<open, txeie, txe, x_char, head, tail, buf, stopped, tlet, writer, throttled,
                 flow, due, written>>

\* stm_port_set_termios(): CR1 is read here and written back there.
TermiosRead ==
  /\ open /\ task.at = "idle"
  /\ task' = [at |-> "termios", saw |-> txeie]
  /\ UNCHANGED <<open, txeie, txe, x_char, head, tail, buf, stopped, tlet, writer, throttled,
                 flow, due, written>>

TermiosWrite ==
  /\ task.at = "termios"
  /\ txeie' = task.saw /\ task' = Idle
  /\ UNCHANGED <<open, txe, x_char, head, tail, buf, stopped, tlet, writer, throttled, flow, due, written>>

\* stm_console_write(), from a task or a handler: interrupts off, TXEIE saved and
\* restored, characters straight into the data register.
ConsoleWrite ==
  /\ txe /\ txe' = FALSE
  /\ UNCHANGED <<open, txeie, x_char, head, tail, buf, stopped, tlet, task, writer, throttled,
                 flow, due, written>>

-----------------------------------------------------------------------------
CallStep ==
  WriteStart \/ Stop \/ Start \/ Xchar \/ TermiosWrite

Next ==
  \/ TxEmptyIrq \/ IdleIrq \/ Shift \/ Tasklet \/ WriteCopy \/ CallStep
  \/ Startup \/ Shutdown \/ Hangup \/ (\E n \in 1 .. MaxWrite : WriteBegin(n))
  \/ StopTty \/ StartTty \/ Flush \/ Throttle \/ Unthrottle \/ TermiosRead \/ ConsoleWrite

Spec == Init /\ [][Next]_vars

\* The transmitter runs, calls go on, tasklets run, and console messages leave the
\* handler time to run.
FairSpec ==
  /\ Spec
  /\ WF_vars(Shift) /\ WF_vars(Tasklet) /\ SF_vars(WriteCopy) /\ SF_vars(CallStep) /\ SF_vars(TxEmptyIrq)

-----------------------------------------------------------------------------
\* The ring holds, without gap, repetition or overwriting, the characters that the
\* wire has not seen, however calls and handler alternate.
RingInOrder ==
  /\ CIRC_CNT = (written - due) % SeqMod
  /\ \A k \in 0 .. SIZE - 1 :
      k < CIRC_CNT => buf[(tail + k) % SIZE] = (due + k) % SeqMod

\* While characters wait and the tty is not stopped, the transmit interrupt is on or
\* the running call is about to switch it on. (set_termios writes CR1 back as it was
\* before the handler ran.)
TxArmed ==
  head # tail /\ ~stopped => txeie \/ task.at \in {"write_start", "start"}

\* A writer that sleeps for room will be woken: enough is left in the ring for the
\* mark to be passed yet, or the tasklet is on its way.
SleeperWoken ==
  writer.state = "sleep" => CIRC_CNT >= WAKEUP_CHARS \/ tlet

\* Between the calls of a session the other side was sent what the tty wants: it is
\* stopped by an XOFF of this session exactly while the tty is throttled, and
\* unthrottle() never takes back an XOFF that the handler has already sent. (An XOFF
\* that a close or a hangup leaves behind stays in force until a later session has
\* throttled and unthrottled the tty.)
FlowAgrees ==
  task.at = "idle" /\ x_char = "none" => (flow = "XOFF" <=> throttled)

\* A write ends unless the tty is stopped, whoever stops, starts, flushes and throttles
\* it meanwhile.
WriteEnds == (writer.state # "none") ~> (writer.state = "none" \/ stopped)
=============================================================================
