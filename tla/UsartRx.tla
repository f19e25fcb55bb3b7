------------------------------- MODULE UsartRx -------------------------------
(***************************************************************************)
(* Reception in the STM32 USART driver (drivers/serial/stm32_usart.c): a   *)
(* DMA stream writes characters into two buffers in turn, without end; the *)
(* driver follows it. stm32_receive() is run by two interrupts, the        *)
(* stream's half/full interrupt and the USART's idle-line interrupt; both  *)
(* run with interrupts off and do not nest, but the line and the DMA go on *)
(* while they run. Each read of a register is therefore a step of its own. *)
(*                                                                         *)
(* A character is its number in the stream, modulo SeqMod.                 *)
(***************************************************************************)
EXTENDS Integers

CONSTANTS
  BUF_LEN,      \* STM32_DMA_RX_BUF_LEN
  SeqMod,       \* bound: characters are numbered modulo SeqMod
  MaxDuring     \* bound: characters the stream takes while one handler runs

ASSUME BufAssumption == BUF_LEN \in Nat \ {0} /\ BUF_LEN % 2 = 0
ASSUME SeqAssumption == SeqMod \in Nat /\ SeqMod >= 2 * BUF_LEN
ASSUME DuringAssumption == MaxDuring \in Nat

VARIABLES
  phase,   \* "closed", "open", or "stopped" (the stream is off, close goes on)
  w,       \* priv->wbuf, wpos: the writer as last seen
  r,       \* priv->rbuf, rpos: the reader
  rxb,     \* the two buffers
  dma,     \* the stream: CR.CT and LEN - NDTR
  flags,   \* pending HT and TC flags of the stream
  line,    \* the receiver: data register, idle flag, did anything arrive
           \* since the last idle, number of the next character
  tty,     \* number of the next character the tty should be given
  isr      \* the running interrupt handler: its pc, origin and locals

vars == <<phase, w, r, rxb, dma, flags, line, tty, isr>>

Bufs == 0 .. 1
Seq  == 0 .. SeqMod - 1
NONE == -1

TypeOK ==
  /\ phase \in {"closed", "open", "stopped"}
  /\ w \in [buf : Bufs, pos : 0 .. BUF_LEN]
  /\ r \in [buf : Bufs, pos : 0 .. BUF_LEN]
  /\ rxb \in [Bufs -> [0 .. BUF_LEN - 1 -> Seq]]
  /\ dma \in [ct : Bufs, pos : 0 .. BUF_LEN - 1]
  /\ flags \subseteq {"HT", "TC"}
  /\ line \in [rdr : Seq \cup {NONE}, idle : BOOLEAN, busy : BOOLEAN, seq : Seq]
  /\ tty \in Seq
  /\ isr \in [pc : {"off", "ct", "ndtr", "ct2", "ndtr2", "fetch", "ack", "idle_clear"},
              from : {"dma", "usart"}, buf : Bufs, pos : 0 .. BUF_LEN, wrap : BOOLEAN,
              n : 0 .. MaxDuring]

IsrOff == [pc |-> "off", from |-> "dma", buf |-> 0, pos |-> 0, wrap |-> FALSE, n |-> 0]

Init ==
  /\ phase = "closed"
  /\ w = [buf |-> 0, pos |-> 0]
  /\ r = [buf |-> 0, pos |-> 0]
  /\ rxb = [b \in Bufs |-> [p \in 0 .. BUF_LEN - 1 |-> 0]]
  /\ dma = [ct |-> 0, pos |-> 0]
  /\ flags = {}
  /\ line = [rdr |-> NONE, idle |-> FALSE, busy |-> FALSE, seq |-> 0]
  /\ tty = 0
  /\ isr = IsrOff

-----------------------------------------------------------------------------
(* Opening and closing the port.                                            *)

\* Mutant: the offsets are left as they were.
StartupKeepsOffsets ==
  /\ phase = "closed"
  /\ phase' = "open"
  /\ dma' = [ct |-> 0, pos |-> 0]
  /\ line' = [rdr |-> NONE, idle |-> FALSE, busy |-> FALSE, seq |-> 0]
  /\ tty' = 0
  /\ UNCHANGED <<w, r, rxb, flags, isr>>

\* stm_port_startup(): offsets cleared, the stream restarted at buffer 0. The
\* stream's flags are not cleared.
Startup ==
  /\ phase = "closed"
  /\ phase' = "open"
  /\ w' = [buf |-> 0, pos |-> 0]
  /\ r' = [buf |-> 0, pos |-> 0]
  /\ dma' = [ct |-> 0, pos |-> 0]
  /\ line' = [rdr |-> NONE, idle |-> FALSE, busy |-> FALSE, seq |-> 0]
  /\ tty' = 0
  /\ UNCHANGED <<rxb, flags, isr>>

\* No memory for the buffers, or an interrupt that cannot be requested.
StartupFails ==
  /\ phase = "closed"
  /\ w' = [buf |-> 0, pos |-> 0]
  /\ r' = [buf |-> 0, pos |-> 0]
  /\ UNCHANGED <<phase, rxb, dma, flags, line, tty, isr>>

\* The stream is switched off: by stm_port_stop_rx() on close, by the first lines
\* of stm_port_shutdown() on hangup. The hardware says so with a last TC.
StopRx ==
  /\ phase = "open" /\ isr.pc = "off"
  /\ phase' = "stopped"
  /\ line' = [line EXCEPT !.rdr = NONE]
  /\ flags' = flags \cup {"TC"}
  /\ UNCHANGED <<w, r, rxb, dma, tty, isr>>

\* The rest of stm_port_shutdown(), in process context with interrupts on: what
\* is pending is served before the handlers are freed.
Shutdown ==
  /\ phase = "stopped" /\ isr.pc = "off" /\ flags = {}
  /\ phase' = "closed"
  /\ line' = [line EXCEPT !.idle = FALSE]
  /\ UNCHANGED <<w, r, rxb, dma, flags, tty, isr>>

-----------------------------------------------------------------------------
(* The line and the DMA (external).                                         *)

\* A character arrives. A character nobody has taken is not overwritten here:
\* overruns are outside this model.
CharArrives ==
  /\ phase = "open" /\ line.rdr = NONE
  /\ line' = [line EXCEPT !.rdr = line.seq, !.busy = TRUE, !.seq = (@ + 1) % SeqMod]
  /\ UNCHANGED <<phase, w, r, rxb, dma, flags, tty, isr>>

\* The line has been silent for a frame after the last character.
LineIdle ==
  /\ phase = "open" /\ line.busy /\ line.rdr = NONE
  /\ line' = [line EXCEPT !.idle = TRUE, !.busy = FALSE]
  /\ UNCHANGED <<phase, w, r, rxb, dma, flags, tty, isr>>

\* The driver's own assumption ("assume DMA is still ahead the reader"): the
\* stream does not come back to the buffer the driver last saw it in before the
\* driver has seen it in the other.
NotLapped ==
  dma.ct = w.buf \/ dma.pos < BUF_LEN - 1

\* The stream takes the character: next cell, next buffer, flags.
DmaWrite ==
  LET last == dma.pos = BUF_LEN - 1
  IN  /\ phase = "open" /\ line.rdr # NONE /\ NotLapped
      /\ isr.pc # "off" => isr.n < MaxDuring
      /\ rxb' = [rxb EXCEPT ![dma.ct][dma.pos] = line.rdr]
      /\ line' = [line EXCEPT !.rdr = NONE]
      /\ dma' = IF last THEN [ct |-> 1 - dma.ct, pos |-> 0]
                        ELSE [dma EXCEPT !.pos = @ + 1]
      /\ flags' = flags \cup (IF last THEN {"TC"} ELSE {})
                        \cup (IF dma.pos + 1 = BUF_LEN \div 2 THEN {"HT"} ELSE {})
      /\ isr' = IF isr.pc = "off" THEN isr ELSE [isr EXCEPT !.n = @ + 1]
      /\ UNCHANGED <<phase, w, r, tty>>

-----------------------------------------------------------------------------
(* The two interrupt handlers and stm32_receive().                          *)

DmaIsr ==
  /\ phase # "closed" /\ isr.pc = "off" /\ flags # {}
  /\ isr' = [IsrOff EXCEPT !.pc = "ct", !.from = "dma"]
  /\ UNCHANGED <<phase, w, r, rxb, dma, flags, line, tty>>

\* On an idle line the handler reads the data register first. A character the
\* stream has not yet taken would be gone; the stream takes one within a few
\* cycles, and this model assumes that it has.
UsartIsr ==
  /\ phase # "closed" /\ isr.pc = "off" /\ line.idle /\ line.rdr = NONE
  /\ isr' = [IsrOff EXCEPT !.pc = "ct", !.from = "usart"]
  /\ UNCHANGED <<phase, w, r, rxb, dma, flags, line, tty>>

ReadCt ==
  /\ isr.pc = "ct"
  /\ isr' = [isr EXCEPT !.pc = "ndtr", !.buf = dma.ct]
  /\ UNCHANGED <<phase, w, r, rxb, dma, flags, line, tty>>

\* The position: STM32_DMA_RX_BUF_LEN - NDTR.
ReadNdtr ==
  /\ isr.pc = "ndtr"
  /\ isr' = [isr EXCEPT !.pc = "ct2", !.pos = dma.pos]
  /\ UNCHANGED <<phase, w, r, rxb, dma, flags, line, tty>>

ReadCt2 ==
  /\ isr.pc = "ct2"
  /\ isr' = [isr EXCEPT !.pc = IF dma.ct = isr.buf THEN "fetch" ELSE "ndtr2",
                        !.buf = dma.ct]
  /\ UNCHANGED <<phase, w, r, rxb, dma, flags, line, tty>>

ReadNdtr2 ==
  /\ isr.pc = "ndtr2"
  /\ isr' = [isr EXCEPT !.pc = "fetch", !.pos = dma.pos]
  /\ UNCHANGED <<phase, w, r, rxb, dma, flags, line, tty>>

\* Mutant: the reader stays in its buffer when the writer changes.
FetchKeepsReadBuf ==
  LET switched == isr.buf # w.buf
      done     == switched /\ r.pos = BUF_LEN
      rest     == switched /\ r.pos # BUF_LEN
      from     == IF done THEN 0 ELSE r.pos
      to       == IF rest THEN BUF_LEN ELSE isr.pos
  IN  /\ isr.pc = "fetch"
      /\ w' = [buf |-> IF done THEN isr.buf ELSE w.buf, pos |-> to]
      /\ r' = [buf |-> r.buf, pos |-> IF from < to THEN to ELSE from]
      /\ tty' = IF from < to THEN (tty + to - from) % SeqMod ELSE tty
      /\ isr' = [isr EXCEPT !.pc = "ack", !.wrap = rest]
      /\ UNCHANGED <<phase, rxb, dma, flags, line>>

\* Mutant: what is left in the old buffer is passed over.
FetchDropsRest ==
  LET switched == isr.buf # w.buf
      done     == switched
      rest     == FALSE
      from     == IF done THEN 0 ELSE r.pos
      to       == IF rest THEN BUF_LEN ELSE isr.pos
  IN  /\ isr.pc = "fetch"
      /\ w' = [buf |-> IF done THEN isr.buf ELSE w.buf, pos |-> to]
      /\ r' = [buf |-> IF done THEN isr.buf ELSE r.buf, pos |-> IF from < to THEN to ELSE from]
      /\ tty' = IF from < to THEN (tty + to - from) % SeqMod ELSE tty
      /\ isr' = [isr EXCEPT !.pc = "ack", !.wrap = rest]
      /\ UNCHANGED <<phase, rxb, dma, flags, line>>

\* Update the writer, and hand all characters up to it to the tty. When the
\* stream has changed the buffer, what is left in the old one comes first, and
\* the new one only when this handler runs again ("wrap").
Fetch ==
  LET switched == isr.buf # w.buf
      done     == switched /\ r.pos = BUF_LEN
      rest     == switched /\ r.pos # BUF_LEN
      from     == IF done THEN 0 ELSE r.pos
      to       == IF rest THEN BUF_LEN ELSE isr.pos
  IN  /\ isr.pc = "fetch"
      /\ w' = [buf |-> IF done THEN isr.buf ELSE w.buf, pos |-> to]
      /\ r' = [buf |-> IF done THEN isr.buf ELSE r.buf, pos |-> IF from < to THEN to ELSE from]
      /\ tty' = IF from < to THEN (tty + to - from) % SeqMod ELSE tty
      /\ isr' = [isr EXCEPT !.pc = "ack", !.wrap = rest]
      /\ UNCHANGED <<phase, rxb, dma, flags, line>>

\* Mutant: the interrupt is acknowledged in any case.
AckAlways ==
  /\ isr.pc = "ack"
  /\ flags' = {}
  /\ isr' = IF isr.from = "usart" THEN [isr EXCEPT !.pc = "idle_clear"] ELSE IsrOff
  /\ UNCHANGED <<phase, w, r, rxb, dma, line, tty>>

\* Unless there is more to read in the new buffer, acknowledge the stream.
Ack ==
  /\ isr.pc = "ack"
  /\ flags' = IF isr.wrap THEN flags ELSE {}
  /\ isr' = IF isr.from = "usart" THEN [isr EXCEPT !.pc = "idle_clear"] ELSE IsrOff
  /\ UNCHANGED <<phase, w, r, rxb, dma, line, tty>>

\* The idle flag is cleared when all is done; stm32_transmit() follows and does
\* not touch reception.
IdleClear ==
  /\ isr.pc = "idle_clear"
  /\ line' = [line EXCEPT !.idle = FALSE]
  /\ isr' = IsrOff
  /\ UNCHANGED <<phase, w, r, rxb, dma, flags, tty>>

Receive == ReadCt \/ ReadNdtr \/ ReadCt2 \/ ReadNdtr2 \/ Fetch \/ Ack \/ IdleClear

Next ==
  \/ Startup \/ StartupFails \/ StopRx \/ Shutdown
  \/ CharArrives \/ LineIdle \/ DmaWrite
  \/ DmaIsr \/ UsartIsr \/ Receive

Spec == Init /\ [][Next]_vars

\* A pending interrupt is served and the handler runs to its end.
FairSpec == Spec /\ WF_vars(DmaIsr \/ UsartIsr \/ Receive) /\ WF_vars(DmaWrite)

\* ... and the line stays alive: characters keep coming.
BusySpec == FairSpec /\ WF_vars(CharArrives)

-----------------------------------------------------------------------------
\* The characters stm32_receive() is about to hand over.
FetchFrom == IF isr.buf # w.buf /\ r.pos = BUF_LEN THEN 0 ELSE r.pos
FetchTo   == IF isr.buf # w.buf /\ r.pos # BUF_LEN THEN BUF_LEN ELSE isr.pos
FetchBuf  == IF isr.buf # w.buf /\ r.pos = BUF_LEN THEN isr.buf ELSE r.buf

\* The tty is given every character once and in order, across buffer changes
\* that happen between any two register reads of stm32_receive().
InOrder ==
  isr.pc = "fetch" =>
    \A p \in FetchFrom .. FetchTo - 1 :
      rxb[FetchBuf][p] = (tty + p - FetchFrom) % SeqMod

\* The reader never gets ahead of the stream: the characters not yet handed over
\* are those between the reader and the stream.
Unread ==
  (IF dma.ct = r.buf THEN dma.pos - r.pos ELSE BUF_LEN - r.pos + dma.pos)

ReaderBehind ==
  phase # "closed" => Unread >= 0

\* Every character that has arrived is in the data register, in the buffers
\* between the reader and the stream, or with the tty.
NoCharMissed ==
  phase = "open" =>
    line.seq = (tty + Unread + (IF line.rdr = NONE THEN 0 ELSE 1)) % SeqMod

\* Once the stream is off and no interrupt of it is pending, the tty has all it
\* wrote: nothing is left behind when the handlers are freed, a buffer change in
\* the last moment included.
StoppedDrained ==
  phase = "stopped" /\ isr.pc = "off" /\ flags = {} => Unread = 0

\* A character in the buffers is handed to the tty as long as more characters
\* follow and no handler is delayed by more than one character's time: a half
\* or full interrupt that was acknowledged unseen is made up for by the next one.
\* At 115200 baud a character lasts 87 microseconds, a handler far less.
Delivered ==
  \A n \in Seq :
    [](isr.n <= 1) =>
      ((phase = "open" /\ tty = n /\ Unread > 0) ~> (tty # n \/ phase # "open"))
=============================================================================
