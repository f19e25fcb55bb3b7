---------------------------- MODULE UsartRxProofs ----------------------------
(***************************************************************************)
(* Proofs about reception in UsartRx, for buffers of any even length and   *)
(* handlers that are delayed by any number of characters.                  *)
(***************************************************************************)
EXTENDS UsartRx, TLAPS

(* The number of the character k places behind the next one for the tty.    *)
Num(k) == (tty + k) % SeqMod

(* The same number after a step.                                            *)
NumNext(k) == (tty' + k) % SeqMod

(* Reader and last seen writer are in the same buffer, and handlers run     *)
(* only while the port is open.                                             *)
SameBuffer ==
  /\ r.buf = w.buf
  /\ phase = "closed" => isr.pc = "off"

(* The characters between the reader and the stream are consecutive, and so *)
(* are the one in the data register and the next to arrive.                 *)
CellsInv ==
  phase # "closed" =>
    /\ dma.ct = r.buf => r.pos <= dma.pos
    /\ \A p \in r.pos .. (IF dma.ct = r.buf THEN dma.pos ELSE BUF_LEN) - 1 :
         rxb[r.buf][p] = Num(p - r.pos)
    /\ dma.ct # r.buf =>
         \A p \in 0 .. dma.pos - 1 : rxb[dma.ct][p] = Num(BUF_LEN - r.pos + p)

LineInv ==
  phase = "open" =>
    /\ line.rdr # NONE => line.rdr = Num(Unread) /\ line.seq = Num(Unread + 1)
    /\ line.rdr = NONE => line.seq = Num(Unread)

(* What the registers read so far are worth: the stream changes the buffer  *)
(* at most once while a handler runs, so a position read between two equal  *)
(* buffer numbers belongs to that buffer.                                   *)
IsrInv ==
  /\ isr.pc \in {"ndtr", "ct2", "fetch"} /\ isr.buf # w.buf => dma.ct = isr.buf
  /\ isr.pc = "ndtr2" => isr.buf # w.buf /\ dma.ct = isr.buf
  /\ isr.pc \in {"ct2", "fetch"} => isr.pos < BUF_LEN /\ (isr.buf # w.buf => isr.pos <= dma.pos)
  /\ isr.pc = "ct2" /\ isr.buf = w.buf /\ dma.ct = w.buf => r.pos <= isr.pos /\ isr.pos <= dma.pos
  /\ isr.pc = "fetch" /\ isr.buf = w.buf =>
       r.pos <= isr.pos /\ (dma.ct = w.buf => isr.pos <= dma.pos)

(* After the stream was switched off the registers are exact, and it is     *)
(* acknowledged only when nothing is left.                                  *)
StoppedInv ==
  phase = "stopped" =>
    /\ isr.pc \in {"ndtr", "ct2", "ndtr2", "fetch"} => isr.buf = dma.ct
    /\ isr.pc \in {"ct2", "fetch"} => isr.pos = dma.pos
    /\ isr.pc = "ack" /\ ~isr.wrap => Unread = 0
    /\ flags = {} => Unread = 0

IInv == TypeOK /\ SameBuffer /\ CellsInv /\ LineInv /\ IsrInv /\ StoppedInv

-----------------------------------------------------------------------------
(* Numbers below twice the modulus.                                         *)

LEMMA ModSmall ==
  ASSUME NEW a \in Int, 0 <= a, a < SeqMod
  PROVE  a % SeqMod = a
  BY SeqAssumption, BufAssumption

LEMMA ModWrap ==
  ASSUME NEW a \in Int, SeqMod <= a, a < 2 * SeqMod
  PROVE  a % SeqMod = a - SeqMod
  BY SeqAssumption, BufAssumption, SMTT(30)

(* Handing over n characters and counting k on from there.                  *)
LEMMA ModShift ==
  ASSUME NEW a \in Seq, NEW n \in Nat, NEW k \in Nat, n + k <= 2 * BUF_LEN
  PROVE  /\ (a + n) % SeqMod \in Seq
         /\ (((a + n) % SeqMod) + k) % SeqMod = (a + n + k) % SeqMod
<1>1. a \in Int /\ 0 <= a /\ a < SeqMod /\ 2 * BUF_LEN <= SeqMod /\ SeqMod \in Nat /\ BUF_LEN \in Nat
  BY SeqAssumption, BufAssumption DEF Seq
<1>2. CASE a + n < SeqMod
  BY <1>1, <1>2, ModSmall DEF Seq
<1>3. CASE a + n >= SeqMod
  <2>1. (a + n) % SeqMod = a + n - SeqMod
    BY <1>1, <1>3, ModWrap
  <2>2. (a + n - SeqMod + k) % SeqMod = a + n - SeqMod + k
    BY <1>1, <1>3, ModSmall
  <2>3. (a + n + k) % SeqMod = a + n + k - SeqMod
    BY <1>1, <1>3, ModWrap
  <2> QED BY <1>1, <1>3, <2>1, <2>2, <2>3 DEF Seq
<1> QED BY <1>1, <1>2, <1>3

LEMMA UnreadRange ==
  ASSUME TypeOK, CellsInv, phase # "closed"
  PROVE  Unread \in Nat /\ Unread < 2 * BUF_LEN
<1>1. /\ r.pos \in 0 .. BUF_LEN /\ dma.pos \in 0 .. BUF_LEN - 1
      /\ dma.ct = r.buf => r.pos <= dma.pos
  BY DEF TypeOK, CellsInv
<1>2. BUF_LEN \in Nat
  BY BufAssumption
<1> QED BY <1>1, <1>2 DEF Unread

-----------------------------------------------------------------------------
(* Types.                                                                   *)

WhereT == [buf : Bufs, pos : 0 .. BUF_LEN]
DmaT   == [ct : Bufs, pos : 0 .. BUF_LEN - 1]
LineT  == [rdr : Seq \cup {NONE}, idle : BOOLEAN, busy : BOOLEAN, seq : Seq]
IsrT   == [pc : {"off", "ct", "ndtr", "ct2", "ndtr2", "fetch", "ack", "idle_clear"},
           from : {"dma", "usart"}, buf : Bufs, pos : 0 .. BUF_LEN, wrap : BOOLEAN,
           n : 0 .. MaxDuring]
CellT  == [Bufs -> [0 .. BUF_LEN - 1 -> Seq]]

LEMMA TypeParts ==
  TypeOK <=> /\ phase \in {"closed", "open", "stopped"} /\ w \in WhereT /\ r \in WhereT
             /\ rxb \in CellT /\ dma \in DmaT /\ flags \subseteq {"HT", "TC"}
             /\ line \in LineT /\ tty \in Seq /\ isr \in IsrT
  BY DEF TypeOK, WhereT, DmaT, LineT, IsrT, CellT

LEMMA TypePartsPrime ==
  ASSUME phase' \in {"closed", "open", "stopped"}, w' \in WhereT, r' \in WhereT,
         rxb' \in CellT, dma' \in DmaT, flags' \subseteq {"HT", "TC"},
         line' \in LineT, tty' \in Seq, isr' \in IsrT
  PROVE  TypeOK'
  BY DEF TypeOK, WhereT, DmaT, LineT, IsrT, CellT

LEMMA IsrOffType == IsrOff \in IsrT /\ IsrOff.pc = "off"
  BY BufAssumption, DuringAssumption DEF IsrOff, IsrT, Bufs

(* Nothing of the stream, the buffers and the reader changes.               *)
LEMMA CellsKept ==
  ASSUME CellsInv, UNCHANGED <<w, r, rxb, dma, tty>>, phase' = "closed" \/ phase # "closed"
  PROVE  CellsInv' /\ Unread' = Unread /\ \A k : Num(k)' = Num(k)
<1>1. Unread' = Unread /\ \A k : Num(k)' = Num(k)
  BY DEF Unread, Num
<1>2. CellsInv'
  BY <1>1 DEF CellsInv
<1> QED BY <1>1, <1>2

-----------------------------------------------------------------------------
(* Opening and closing.                                                     *)

LEMMA StartupStep == IInv /\ Startup => IInv'
<1> SUFFICES ASSUME IInv, Startup PROVE IInv'
  OBVIOUS
<1>1. /\ phase = "closed" /\ phase' = "open" /\ w' = [buf |-> 0, pos |-> 0]
      /\ r' = [buf |-> 0, pos |-> 0] /\ dma' = [ct |-> 0, pos |-> 0]
      /\ line' = [rdr |-> NONE, idle |-> FALSE, busy |-> FALSE, seq |-> 0] /\ tty' = 0
      /\ UNCHANGED <<rxb, flags, isr>>
  BY DEF Startup
<1>2. isr.pc = "off"
  BY <1>1 DEF IInv, SameBuffer
<1>3. 0 \in Seq /\ 0 \in Bufs /\ 0 \in 0 .. BUF_LEN /\ 0 \in 0 .. BUF_LEN - 1
  BY SeqAssumption, BufAssumption DEF Seq, Bufs
<1>4. w' \in WhereT /\ r' \in WhereT /\ dma' \in DmaT /\ line' \in LineT
  BY <1>1, <1>3 DEF WhereT, DmaT, LineT
<1>5. TypeOK'
  BY <1>1, <1>3, <1>4, TypeParts, TypePartsPrime DEF IInv
<1>6. Unread' = 0
  BY <1>1 DEF Unread
<1>7. 0 % SeqMod = 0
  BY ModSmall, SeqAssumption, BufAssumption
<1>8. line'.seq = 0 /\ line'.rdr = NONE /\ Num(0)' = 0
  BY <1>1, <1>7 DEF Num
<1>9. LineInv' /\ CellsInv'
  BY <1>1, <1>6, <1>8 DEF LineInv, CellsInv
<1> QED BY <1>1, <1>2, <1>5, <1>9 DEF IInv, SameBuffer, IsrInv, StoppedInv

LEMMA StartupFailsStep == IInv /\ StartupFails => IInv'
<1> SUFFICES ASSUME IInv, StartupFails PROVE IInv'
  OBVIOUS
<1>1. /\ phase = "closed" /\ w' = [buf |-> 0, pos |-> 0] /\ r' = [buf |-> 0, pos |-> 0]
      /\ UNCHANGED <<phase, rxb, dma, flags, line, tty, isr>>
  BY DEF StartupFails
<1>2. isr.pc = "off"
  BY <1>1 DEF IInv, SameBuffer
<1>3. w' \in WhereT /\ r' \in WhereT
  BY <1>1, BufAssumption DEF WhereT, Bufs
<1>4. TypeOK'
  BY <1>1, <1>3, TypeParts, TypePartsPrime DEF IInv
<1> QED BY <1>1, <1>2, <1>4
        DEF IInv, SameBuffer, CellsInv, LineInv, IsrInv, StoppedInv

LEMMA StopRxStep == IInv /\ StopRx => IInv'
<1> SUFFICES ASSUME IInv, StopRx PROVE IInv'
  OBVIOUS
<1>1. /\ phase = "open" /\ isr.pc = "off" /\ phase' = "stopped"
      /\ line' = [line EXCEPT !.rdr = NONE] /\ flags' = flags \cup {"TC"}
      /\ UNCHANGED <<w, r, rxb, dma, tty, isr>>
  BY DEF StopRx
<1>2. line' \in LineT
  BY <1>1, TypeParts DEF IInv, LineT
<1>3. TypeOK'
  BY <1>1, <1>2, TypeParts, TypePartsPrime DEF IInv
<1>4. CellsInv'
  BY <1>1, CellsKept DEF IInv
<1> QED BY <1>1, <1>3, <1>4 DEF IInv, SameBuffer, LineInv, IsrInv, StoppedInv

LEMMA ShutdownStep == IInv /\ Shutdown => IInv'
<1> SUFFICES ASSUME IInv, Shutdown PROVE IInv'
  OBVIOUS
<1>1. /\ phase' = "closed" /\ isr.pc = "off" /\ line' = [line EXCEPT !.idle = FALSE]
      /\ UNCHANGED <<w, r, rxb, dma, flags, tty, isr>>
  BY DEF Shutdown
<1>2. line' \in LineT
  BY <1>1, TypeParts DEF IInv, LineT
<1>3. TypeOK'
  BY <1>1, <1>2, TypeParts, TypePartsPrime DEF IInv
<1> QED BY <1>1, <1>3 DEF IInv, SameBuffer, CellsInv, LineInv, IsrInv, StoppedInv

-----------------------------------------------------------------------------
(* The line.                                                                *)

LEMMA LineStep == IInv /\ (CharArrives \/ LineIdle) => IInv'
<1> SUFFICES ASSUME IInv, CharArrives \/ LineIdle PROVE IInv'
  OBVIOUS
<1>1. /\ phase = "open" /\ line.rdr = NONE /\ line \in LineT /\ tty \in Seq
      /\ UNCHANGED <<phase, w, r, rxb, dma, flags, tty, isr>>
  BY TypeParts DEF CharArrives, LineIdle, IInv
<1>2. /\ CellsInv' /\ Unread' = Unread /\ \A k : Num(k)' = Num(k)
      /\ Unread \in Nat /\ Unread < 2 * BUF_LEN
  BY <1>1, CellsKept, UnreadRange DEF IInv
<1>3. line.seq = Num(Unread)
  BY <1>1 DEF IInv, LineInv
<1>4. line' \in LineT /\ LineInv'
  <2>1. CASE CharArrives
    <3>1. line' = [line EXCEPT !.rdr = line.seq, !.busy = TRUE, !.seq = (line.seq + 1) % SeqMod]
      BY <2>1 DEF CharArrives
    <3>2. (line.seq + 1) % SeqMod = Num(Unread + 1)
      <4>1. Unread + 1 <= 2 * BUF_LEN
        BY <1>2, BufAssumption
      <4>2. (((tty + Unread) % SeqMod) + 1) % SeqMod = (tty + Unread + 1) % SeqMod
        BY <1>1, <1>2, <4>1, ModShift
      <4>3. tty + Unread + 1 = tty + (Unread + 1)
        BY <1>1, <1>2 DEF Seq
      <4> QED BY <1>3, <4>2, <4>3 DEF Num
    <3>3. (line.seq + 1) % SeqMod \in Seq /\ line.seq \in Seq /\ line.seq # NONE
      BY <1>1, SeqAssumption, BufAssumption DEF LineT, Seq, NONE
    <3>4. line' \in LineT /\ line'.rdr = line.seq /\ line'.seq = (line.seq + 1) % SeqMod
      BY <1>1, <3>1, <3>3 DEF LineT
    <3> QED BY <1>2, <1>3, <3>2, <3>3, <3>4 DEF LineInv
  <2>2. CASE LineIdle
    <3>1. line' \in LineT /\ line'.rdr = line.rdr /\ line'.seq = line.seq
      BY <1>1, <2>2 DEF LineIdle, LineT
    <3> QED BY <1>1, <1>2, <1>3, <3>1 DEF LineInv
  <2> QED BY <2>1, <2>2
<1>5. TypeOK'
  BY <1>1, <1>4, TypeParts, TypePartsPrime DEF IInv
<1> QED BY <1>1, <1>2, <1>4, <1>5 DEF IInv, SameBuffer, IsrInv, StoppedInv

(* The stream takes a character.                                            *)
LEMMA DmaWriteStep == IInv /\ DmaWrite => IInv'
<1> SUFFICES ASSUME IInv, DmaWrite PROVE IInv'
  OBVIOUS
<1> DEFINE last == dma.pos = BUF_LEN - 1
<1>1. /\ phase = "open" /\ line.rdr # NONE
      /\ dma.ct = w.buf \/ dma.pos < BUF_LEN - 1
      /\ isr.pc # "off" => isr.n < MaxDuring
      /\ rxb' = [rxb EXCEPT ![dma.ct][dma.pos] = line.rdr]
      /\ line' = [line EXCEPT !.rdr = NONE]
      /\ dma' = IF last THEN [ct |-> 1 - dma.ct, pos |-> 0] ELSE [dma EXCEPT !.pos = @ + 1]
      /\ flags' \subseteq flags \cup {"TC", "HT"}
      /\ isr' = IF isr.pc = "off" THEN isr ELSE [isr EXCEPT !.n = @ + 1]
      /\ UNCHANGED <<phase, w, r, tty>>
  BY DEF DmaWrite, NotLapped
<1>2. /\ w \in WhereT /\ r \in WhereT /\ rxb \in CellT /\ dma \in DmaT /\ line \in LineT
      /\ tty \in Seq /\ isr \in IsrT /\ flags \subseteq {"HT", "TC"} /\ r.buf = w.buf
  BY TypeParts DEF IInv, SameBuffer
<1>3. /\ BUF_LEN \in Nat /\ BUF_LEN > 0 /\ dma.ct \in {0, 1} /\ dma.pos \in 0 .. BUF_LEN - 1
      /\ r.buf \in {0, 1} /\ r.pos \in 0 .. BUF_LEN
  BY <1>2, BufAssumption DEF DmaT, WhereT, Bufs
<1>4. /\ dma' \in DmaT
      /\ last => dma'.ct = 1 - dma.ct /\ dma'.pos = 0
      /\ ~last => dma'.ct = dma.ct /\ dma'.pos = dma.pos + 1
  <2>1. CASE last
    BY <1>1, <1>3, <2>1 DEF DmaT, Bufs
  <2>2. CASE ~last
    BY <1>1, <1>2, <1>3, <2>2 DEF DmaT, Bufs
  <2> QED BY <2>1, <2>2
<1>5. line' \in LineT /\ line'.rdr = NONE /\ line'.seq = line.seq
  BY <1>1, <1>2 DEF LineT
<1>6. line.rdr \in Seq
  BY <1>1, <1>2 DEF LineT
<1>7. /\ rxb' \in CellT
      /\ \A b \in {0, 1}, p \in 0 .. BUF_LEN - 1 :
           rxb'[b][p] = IF b = dma.ct /\ p = dma.pos THEN line.rdr ELSE rxb[b][p]
  BY <1>1, <1>2, <1>3, <1>6 DEF CellT, Bufs
<1>8. /\ isr' \in IsrT /\ isr'.pc = isr.pc /\ isr'.buf = isr.buf /\ isr'.pos = isr.pos
  <2>1. CASE isr.pc = "off"
    BY <1>1, <1>2, <2>1
  <2>2. CASE isr.pc # "off"
    <3>1. isr.n + 1 \in 0 .. MaxDuring
      BY <1>1, <1>2, <2>2, DuringAssumption DEF IsrT
    <3> QED BY <1>1, <1>2, <2>2, <3>1 DEF IsrT
  <2> QED BY <2>1, <2>2
<1>9. TypeOK'
  <2>1. flags' \subseteq {"HT", "TC"}
    BY <1>1, <1>2
  <2> QED BY <1>1, <1>2, <1>4, <1>5, <1>7, <1>8, <2>1, TypePartsPrime
<1>10. /\ dma.ct = r.buf => r.pos <= dma.pos
       /\ \A p \in r.pos .. (IF dma.ct = r.buf THEN dma.pos ELSE BUF_LEN) - 1 :
            rxb[r.buf][p] = Num(p - r.pos)
       /\ dma.ct # r.buf =>
            \A p \in 0 .. dma.pos - 1 : rxb[dma.ct][p] = Num(BUF_LEN - r.pos + p)
       /\ line.rdr = Num(Unread) /\ line.seq = Num(Unread + 1)
  BY <1>1 DEF IInv, CellsInv, LineInv
<1>11. /\ r' = r /\ w' = w /\ tty' = tty /\ phase' = "open" /\ \A k : Num(k)' = Num(k)
  BY <1>1 DEF Num
<1>12. Unread' = Unread + 1
  <2>1. CASE last
    <3>1. dma.ct = r.buf
      BY <1>1, <1>2, <1>3, <2>1
    <3> QED BY <1>3, <1>4, <1>11, <2>1, <3>1 DEF Unread
  <2>2. CASE ~last
    BY <1>3, <1>4, <1>11, <2>2 DEF Unread
  <2> QED BY <2>1, <2>2
<1>13. LineInv'
  BY <1>5, <1>10, <1>11, <1>12 DEF LineInv
<1>14. CellsInv'
  <2>1. CASE dma.ct = r.buf
    <3>1. line.rdr = Num(dma.pos - r.pos)
      BY <1>10, <2>1 DEF Unread
    <3>2. \A p \in r.pos .. dma.pos : rxb'[r.buf][p] = Num(p - r.pos)
      BY <1>3, <1>7, <1>10, <2>1, <3>1
    <3>3. CASE last
      <4>1. dma'.ct # r'.buf /\ dma'.pos = 0
        BY <1>3, <1>4, <1>11, <2>1, <3>3
      <4> QED BY <1>3, <1>11, <3>2, <3>3, <4>1 DEF CellsInv
    <3>4. CASE ~last
      <4>1. dma'.ct = r'.buf /\ dma'.pos = dma.pos + 1
        BY <1>4, <1>11, <2>1, <3>4
      <4> QED BY <1>3, <1>10, <1>11, <2>1, <3>2, <4>1 DEF CellsInv
    <3> QED BY <3>3, <3>4
  <2>2. CASE dma.ct # r.buf
    <3>1. line.rdr = Num(BUF_LEN - r.pos + dma.pos)
      BY <1>10, <2>2 DEF Unread
    <3>2. dma'.ct = dma.ct /\ dma'.pos = dma.pos + 1 /\ dma'.ct # r'.buf
      BY <1>1, <1>2, <1>3, <1>4, <1>11, <2>2
    <3>3. \A p \in r.pos .. BUF_LEN - 1 : rxb'[r.buf][p] = Num(p - r.pos)
      BY <1>3, <1>7, <1>10, <2>2
    <3>4. \A p \in 0 .. dma.pos : rxb'[dma.ct][p] = Num(BUF_LEN - r.pos + p)
      BY <1>3, <1>7, <1>10, <2>2, <3>1
    <3> QED BY <1>3, <1>11, <3>2, <3>3, <3>4 DEF CellsInv
  <2> QED BY <2>1, <2>2
<1>15. IsrInv'
  <2>1. dma.ct # w.buf => dma'.ct = dma.ct /\ dma'.pos = dma.pos + 1
    BY <1>1, <1>3, <1>4
  <2>2. dma'.ct = w.buf => dma.ct = w.buf /\ dma'.pos = dma.pos + 1
    BY <1>1, <1>2, <1>3, <1>4
  <2>3. isr.pos \in Int /\ dma.pos \in Int
    BY <1>2, <1>3 DEF IsrT
  <2> QED BY <1>8, <1>11, <2>1, <2>2, <2>3 DEF IInv, IsrInv
<1>16. SameBuffer' /\ StoppedInv'
  BY <1>2, <1>11 DEF SameBuffer, StoppedInv
<1> QED BY <1>9, <1>13, <1>14, <1>15, <1>16 DEF IInv

-----------------------------------------------------------------------------
(* The handlers.                                                            *)

LEMMA EnterStep == IInv /\ (DmaIsr \/ UsartIsr) => IInv'
<1> SUFFICES ASSUME IInv, DmaIsr \/ UsartIsr PROVE IInv'
  OBVIOUS
<1>1. /\ phase # "closed" /\ UNCHANGED <<phase, w, r, rxb, dma, flags, line, tty>>
      /\ \E f \in {"dma", "usart"} : isr' = [IsrOff EXCEPT !.pc = "ct", !.from = f]
  BY DEF DmaIsr, UsartIsr
<1>2. isr' \in IsrT /\ isr'.pc = "ct"
  BY <1>1, IsrOffType DEF IsrT
<1>3. TypeOK'
  BY <1>1, <1>2, TypeParts, TypePartsPrime DEF IInv
<1>4. CellsInv' /\ Unread' = Unread /\ \A k : Num(k)' = Num(k)
  BY <1>1, CellsKept DEF IInv
<1>5. LineInv'
  BY <1>1, <1>4 DEF IInv, LineInv
<1> QED BY <1>1, <1>2, <1>3, <1>4, <1>5 DEF IInv, SameBuffer, IsrInv, StoppedInv

(* A read of a register: the stream stands still.                           *)
LEMMA ReadStep == IInv /\ (ReadCt \/ ReadNdtr \/ ReadCt2 \/ ReadNdtr2) => IInv'
<1> SUFFICES ASSUME IInv, ReadCt \/ ReadNdtr \/ ReadCt2 \/ ReadNdtr2 PROVE IInv'
  OBVIOUS
<1>1. /\ UNCHANGED <<phase, w, r, rxb, dma, flags, line, tty>>
      /\ isr.pc # "off"
  BY DEF ReadCt, ReadNdtr, ReadCt2, ReadNdtr2
<1>2. /\ w \in WhereT /\ r \in WhereT /\ dma \in DmaT /\ isr \in IsrT
      /\ r.buf = w.buf /\ phase # "closed"
  BY <1>1, TypeParts DEF IInv, SameBuffer
<1>3. /\ BUF_LEN \in Nat /\ dma.ct \in {0, 1} /\ dma.pos \in 0 .. BUF_LEN - 1
      /\ w.buf \in {0, 1} /\ isr.buf \in {0, 1} /\ dma.ct \in Bufs /\ dma.pos \in 0 .. BUF_LEN
  BY <1>2, BufAssumption DEF DmaT, WhereT, IsrT, Bufs
<1>4. CellsInv' /\ Unread' = Unread /\ \A k : Num(k)' = Num(k)
  BY <1>1, <1>2, CellsKept DEF IInv
<1>5. LineInv'
  BY <1>1, <1>4 DEF IInv, LineInv
<1>6. dma.ct = r.buf => r.pos <= dma.pos
  BY <1>2 DEF IInv, CellsInv
<1>7. isr' \in IsrT /\ IsrInv' /\ StoppedInv'
  <2>1. CASE ReadCt
    <3>1. isr' \in IsrT /\ isr'.pc = "ndtr" /\ isr'.buf = dma.ct
      BY <1>2, <1>3, <2>1 DEF ReadCt, IsrT
    <3> QED BY <1>1, <1>4, <3>1 DEF IInv, IsrInv, StoppedInv
  <2>2. CASE ReadNdtr
    <3>1. isr' \in IsrT /\ isr'.pc = "ct2" /\ isr'.buf = isr.buf /\ isr'.pos = dma.pos
          /\ isr.pc = "ndtr"
      BY <1>2, <1>3, <2>2 DEF ReadNdtr, IsrT
    <3> QED BY <1>1, <1>2, <1>3, <1>4, <1>6, <3>1 DEF IInv, IsrInv, StoppedInv
  <2>3. CASE ReadCt2
    <3>1. isr' \in IsrT /\ isr'.buf = dma.ct /\ isr'.pos = isr.pos /\ isr.pc = "ct2"
          /\ isr'.pc = (IF dma.ct = isr.buf THEN "fetch" ELSE "ndtr2")
      BY <1>2, <1>3, <2>3 DEF ReadCt2, IsrT
    <3> QED BY <1>1, <1>2, <1>3, <1>4, <3>1 DEF IInv, IsrInv, StoppedInv
  <2>4. CASE ReadNdtr2
    <3>1. isr' \in IsrT /\ isr'.pc = "fetch" /\ isr'.buf = isr.buf /\ isr'.pos = dma.pos
          /\ isr.pc = "ndtr2"
      BY <1>2, <1>3, <2>4 DEF ReadNdtr2, IsrT
    <3> QED BY <1>1, <1>2, <1>3, <1>4, <1>6, <3>1 DEF IInv, IsrInv, StoppedInv
  <2> QED BY <2>1, <2>2, <2>3, <2>4
<1>8. TypeOK'
  BY <1>1, <1>7, TypeParts, TypePartsPrime DEF IInv
<1> QED BY <1>1, <1>2, <1>4, <1>5, <1>7, <1>8 DEF IInv, SameBuffer

(* n characters are handed over: the numbers are counted from there.        *)
LEMMA HandedOver ==
  ASSUME TypeOK, NEW n \in Nat, n <= 2 * BUF_LEN, tty' = (tty + n) % SeqMod
  PROVE  /\ tty' \in Seq
         /\ \A k \in Nat : n + k <= 2 * BUF_LEN => NumNext(k) = Num(n + k)
<1>1. tty \in Seq /\ tty \in Int /\ BUF_LEN \in Nat
  BY BufAssumption DEF TypeOK, Seq
<1>2. tty' \in Seq
  <2>1. n + 0 <= 2 * BUF_LEN /\ 0 \in Nat
    BY <1>1
  <2> QED BY <1>1, <2>1, ModShift
<1>3. ASSUME NEW k \in Nat, n + k <= 2 * BUF_LEN PROVE NumNext(k) = Num(n + k)
  <2>1. (((tty + n) % SeqMod) + k) % SeqMod = (tty + n + k) % SeqMod
    BY <1>1, <1>3, ModShift
  <2>2. tty + n + k = tty + (n + k)
    BY <1>1
  <2>3. NumNext(k) = (tty' + k) % SeqMod
    BY DEF NumNext
  <2> QED BY <2>1, <2>2, <2>3 DEF Num
<1> QED BY <1>2, <1>3

LEMMA FetchStep == IInv /\ Fetch => IInv'
<1> SUFFICES ASSUME IInv, Fetch PROVE IInv'
  OBVIOUS
<1> DEFINE switched == isr.buf # w.buf
           done     == switched /\ r.pos = BUF_LEN
           rest     == switched /\ r.pos # BUF_LEN
           from     == IF done THEN 0 ELSE r.pos
           to       == IF rest THEN BUF_LEN ELSE isr.pos
           n        == to - from
<1>1. /\ isr.pc = "fetch"
      /\ w' = [buf |-> IF done THEN isr.buf ELSE w.buf, pos |-> to]
      /\ r' = [buf |-> IF done THEN isr.buf ELSE r.buf, pos |-> IF from < to THEN to ELSE from]
      /\ tty' = IF from < to THEN (tty + to - from) % SeqMod ELSE tty
      /\ isr' = [isr EXCEPT !.pc = "ack", !.wrap = rest]
      /\ UNCHANGED <<phase, rxb, dma, flags, line>>
  BY DEF Fetch
<1>2. /\ w \in WhereT /\ r \in WhereT /\ dma \in DmaT /\ isr \in IsrT /\ tty \in Seq
      /\ r.buf = w.buf /\ phase # "closed" /\ TypeOK
  BY <1>1, TypeParts DEF IInv, SameBuffer
<1>3. /\ BUF_LEN \in Nat /\ BUF_LEN > 0 /\ dma.ct \in {0, 1} /\ dma.pos \in 0 .. BUF_LEN - 1
      /\ w.buf \in {0, 1} /\ isr.buf \in {0, 1} /\ r.pos \in 0 .. BUF_LEN /\ isr.pos \in 0 .. BUF_LEN
  BY <1>2, BufAssumption DEF DmaT, WhereT, IsrT, Bufs
<1>4. /\ isr.pos < BUF_LEN
      /\ switched => dma.ct = isr.buf /\ isr.pos <= dma.pos
      /\ ~switched => r.pos <= isr.pos /\ (dma.ct = w.buf => isr.pos <= dma.pos)
  BY <1>1 DEF IInv, IsrInv
<1>5. /\ dma.ct = r.buf => r.pos <= dma.pos
      /\ \A p \in r.pos .. (IF dma.ct = r.buf THEN dma.pos ELSE BUF_LEN) - 1 :
           rxb[r.buf][p] = Num(p - r.pos)
      /\ dma.ct # r.buf =>
           \A p \in 0 .. dma.pos - 1 : rxb[dma.ct][p] = Num(BUF_LEN - r.pos + p)
  BY <1>2 DEF IInv, CellsInv
<1>6. n \in Nat /\ n <= BUF_LEN /\ from <= to /\ from \in Int /\ to \in 0 .. BUF_LEN
  BY <1>3, <1>4
<1>7. tty' = (tty + n) % SeqMod
  <2>1. CASE from < to
    <3>1. tty + to - from = tty + n
      BY <1>2, <1>6 DEF Seq
    <3> QED BY <1>1, <2>1, <3>1
  <2>2. CASE from = to
    <3>1. tty + n = tty /\ tty \in Int /\ 0 <= tty /\ tty < SeqMod
      BY <1>2, <1>6, <2>2, SeqAssumption DEF Seq
    <3>2. tty % SeqMod = tty
      BY <3>1, ModSmall
    <3> QED BY <1>1, <1>6, <2>2, <3>1, <3>2
  <2> QED BY <1>6, <2>1, <2>2
<1>8. /\ tty' \in Seq
      /\ \A k \in Nat : n + k <= 2 * BUF_LEN => NumNext(k) = Num(n + k)
  <2>1. n <= 2 * BUF_LEN
    BY <1>3, <1>6
  <2> HIDE DEF n
  <2> QED BY <1>2, <1>6, <1>7, <2>1, HandedOver
<1>9. /\ w' \in WhereT /\ r' \in WhereT /\ isr' \in IsrT /\ isr'.pc = "ack" /\ isr'.wrap = rest
      /\ r'.buf = w'.buf /\ r'.pos = to
      /\ r'.buf = (IF done THEN isr.buf ELSE r.buf)
  <2>1. (IF done THEN isr.buf ELSE w.buf) \in Bufs /\ (IF done THEN isr.buf ELSE r.buf) \in Bufs
    BY <1>2, <1>3 DEF Bufs
  <2>2. (IF from < to THEN to ELSE from) = to
    BY <1>6
  <2>3. rest \in BOOLEAN
    OBVIOUS
  <2>4. isr' \in IsrT /\ isr'.pc = "ack" /\ isr'.wrap = rest
    BY <1>1, <1>2, <2>3 DEF IsrT
  <2> HIDE DEF done, rest, from, to
  <2> QED BY <1>1, <1>2, <1>6, <2>1, <2>2, <2>4 DEF WhereT
<1>10. TypeOK'
  BY <1>1, <1>2, <1>8, <1>9, TypeParts, TypePartsPrime
<1>11. Unread' = Unread - n /\ Unread \in Nat /\ Unread < 2 * BUF_LEN /\ n <= Unread
  <2>1. Unread \in Nat /\ Unread < 2 * BUF_LEN
    BY <1>2, UnreadRange DEF IInv
  <2>2. Unread' = Unread - n /\ n <= Unread
    <3>1. CASE ~switched
      BY <1>1, <1>2, <1>3, <1>4, <1>5, <1>9, <3>1 DEF Unread
    <3>2. CASE rest
      BY <1>1, <1>2, <1>3, <1>4, <1>9, <3>2 DEF Unread
    <3>3. CASE done
      BY <1>1, <1>2, <1>3, <1>4, <1>9, <3>3 DEF Unread
    <3> QED BY <3>1, <3>2, <3>3
  <2> QED BY <2>1, <2>2
<1>12. LineInv'
  <2>1. NumNext(Unread') = Num(Unread) /\ NumNext(Unread' + 1) = Num(Unread + 1)
    <3> HIDE DEF n
    <3>1. /\ Unread' \in Nat /\ n + Unread' = Unread /\ n + Unread' <= 2 * BUF_LEN
          /\ Unread' + 1 \in Nat /\ n + (Unread' + 1) = Unread + 1
          /\ n + (Unread' + 1) <= 2 * BUF_LEN
      BY <1>3, <1>6, <1>11
    <3> QED BY <1>8, <3>1
  <2> QED BY <1>1, <2>1 DEF IInv, LineInv, Num, NumNext
<1>13. CellsInv'
  <2>1. rxb' = rxb /\ dma' = dma
    BY <1>1
  <2>2. CASE ~switched
    <3>1. r'.buf = r.buf /\ r'.pos = r.pos + n /\ n \in Nat /\ r.pos + n <= BUF_LEN
      BY <1>3, <1>4, <1>6, <1>9, <2>2
    <3>2. dma.ct = r.buf => r.pos + n <= dma.pos
      BY <1>2, <1>3, <1>4, <2>2
    <3> HIDE DEF n
    <3>3. \A p \in r.pos + n .. BUF_LEN - 1 : NumNext(p - (r.pos + n)) = Num(p - r.pos)
      <4> SUFFICES ASSUME NEW p \in r.pos + n .. BUF_LEN - 1
                   PROVE  NumNext(p - (r.pos + n)) = Num(p - r.pos)
        OBVIOUS
      <4>1. p - (r.pos + n) \in Nat /\ n + (p - (r.pos + n)) = p - r.pos
            /\ n + (p - (r.pos + n)) <= 2 * BUF_LEN
        BY <1>3, <3>1
      <4> QED BY <1>8, <4>1
    <3>4. \A p \in 0 .. dma.pos - 1 :
            NumNext(BUF_LEN - (r.pos + n) + p) = Num(BUF_LEN - r.pos + p)
      <4> SUFFICES ASSUME NEW p \in 0 .. dma.pos - 1
                   PROVE  NumNext(BUF_LEN - (r.pos + n) + p) = Num(BUF_LEN - r.pos + p)
        OBVIOUS
      <4>1. BUF_LEN - (r.pos + n) + p \in Nat
            /\ n + (BUF_LEN - (r.pos + n) + p) = BUF_LEN - r.pos + p
            /\ n + (BUF_LEN - (r.pos + n) + p) <= 2 * BUF_LEN
        BY <1>3, <3>1
      <4> QED BY <1>8, <4>1
    <3>5. /\ dma'.ct = r'.buf => r'.pos <= dma'.pos
          /\ \A p \in r'.pos .. (IF dma'.ct = r'.buf THEN dma'.pos ELSE BUF_LEN) - 1 :
               rxb'[r'.buf][p] = NumNext(p - r'.pos)
          /\ dma'.ct # r'.buf =>
               \A p \in 0 .. dma'.pos - 1 : rxb'[dma'.ct][p] = NumNext(BUF_LEN - r'.pos + p)
      <4>1. \A p \in r.pos + n .. (IF dma.ct = r.buf THEN dma.pos ELSE BUF_LEN) - 1 :
              p \in r.pos .. (IF dma.ct = r.buf THEN dma.pos ELSE BUF_LEN) - 1
              /\ p \in r.pos + n .. BUF_LEN - 1
        BY <1>3, <3>1
      <4>2. \A p \in r.pos + n .. (IF dma.ct = r.buf THEN dma.pos ELSE BUF_LEN) - 1 :
              rxb[r.buf][p] = NumNext(p - (r.pos + n))
        BY <1>5, <3>3, <4>1
      <4>3. dma.ct # r.buf =>
              \A p \in 0 .. dma.pos - 1 : rxb[dma.ct][p] = NumNext(BUF_LEN - (r.pos + n) + p)
        BY <1>5, <3>4
      <4> QED BY <2>1, <3>1, <3>2, <4>2, <4>3
    <3> QED BY <3>5 DEF CellsInv, Num, NumNext
  <2>3. CASE rest
    <3>1. r'.buf = r.buf /\ r'.pos = BUF_LEN /\ dma.ct # r.buf /\ n = BUF_LEN - r.pos
      BY <1>2, <1>3, <1>4, <1>9, <2>3
    <3>2. \A p \in 0 .. dma.pos - 1 : NumNext(BUF_LEN - BUF_LEN + p) = Num(BUF_LEN - r.pos + p)
      <4> SUFFICES ASSUME NEW p \in 0 .. dma.pos - 1
                   PROVE  NumNext(BUF_LEN - BUF_LEN + p) = Num(BUF_LEN - r.pos + p)
        OBVIOUS
      <4>1. BUF_LEN - BUF_LEN + p \in Nat
            /\ n + (BUF_LEN - BUF_LEN + p) = BUF_LEN - r.pos + p
            /\ n + (BUF_LEN - BUF_LEN + p) <= 2 * BUF_LEN
        BY <1>3, <3>1
      <4> HIDE DEF n
      <4> QED BY <1>8, <4>1
    <3>3. r'.pos .. BUF_LEN - 1 = {}
      BY <1>3, <3>1
    <3> QED BY <1>5, <2>1, <3>1, <3>2, <3>3 DEF CellsInv, Num, NumNext
  <2>4. CASE done
    <3>1. r'.buf = dma.ct /\ r'.pos = isr.pos /\ dma.ct # r.buf /\ n = isr.pos
          /\ r.pos = BUF_LEN /\ isr.pos <= dma.pos
      BY <1>2, <1>3, <1>4, <1>9, <2>4
    <3>2. \A p \in isr.pos .. dma.pos - 1 : NumNext(p - isr.pos) = Num(BUF_LEN - BUF_LEN + p)
      <4> SUFFICES ASSUME NEW p \in isr.pos .. dma.pos - 1
                   PROVE  NumNext(p - isr.pos) = Num(BUF_LEN - BUF_LEN + p)
        OBVIOUS
      <4>1. p - isr.pos \in Nat /\ n + (p - isr.pos) = BUF_LEN - BUF_LEN + p
            /\ n + (p - isr.pos) <= 2 * BUF_LEN
        BY <1>3, <3>1
      <4> HIDE DEF n
      <4> QED BY <1>8, <4>1
    <3>3. \A p \in isr.pos .. dma.pos - 1 : p \in 0 .. dma.pos - 1
      BY <1>3
    <3>4. \A p \in isr.pos .. dma.pos - 1 : rxb[dma.ct][p] = NumNext(p - isr.pos)
      BY <1>5, <3>1, <3>2, <3>3
    <3> QED BY <2>1, <3>1, <3>4 DEF CellsInv, Num, NumNext
  <2> QED BY <2>2, <2>3, <2>4
<1>14. StoppedInv'
  <2> SUFFICES ASSUME phase' = "stopped"
               PROVE  (~rest => Unread' = 0) /\ (flags' = {} => Unread' = 0)
    BY <1>9 DEF StoppedInv
  <2>1. isr.buf = dma.ct /\ isr.pos = dma.pos /\ (flags = {} => Unread = 0)
    BY <1>1 DEF IInv, StoppedInv
  <2>2. ~rest => Unread' = 0
    <3>1. CASE ~switched
      BY <1>1, <1>2, <1>3, <1>9, <2>1, <3>1 DEF Unread
    <3>2. CASE done
      BY <1>1, <1>3, <1>9, <2>1, <3>2 DEF Unread
    <3> QED BY <3>1, <3>2
  <2>3. flags' = {} => Unread' = 0
    <3> HIDE DEF n
    <3> QED BY <1>1, <1>6, <1>11, <2>1
  <2> QED BY <2>2, <2>3
<1>15. SameBuffer' /\ IsrInv'
  BY <1>1, <1>2, <1>9 DEF SameBuffer, IsrInv
<1> QED BY <1>10, <1>12, <1>13, <1>14, <1>15 DEF IInv

(* The end of a handler: acknowledge, and clear the idle flag.              *)
LEMMA LeaveStep == IInv /\ (Ack \/ IdleClear) => IInv'
<1> SUFFICES ASSUME IInv, Ack \/ IdleClear PROVE IInv'
  OBVIOUS
<1>1. /\ isr.pc \in {"ack", "idle_clear"} /\ phase # "closed"
      /\ UNCHANGED <<phase, w, r, rxb, dma, tty>>
  BY DEF Ack, IdleClear, IInv, SameBuffer
<1>2. isr \in IsrT /\ line \in LineT /\ flags \subseteq {"HT", "TC"}
  BY TypeParts DEF IInv
<1>3. CellsInv' /\ Unread' = Unread /\ \A k : Num(k)' = Num(k)
  BY <1>1, CellsKept DEF IInv
<1>4. isr' \in IsrT /\ isr'.pc \in {"off", "idle_clear"}
  <2>1. isr' = IsrOff \/ isr' = [isr EXCEPT !.pc = "idle_clear"]
    BY DEF Ack, IdleClear
  <2> QED BY <1>2, <2>1, IsrOffType DEF IsrT
<1>5. line' \in LineT /\ line'.rdr = line.rdr /\ line'.seq = line.seq
  <2>1. line' = line \/ line' = [line EXCEPT !.idle = FALSE]
    BY DEF Ack, IdleClear
  <2> QED BY <1>2, <2>1 DEF LineT
<1>6. /\ flags' \subseteq {"HT", "TC"}
      /\ flags' = flags \/ (isr.pc = "ack" /\ ~isr.wrap)
  BY <1>2 DEF Ack, IdleClear
<1>7. TypeOK'
  BY <1>1, <1>4, <1>5, <1>6, TypeParts, TypePartsPrime DEF IInv
<1>8. LineInv'
  BY <1>1, <1>3, <1>5 DEF IInv, LineInv
<1>9. StoppedInv'
  BY <1>1, <1>3, <1>4, <1>6 DEF IInv, StoppedInv
<1> QED BY <1>1, <1>3, <1>4, <1>7, <1>8, <1>9 DEF IInv, SameBuffer, IsrInv

LEMMA IdleStep == IInv /\ UNCHANGED vars => IInv'
<1> SUFFICES ASSUME IInv, UNCHANGED vars PROVE IInv'
  OBVIOUS
<1>1. UNCHANGED <<phase, w, r, rxb, dma, flags, line, tty, isr>>
  BY DEF vars
<1>2. CellsInv'
  BY <1>1 DEF IInv, CellsInv, Num
<1>3. LineInv' /\ StoppedInv'
  BY <1>1 DEF IInv, LineInv, StoppedInv, Num, Unread
<1>4. TypeOK'
  BY <1>1, TypeParts, TypePartsPrime DEF IInv
<1> QED BY <1>1, <1>2, <1>3, <1>4 DEF IInv, SameBuffer, IsrInv

-----------------------------------------------------------------------------
LEMMA InitIInv == Init => IInv
<1> SUFFICES ASSUME Init PROVE IInv
  OBVIOUS
<1>1. 0 \in Seq /\ 0 \in Bufs /\ 0 \in 0 .. BUF_LEN /\ 0 \in 0 .. BUF_LEN - 1
  BY SeqAssumption, BufAssumption DEF Seq, Bufs
<1>2. w \in WhereT /\ r \in WhereT /\ dma \in DmaT /\ line \in LineT /\ rxb \in CellT
  BY <1>1 DEF Init, WhereT, DmaT, LineT, CellT
<1>3. isr \in IsrT /\ isr.pc = "off"
  BY IsrOffType DEF Init
<1>4. TypeOK
  BY <1>1, <1>2, <1>3, TypeParts DEF Init
<1> QED BY <1>3, <1>4 DEF Init, IInv, SameBuffer, CellsInv, LineInv, IsrInv, StoppedInv

LEMMA StepIInv == IInv /\ [Next]_vars => IInv'
  BY StartupStep, StartupFailsStep, StopRxStep, ShutdownStep, LineStep, DmaWriteStep,
     EnterStep, ReadStep, FetchStep, LeaveStep, IdleStep
  DEF Next, Receive

(* The invariant holds in every state, under every interleaving of the      *)
(* line, the stream and the two handlers.                                   *)
THEOREM Invariance == Spec => []IInv
<1>1. Init => IInv
  BY InitIInv
<1>2. IInv /\ [Next]_vars => IInv'
  BY StepIInv
<1> QED BY <1>1, <1>2, PTL DEF Spec

(* Every variable keeps its type; no buffer is indexed beyond its end.      *)
THEOREM TypeCorrect == Spec => []TypeOK
<1>1. IInv => TypeOK
  BY DEF IInv
<1> QED BY <1>1, Invariance, PTL

(* stm32_receive() gives the tty the characters in the order in which they  *)
(* arrived, each one once, whenever the stream changes the buffer.          *)
THEOREM CharsInOrder == Spec => []InOrder
<1>1. IInv => InOrder
  <2> SUFFICES ASSUME IInv, isr.pc = "fetch",
                      NEW p \in FetchFrom .. FetchTo - 1
               PROVE  rxb[FetchBuf][p] = (tty + p - FetchFrom) % SeqMod
    BY DEF InOrder
  <2>1. /\ w \in WhereT /\ r \in WhereT /\ dma \in DmaT /\ isr \in IsrT /\ tty \in Seq
        /\ r.buf = w.buf /\ phase # "closed"
    BY TypeParts DEF IInv, SameBuffer
  <2>2. /\ BUF_LEN \in Nat /\ dma.ct \in {0, 1} /\ dma.pos \in 0 .. BUF_LEN - 1 /\ tty \in Int
        /\ w.buf \in {0, 1} /\ isr.buf \in {0, 1} /\ r.pos \in 0 .. BUF_LEN /\ isr.pos \in 0 .. BUF_LEN
    BY <2>1, BufAssumption DEF DmaT, WhereT, IsrT, Bufs, Seq
  <2>3. /\ isr.pos < BUF_LEN
        /\ isr.buf # w.buf => dma.ct = isr.buf /\ isr.pos <= dma.pos
        /\ isr.buf = w.buf => r.pos <= isr.pos /\ (dma.ct = w.buf => isr.pos <= dma.pos)
    BY DEF IInv, IsrInv
  <2>4. /\ \A q \in r.pos .. (IF dma.ct = r.buf THEN dma.pos ELSE BUF_LEN) - 1 :
             rxb[r.buf][q] = Num(q - r.pos)
        /\ dma.ct # r.buf =>
             \A q \in 0 .. dma.pos - 1 : rxb[dma.ct][q] = Num(BUF_LEN - r.pos + q)
    BY <2>1 DEF IInv, CellsInv
  <2>5. CASE isr.buf # w.buf /\ r.pos = BUF_LEN
    <3>1. FetchFrom = 0 /\ FetchTo = isr.pos /\ FetchBuf = isr.buf
      BY <2>5 DEF FetchFrom, FetchTo, FetchBuf
    <3>2. p \in 0 .. dma.pos - 1 /\ dma.ct # r.buf /\ dma.ct = isr.buf
      BY <2>1, <2>2, <2>3, <2>5, <3>1
    <3>3. tty + p - 0 = tty + (BUF_LEN - r.pos + p)
      BY <2>2, <2>5, <3>2
    <3> QED BY <2>4, <3>1, <3>2, <3>3 DEF Num
  <2>6. CASE ~(isr.buf # w.buf /\ r.pos = BUF_LEN)
    <3>1. FetchFrom = r.pos /\ FetchBuf = r.buf
      BY <2>6 DEF FetchFrom, FetchBuf
    <3>2. FetchTo = (IF isr.buf # w.buf THEN BUF_LEN ELSE isr.pos)
      BY <2>6 DEF FetchTo
    <3>3. p \in r.pos .. (IF dma.ct = r.buf THEN dma.pos ELSE BUF_LEN) - 1
      BY <2>1, <2>2, <2>3, <3>1, <3>2
    <3>4. tty + p - r.pos = tty + (p - r.pos)
      BY <2>2, <3>3
    <3> QED BY <2>4, <3>1, <3>3, <3>4 DEF Num
  <2> QED BY <2>5, <2>6
<1> QED BY <1>1, Invariance, PTL

(* The reader never passes the stream: stm32_receive() hands over no cell   *)
(* the stream has not written.                                              *)
THEOREM ReaderStaysBehind == Spec => []ReaderBehind
<1>1. IInv => ReaderBehind
  BY UnreadRange DEF IInv, ReaderBehind
<1> QED BY <1>1, Invariance, PTL

(* No character is lost between the line and the tty, however the register  *)
(* reads of stm32_receive() fall between the writes of the stream.          *)
THEOREM EveryCharAccounted == Spec => []NoCharMissed
<1>1. IInv => NoCharMissed
  <2> SUFFICES ASSUME IInv, phase = "open"
               PROVE  line.seq = (tty + Unread + (IF line.rdr = NONE THEN 0 ELSE 1)) % SeqMod
    BY DEF NoCharMissed
  <2>1. Unread \in Nat /\ tty \in Int
    BY UnreadRange DEF IInv, TypeOK, Seq
  <2>2. CASE line.rdr = NONE
    <3>1. tty + Unread + 0 = tty + Unread
      BY <2>1
    <3> QED BY <2>2, <3>1 DEF IInv, LineInv, Num
  <2>3. CASE line.rdr # NONE
    <3>1. tty + Unread + 1 = tty + (Unread + 1)
      BY <2>1
    <3> QED BY <2>3, <3>1 DEF IInv, LineInv, Num
  <2> QED BY <2>2, <2>3
<1> QED BY <1>1, Invariance, PTL

(* When the stream is off and its interrupts are served, stm_port_shutdown()*)
(* leaves no character behind.                                              *)
THEOREM ClosedDrained == Spec => []StoppedDrained
<1>1. IInv => StoppedDrained
  BY DEF IInv, StoppedInv, StoppedDrained
<1> QED BY <1>1, Invariance, PTL
=============================================================================
