----------------------------- MODULE MmciProofs -----------------------------
(***************************************************************************)
(* Proofs about the SD host driver in Mmci, for any buffers, any number of *)
(* retries and any modulus of the request numbers.                         *)
(***************************************************************************)
EXTENDS Mmci, TLAPS

(* No assertion has failed; the stream is the driver's and, when enabled,   *)
(* points to some buffer; only commands without data are retried.           *)
Basics ==
  /\ ~host.bug
  /\ stream.in_use
  /\ stream.en => stream.m0ar # NoBuf
  /\ core.retries > 0 => core.op = "none"

(* Outside of a request driver and controller are at rest. What the handler *)
(* of the last request left in the status word is gone once it has left.    *)
AtRest ==
  core.phase # "wait" =>
    /\ ~host.mrq /\ host.cmd = "none" /\ ~host.data
    /\ sd.cpsm = "off" /\ sd.dpsm = "off"
    /\ irq.pc = "off" => sd.status = {}

(* A data flag that is up, or read and not yet handled, is of the transfer  *)
(* under way; the card has accepted the command, and at DATAEND the data    *)
(* have moved.                                                              *)
OwnData(f) ==
  /\ f.n = core.n /\ host.data /\ sd.dpsm = "off" /\ core.accepted
  /\ f.ev = "end" => core.moved # NoBuf

DataInv ==
  core.phase = "wait" =>
    /\ host.data => core.op # "none" /\ host.cmd # "stop" /\ ~host.xfered
    /\ host.data /\ core.op = "write" => host.cmd # "cmd"
    /\ sd.dpsm # "off" => host.data /\ sd.dnum = core.n
    /\ \A f \in DataFlags(sd.status) : OwnData(f)
    /\ irq.pc = "data" =>
         \A f \in DataFlags(irq.st) : OwnData(f) /\ sd.status = {}

(* A command flag that is up, or read and not yet handled, answers the      *)
(* command under way; a command still in the controller has none. The       *)
(* exception is the stop command that the data part has just started: the   *)
(* flag read before it answers the command that the data belong to.         *)
OwnCmd(f) ==
  /\ f.n = core.n /\ f.of = host.cmd /\ sd.cpsm = "off"
  /\ f.of = "cmd" /\ f.ev = "ok" => core.accepted

CmdInv ==
  core.phase = "wait" =>
    /\ host.mrq
    /\ sd.cpsm # "off" => sd.cpsm = host.cmd /\ sd.cnum = core.n
    /\ sd.cpsm = "cmd" => ~core.accepted
    /\ \A f \in CmdFlags(sd.status) : OwnCmd(f)
    /\ irq.pc = "data" \/ (irq.pc = "cmd" /\ host.cmd = "cmd") =>
         \A f \in CmdFlags(irq.st) : OwnCmd(f) /\ CmdFlags(sd.status) = {}
    /\ irq.pc = "cmd" /\ host.cmd = "stop" =>
         \A f \in CmdFlags(irq.st) : f.n = core.n /\ (f.of = "stop" \/ DataFlags(irq.st) # {})

(* When the stop command is under way the data are settled.                 *)
Outcome ==
  /\ core.phase = "wait" =>
       /\ ~core.bytes
       /\ host.cmd = "stop" =>
            /\ core.op # "none"
            /\ core.derr \/ (core.moved # NoBuf /\ core.accepted)
            /\ host.xfered => core.moved # NoBuf
  /\ SuccessIsReal
  /\ BytesAreOwn

IInv == TypeOK /\ Basics /\ AtRest /\ DataInv /\ CmdInv /\ Outcome

-----------------------------------------------------------------------------
(* The functions of the driver, field by field.                             *)

CoreT == [phase : {"idle", "wait", "done"}, op : Ops, stop : BOOLEAN, buf : Buffers,
          retries : 0 .. MaxRetries, cerr : BOOLEAN, derr : BOOLEAN, serr : BOOLEAN,
          bytes : BOOLEAN, n : Nums, accepted : BOOLEAN, moved : Buffers \cup {NoBuf}]
HostT == [mrq : BOOLEAN, cmd : Cmds \cup {"none"}, data : BOOLEAN, xfered : BOOLEAN,
          bug : BOOLEAN]
SdT == [cpsm : Cmds \cup {"off"}, cnum : Nums, dpsm : {"off", "read", "write"},
        dnum : Nums, status : SUBSET Flags]
DevT == [core : CoreT, host : HostT, sd : SdT, stream : Stream]

LEMMA TypeParts ==
  TypeOK <=> /\ core \in CoreT /\ host \in HostT /\ sd \in SdT /\ stream \in Stream
             /\ irq \in [pc : {"off", "loop", "data", "cmd"}, st : SUBSET Flags]
  BY DEF TypeOK, CoreT, HostT, SdT

LEMMA DevType == TypeOK => Dev \in DevT
  BY TypeParts DEF Dev, DevT

LEMMA BecomesType ==
  ASSUME TypeOK, NEW d \in DevT, Becomes(d),
         irq' \in [pc : {"off", "loop", "data", "cmd"}, st : SUBSET Flags]
  PROVE  TypeOK'
<1>1. core' \in CoreT /\ host' \in HostT /\ sd' \in SdT /\ stream' \in Stream
  BY DEF Becomes, DevT
<1> QED BY <1>1, TypeParts DEF TypeOK, CoreT, HostT, SdT

(* A stream the driver owns is started on the buffer, or was still running. *)
LEMMA DmaStart ==
  ASSUME NEW s \in Stream, s.in_use, s.en => s.m0ar # NoBuf,
         NEW dir \in Dirs, NEW buf \in Buffers
  PROVE  LET t == mmc_dma_start(s, dir, buf)
         IN  t \in Stream /\ t.in_use /\ t.en /\ t.m0ar # NoBuf
  BY BufferAssumption
     DEF Stream, mmc_dma_start, NotAcquired, Denied, ch_init, ch_set_memory, ch_enable

StreamOk(s) == s \in Stream /\ s.in_use /\ (s.en => s.m0ar # NoBuf)

LEMMA StartData ==
  ASSUME NEW d \in DevT, StreamOk(d.stream), d.core.op # "none"
  PROVE  LET e == mmci_start_data(d)
         IN  /\ e \in DevT /\ StreamOk(e.stream)
             /\ e.core = d.core
             /\ e.host = [d.host EXCEPT !.data = TRUE, !.xfered = FALSE]
             /\ e.sd = [d.sd EXCEPT !.dpsm = d.core.op, !.dnum = d.core.n]
<1> DEFINE dir == IF d.core.op = "read" THEN "p2m" ELSE "m2p"
           t == mmc_dma_start(d.stream, dir, d.core.buf)
           e == mmci_start_data(d)
<1>1. dir \in Dirs /\ d.core.buf \in Buffers /\ d.core.op \in {"read", "write"} /\ d.core.n \in Nums
  BY DEF Dirs, DevT, CoreT, Ops
<1>2. t \in Stream /\ StreamOk(t)
  BY <1>1, DmaStart DEF StreamOk
<1> HIDE DEF t
<1>3. e = [d EXCEPT !.host = [d.host EXCEPT !.data = TRUE, !.xfered = FALSE],
                    !.sd = [d.sd EXCEPT !.dpsm = d.core.op, !.dnum = d.core.n],
                    !.stream = t]
  BY DEF mmci_start_data, t, DevT, HostT, SdT
<1> HIDE DEF e, dir
<1>4. e.core = d.core /\ e.stream = t
      /\ e.host = [d.host EXCEPT !.data = TRUE, !.xfered = FALSE]
      /\ e.sd = [d.sd EXCEPT !.dpsm = d.core.op, !.dnum = d.core.n]
  BY <1>3 DEF DevT
<1>5. e \in DevT
  BY <1>1, <1>2, <1>3 DEF DevT, HostT, SdT
<1> QED BY <1>2, <1>4, <1>5 DEF e

LEMMA StopData ==
  ASSUME NEW d \in DevT
  PROVE  LET e == mmci_stop_data(d)
         IN  /\ e \in DevT /\ e.stream = d.stream /\ e.core = d.core
             /\ e.host = [d.host EXCEPT !.data = FALSE]
             /\ e.sd = [d.sd EXCEPT !.dpsm = "off"]
  BY DEF mmci_stop_data, DevT, HostT, SdT

LEMMA StartCommand ==
  ASSUME NEW d \in DevT, NEW c \in Cmds
  PROVE  LET e == mmci_start_command(d, c)
         IN  /\ e \in DevT /\ e.stream = d.stream /\ e.core = d.core
             /\ e.host = [d.host EXCEPT !.cmd = c]
             /\ e.sd = [d.sd EXCEPT !.cpsm = c, !.cnum = d.core.n]
<1>1. d.core.n \in Nums
  BY DEF DevT, CoreT
<1> QED BY <1>1 DEF mmci_start_command, DevT, HostT, SdT

LEMMA NextNum == \A k \in Nums : (k + 1) % NumMod \in Nums
  BY NumAssumption DEF Nums

(* A command is under way, and for a read its data path.                    *)
LEMMA Request ==
  ASSUME NEW d \in DevT, StreamOk(d.stream)
  PROVE  LET e == mmci_request(d)
         IN  /\ e \in DevT /\ StreamOk(e.stream)
             /\ e.core = [d.core EXCEPT !.n = (@ + 1) % NumMod, !.accepted = FALSE]
             /\ e.host.bug = (d.host.bug \/ d.host.mrq)
             /\ e.host.mrq /\ e.host.cmd = "cmd"
             /\ e.host.data = (d.host.data \/ d.core.op = "read")
             /\ e.host.xfered = (d.host.xfered /\ d.core.op # "read")
             /\ e.sd.cpsm = "cmd" /\ e.sd.cnum = e.core.n /\ e.sd.status = d.sd.status
             /\ e.sd.dpsm = (IF d.core.op = "read" THEN "read" ELSE d.sd.dpsm)
             /\ d.core.op = "read" => e.sd.dnum = e.core.n
<1> DEFINE s == [d EXCEPT !.host.bug = @ \/ d.host.mrq, !.host.mrq = TRUE,
                          !.core.n = (@ + 1) % NumMod, !.core.accepted = FALSE]
           u == IF d.core.op = "read" THEN mmci_start_data(s) ELSE s
           e == mmci_request(d)
<1>1. /\ s \in DevT
      /\ s.core = [d.core EXCEPT !.n = (@ + 1) % NumMod, !.accepted = FALSE]
      /\ s.host = [d.host EXCEPT !.bug = @ \/ d.host.mrq, !.mrq = TRUE]
      /\ s.sd = d.sd /\ s.stream = d.stream
  <2>1. (d.core.n + 1) % NumMod \in Nums
    BY NextNum DEF DevT, CoreT
  <2> QED BY <2>1 DEF DevT, CoreT, HostT
<1> HIDE DEF s
<1>2. e = mmci_start_command(u, "cmd")
  BY DEF mmci_request, s
<1>3. s.core.op = d.core.op /\ StreamOk(s.stream)
  BY <1>1 DEF DevT, CoreT
<1>4. /\ u \in DevT /\ StreamOk(u.stream) /\ u.core = s.core
      /\ u.host = IF d.core.op = "read" THEN [s.host EXCEPT !.data = TRUE, !.xfered = FALSE]
                                        ELSE s.host
      /\ u.sd = IF d.core.op = "read" THEN [s.sd EXCEPT !.dpsm = s.core.op, !.dnum = s.core.n]
                                      ELSE s.sd
  BY <1>1, <1>3, StartData
<1> HIDE DEF u, e
<1>5. /\ e \in DevT /\ StreamOk(e.stream) /\ e.core = u.core
      /\ e.host = [u.host EXCEPT !.cmd = "cmd"]
      /\ e.sd = [u.sd EXCEPT !.cpsm = "cmd", !.cnum = u.core.n]
  BY <1>2, <1>4, StartCommand DEF Cmds
<1>6. /\ e.core = [d.core EXCEPT !.n = (@ + 1) % NumMod, !.accepted = FALSE]
      /\ e.core.n = u.core.n
  BY <1>1, <1>4, <1>5
<1>7. /\ e.sd.cpsm = "cmd" /\ e.sd.cnum = e.core.n /\ e.sd.status = d.sd.status
      /\ e.sd.dpsm = (IF d.core.op = "read" THEN "read" ELSE d.sd.dpsm)
      /\ d.core.op = "read" => e.sd.dnum = e.core.n
  BY <1>1, <1>3, <1>4, <1>5, <1>6 DEF DevT, SdT
<1>8. /\ e.host.bug = (d.host.bug \/ d.host.mrq)
      /\ e.host.mrq /\ e.host.cmd = "cmd"
      /\ e.host.data = (d.host.data \/ d.core.op = "read")
      /\ e.host.xfered = (d.host.xfered /\ d.core.op # "read")
  <2>1. /\ s.host.bug = (d.host.bug \/ d.host.mrq) /\ s.host.mrq
        /\ s.host.data = d.host.data /\ s.host.xfered = d.host.xfered
    BY <1>1 DEF DevT, HostT
  <2>2. /\ e.host.bug = s.host.bug /\ e.host.mrq = s.host.mrq /\ e.host.cmd = "cmd"
        /\ d.core.op = "read" => e.host.data = TRUE /\ e.host.xfered = FALSE
        /\ d.core.op # "read" => e.host.data = s.host.data /\ e.host.xfered = s.host.xfered
    <3>1. s.host \in HostT /\ u.host \in HostT
      BY <1>1, <1>4 DEF DevT
    <3>2. CASE d.core.op = "read"
      <4>1. u.host = [s.host EXCEPT !.data = TRUE, !.xfered = FALSE]
        BY <1>4, <3>2
      <4> QED BY <3>1, <3>2, <4>1, <1>5 DEF HostT
    <3>3. CASE d.core.op # "read"
      <4>1. u.host = s.host
        BY <1>4, <3>3
      <4> QED BY <3>1, <3>3, <4>1, <1>5 DEF HostT
    <3> QED BY <3>2, <3>3
  <2>3. d.host.data \in BOOLEAN /\ d.host.xfered \in BOOLEAN
    BY DEF DevT, HostT
  <2> QED BY <2>1, <2>2, <2>3
<1> QED BY <1>5, <1>6, <1>7, <1>8 DEF e

(* The request is over, or tried again under a new number.                  *)
Retried(d) == d.core.cerr /\ d.core.retries > 0

LEMMA RequestDone ==
  ASSUME NEW d \in DevT, StreamOk(d.stream), d.core.retries > 0 => d.core.op = "none"
  PROVE  LET e == mmc_request_done(d)
         IN  /\ e \in DevT /\ StreamOk(e.stream)
             /\ ~Retried(d) => e = [d EXCEPT !.core = [d.core EXCEPT !.phase = "done"]]
             /\ Retried(d) =>
                  /\ e.core = [d.core EXCEPT !.retries = @ - 1, !.cerr = FALSE,
                                             !.n = (@ + 1) % NumMod, !.accepted = FALSE]
                  /\ e.host.bug = (d.host.bug \/ d.host.mrq)
                  /\ e.host.mrq /\ e.host.cmd = "cmd"
                  /\ e.host.data = d.host.data
                  /\ e.host.xfered = d.host.xfered
                  /\ e.sd.cpsm = "cmd" /\ e.sd.cnum = e.core.n /\ e.sd.status = d.sd.status
                  /\ e.sd.dpsm = d.sd.dpsm
<1> DEFINE r == [d EXCEPT !.core.retries = @ - 1, !.core.cerr = FALSE]
           e == mmc_request_done(d)
<1>1. CASE ~Retried(d)
  <2>1. e = [d EXCEPT !.core = [d.core EXCEPT !.phase = "done"]]
    BY <1>1 DEF mmc_request_done, Retried
  <2>2. e \in DevT /\ e.stream = d.stream
    BY <2>1 DEF DevT, CoreT
  <2> QED BY <1>1, <2>1, <2>2
<1>2. CASE Retried(d)
  <2>1. d.core.retries - 1 \in 0 .. MaxRetries /\ d.core.op = "none"
    BY <1>2, RetriesAssumption DEF Retried, DevT, CoreT
  <2>2. /\ r \in DevT /\ r.host = d.host /\ r.sd = d.sd /\ r.stream = d.stream
        /\ r.core = [d.core EXCEPT !.retries = @ - 1, !.cerr = FALSE]
    BY <2>1 DEF DevT, CoreT
  <2>3. e = mmci_request(r)
    BY <1>2 DEF mmc_request_done, Retried
  <2> HIDE DEF r, e
  <2>4. r.core.op = "none" /\ StreamOk(r.stream)
    BY <2>1, <2>2 DEF DevT, CoreT
  <2>5. /\ e \in DevT /\ StreamOk(e.stream)
        /\ e.core = [r.core EXCEPT !.n = (@ + 1) % NumMod, !.accepted = FALSE]
        /\ e.host.bug = (r.host.bug \/ r.host.mrq)
        /\ e.host.mrq /\ e.host.cmd = "cmd"
        /\ e.host.data = (r.host.data \/ r.core.op = "read")
        /\ e.host.xfered = (r.host.xfered /\ r.core.op # "read")
        /\ e.sd.cpsm = "cmd" /\ e.sd.cnum = e.core.n /\ e.sd.status = r.sd.status
        /\ e.sd.dpsm = (IF r.core.op = "read" THEN "read" ELSE r.sd.dpsm)
    BY <2>2, <2>3, <2>4, Request
  <2> QED BY <1>2, <2>2, <2>4, <2>5 DEF e, DevT, CoreT, HostT
<1> QED BY <1>1, <1>2

(* What the end of a request leaves, when the data path is already stopped. *)
Ended(d, e) ==
  /\ e.core.phase = "done"
  /\ e.core.op = d.core.op /\ e.core.retries = d.core.retries
  /\ e.core.cerr = d.core.cerr /\ e.core.derr = d.core.derr
  /\ e.core.n = d.core.n /\ e.core.accepted = d.core.accepted /\ e.core.moved = d.core.moved
  /\ e.core.bytes => d.core.bytes \/ (d.core.op # "none" /\ d.host.xfered)
  /\ ~e.host.bug /\ ~e.host.mrq /\ e.host.cmd = "none" /\ ~e.host.data
  /\ e.sd.cpsm = "off" /\ e.sd.dpsm = "off" /\ e.sd.status = d.sd.status

TriedAgain(d, e) ==
  /\ d.core.cerr /\ e.core.phase = d.core.phase
  /\ d.core.op = "none" /\ e.core.op = "none"
  /\ e.core.moved = d.core.moved /\ (e.core.bytes => d.core.bytes)
  /\ ~e.core.accepted
  /\ ~e.host.bug /\ e.host.mrq /\ e.host.cmd = "cmd" /\ ~e.host.data
  /\ e.sd.cpsm = "cmd" /\ e.sd.cnum = e.core.n
  /\ e.sd.dpsm = "off" /\ e.sd.status = d.sd.status

LEMMA RequestEnd ==
  ASSUME NEW d \in DevT, StreamOk(d.stream), d.core.retries > 0 => d.core.op = "none",
         ~d.host.bug, ~d.host.data, d.sd.dpsm = "off"
  PROVE  LET e == mmci_request_end(d)
         IN  e \in DevT /\ StreamOk(e.stream) /\ (Ended(d, e) \/ TriedAgain(d, e))
<1> DEFINE b == d.core.bytes \/ (d.core.op # "none" /\ d.host.xfered)
           c == [d EXCEPT !.sd.cpsm = "off", !.host.bug = @ \/ d.host.data, !.host.mrq = FALSE,
                          !.host.cmd = "none", !.core.bytes = b]
           e == mmci_request_end(d)
<1>1. /\ c \in DevT
      /\ c.core = [d.core EXCEPT !.bytes = b]
      /\ c.host = [d.host EXCEPT !.bug = @ \/ d.host.data, !.mrq = FALSE, !.cmd = "none"]
      /\ c.sd = [d.sd EXCEPT !.cpsm = "off"] /\ c.stream = d.stream
  BY DEF DevT, CoreT, HostT, SdT
<1>2. e = mmc_request_done(c)
  BY DEF mmci_request_end
<1> HIDE DEF c
<1>3. /\ d.core \in CoreT /\ d.host \in HostT /\ d.sd \in SdT
      /\ c.core \in CoreT /\ c.host \in HostT /\ c.sd \in SdT
  BY <1>1 DEF DevT
<1>4. /\ c.core.phase = d.core.phase /\ c.core.op = d.core.op
      /\ c.core.retries = d.core.retries
      /\ c.core.cerr = d.core.cerr /\ c.core.derr = d.core.derr
      /\ c.core.n = d.core.n /\ c.core.accepted = d.core.accepted
      /\ c.core.moved = d.core.moved
      /\ c.core.bytes = b
  BY <1>1, <1>3 DEF CoreT
<1>5. ~c.host.bug /\ ~c.host.mrq /\ c.host.cmd = "none" /\ ~c.host.data
  BY <1>1, <1>3 DEF HostT
<1>6. c.sd.cpsm = "off" /\ c.sd.dpsm = "off" /\ c.sd.status = d.sd.status
  BY <1>1, <1>3 DEF SdT
<1>7. StreamOk(c.stream) /\ (c.core.retries > 0 => c.core.op = "none")
  BY <1>1, <1>4
<1> HIDE DEF e, b
<1>8. e \in DevT /\ StreamOk(e.stream)
  BY <1>1, <1>2, <1>7, RequestDone
<1>9. CASE ~Retried(c)
  <2>1. e = [c EXCEPT !.core = [c.core EXCEPT !.phase = "done"]]
    BY <1>1, <1>2, <1>7, <1>9, RequestDone
  <2>2. e.core = [c.core EXCEPT !.phase = "done"] /\ e.host = c.host /\ e.sd = c.sd
    BY <1>1, <2>1 DEF DevT
  <2>3. /\ e.core.phase = "done" /\ e.core.op = c.core.op /\ e.core.retries = c.core.retries
        /\ e.core.cerr = c.core.cerr /\ e.core.derr = c.core.derr
        /\ e.core.n = c.core.n /\ e.core.accepted = c.core.accepted
        /\ e.core.moved = c.core.moved /\ e.core.bytes = c.core.bytes
    BY <1>3, <2>2 DEF CoreT
  <2>4. e.core.bytes => d.core.bytes \/ (d.core.op # "none" /\ d.host.xfered)
    BY <1>4, <2>3 DEF b
  <2>5. Ended(d, e)
    BY <1>4, <1>5, <1>6, <2>2, <2>3, <2>4 DEF Ended
  <2> QED BY <1>8, <2>5 DEF e
<1>10. CASE Retried(c)
  <2>1. /\ e.core = [c.core EXCEPT !.retries = @ - 1, !.cerr = FALSE,
                                   !.n = (@ + 1) % NumMod, !.accepted = FALSE]
        /\ e.host.bug = (c.host.bug \/ c.host.mrq)
        /\ e.host.mrq /\ e.host.cmd = "cmd"
        /\ e.host.data = c.host.data
        /\ e.sd.cpsm = "cmd" /\ e.sd.cnum = e.core.n /\ e.sd.status = c.sd.status
        /\ e.sd.dpsm = c.sd.dpsm
    BY <1>1, <1>2, <1>7, <1>10, RequestDone
  <2>2. /\ e.core.phase = c.core.phase /\ e.core.op = c.core.op /\ e.core.moved = c.core.moved
        /\ e.core.bytes = c.core.bytes /\ ~e.core.accepted
    BY <1>3, <2>1 DEF CoreT
  <2>3. c.core.cerr /\ c.core.op = "none"
    BY <1>7, <1>10 DEF Retried
  <2>4. c.core.bytes => d.core.bytes
    BY <1>4, <2>3 DEF b
  <2>5. d.core.cerr /\ (e.core.bytes => d.core.bytes)
    BY <1>4, <2>2, <2>3, <2>4, Zenon
  <2>6. ~e.host.bug /\ ~e.host.data
    BY <1>5, <2>1, Zenon
  <2>7. /\ e.host.mrq /\ e.host.cmd = "cmd" /\ e.sd.cpsm = "cmd" /\ e.sd.cnum = e.core.n
        /\ e.sd.dpsm = "off" /\ e.sd.status = d.sd.status
    BY <1>6, <2>1
  <2>8. TriedAgain(d, e)
    BY <1>4, <2>2, <2>3, <2>5, <2>6, <2>7, Zenon DEF TriedAgain
  <2> QED BY <1>8, <2>8 DEF e
<1> QED BY <1>9, <1>10

(* The data part of the handler: the transfer is over, then the stop        *)
(* command or the end of the request.                                       *)
HasEnd(st)   == \E f \in DataFlags(st) : f.ev = "end"
HasError(st) == \E f \in DataFlags(st) : f.ev = "error"

DataStopped(d, st) ==
  mmci_stop_data([d EXCEPT !.host.xfered = @ \/ HasEnd(st), !.core.derr = @ \/ HasError(st),
                           !.stream = ch_disable(@)])

LEMMA DataIrqForm ==
  ASSUME NEW d, NEW st
  PROVE  mmci_data_irq(d, st) = IF d.core.stop THEN mmci_start_command(DataStopped(d, st), "stop")
                                               ELSE mmci_request_end(DataStopped(d, st))
  BY DEF mmci_data_irq, DataStopped, HasEnd, HasError

LEMMA Disable ==
  ASSUME NEW s, StreamOk(s)
  PROVE  StreamOk(ch_disable(s))
  BY DEF StreamOk, Stream, NotAcquired, ch_disable

LEMMA DataStoppedForm ==
  ASSUME NEW d \in DevT, StreamOk(d.stream), NEW st
  PROVE  LET e == DataStopped(d, st)
         IN  /\ e \in DevT /\ StreamOk(e.stream)
             /\ e.core = [d.core EXCEPT !.derr = @ \/ HasError(st)]
             /\ e.host = [d.host EXCEPT !.xfered = @ \/ HasEnd(st), !.data = FALSE]
             /\ e.sd = [d.sd EXCEPT !.dpsm = "off"]
<1> DEFINE x == d.host.xfered \/ HasEnd(st)
           r == d.core.derr \/ HasError(st)
           t == ch_disable(d.stream)
           c == [d EXCEPT !.host.xfered = x, !.core.derr = r, !.stream = t]
<1>1. x \in BOOLEAN /\ r \in BOOLEAN /\ StreamOk(t) /\ t \in Stream
  BY Disable DEF StreamOk
<1>2. /\ DataStopped(d, st) = mmci_stop_data(c)
      /\ [d.core EXCEPT !.derr = @ \/ HasError(st)] = [d.core EXCEPT !.derr = r]
  BY DEF DataStopped
<1> HIDE DEF x, r, t
<1>3. /\ c \in DevT /\ c.core = [d.core EXCEPT !.derr = r] /\ c.stream = t
      /\ c.host = [d.host EXCEPT !.xfered = x] /\ c.sd = d.sd
  BY <1>1 DEF DevT, CoreT, HostT
<1> HIDE DEF c
<1>4. /\ mmci_stop_data(c) \in DevT /\ mmci_stop_data(c).stream = t
      /\ mmci_stop_data(c).core = c.core
      /\ mmci_stop_data(c).host = [c.host EXCEPT !.data = FALSE]
      /\ mmci_stop_data(c).sd = [c.sd EXCEPT !.dpsm = "off"]
  BY <1>3, StopData
<1> QED BY <1>1, <1>2, <1>3, <1>4 DEF x, DevT, HostT

(* The command part: the answer is noted.                                   *)
HasFail(st) == \E f \in CmdFlags(st) : f.ev = "fail"

CmdTaken(d, st) ==
  [d EXCEPT !.host.cmd = "none",
            !.core.cerr = @ \/ (d.host.cmd = "cmd" /\ HasFail(st)),
            !.core.serr = @ \/ (d.host.cmd = "stop" /\ HasFail(st))]

LEMMA CmdIrqForm ==
  ASSUME NEW d, NEW st
  PROVE  mmci_cmd_irq(d, st) =
           IF d.host.cmd = "stop" \/ d.core.op = "none" \/ HasFail(st)
           THEN mmci_request_end(IF d.host.data THEN mmci_stop_data(CmdTaken(d, st))
                                                ELSE CmdTaken(d, st))
           ELSE IF d.core.op = "write" THEN mmci_start_data(CmdTaken(d, st)) ELSE CmdTaken(d, st)
  BY DEF mmci_cmd_irq, CmdTaken, HasFail

LEMMA CmdTakenForm ==
  ASSUME NEW d \in DevT, NEW st
  PROVE  LET e == CmdTaken(d, st)
         IN  /\ e \in DevT /\ e.stream = d.stream /\ e.sd = d.sd
             /\ e.host = [d.host EXCEPT !.cmd = "none"]
             /\ e.core = [d.core EXCEPT !.cerr = @ \/ (d.host.cmd = "cmd" /\ HasFail(st)),
                                        !.serr = @ \/ (d.host.cmd = "stop" /\ HasFail(st))]
<1> DEFINE c == d.core.cerr \/ (d.host.cmd = "cmd" /\ HasFail(st))
           s == d.core.serr \/ (d.host.cmd = "stop" /\ HasFail(st))
           e == [d EXCEPT !.host.cmd = "none", !.core.cerr = c, !.core.serr = s]
<1>1. c \in BOOLEAN /\ s \in BOOLEAN
  OBVIOUS
<1>2. e = CmdTaken(d, st)
  BY DEF CmdTaken, DevT, CoreT, HostT
<1> HIDE DEF c, s
<1>3. /\ e \in DevT /\ e.stream = d.stream /\ e.sd = d.sd
      /\ e.host = [d.host EXCEPT !.cmd = "none"]
      /\ e.core = [d.core EXCEPT !.cerr = c, !.serr = s]
  BY <1>1 DEF DevT, CoreT, HostT
<1> HIDE DEF e
<1> QED BY <1>2, <1>3 DEF c, s, DevT, CoreT

-----------------------------------------------------------------------------
(* Every step preserves the invariant.                                      *)

IrqT == [pc : {"off", "loop", "data", "cmd"}, st : SUBSET Flags]

LEMMA ReturnStep == IInv /\ Return => IInv'
<1> SUFFICES ASSUME IInv, Return PROVE IInv'
  OBVIOUS
<1>1. /\ core \in CoreT /\ host \in HostT /\ sd \in SdT /\ stream \in Stream /\ irq \in IrqT
  BY TypeParts DEF IInv, IrqT
<1>2. /\ core' = [core EXCEPT !.phase = "idle"] /\ core.phase = "done"
      /\ UNCHANGED <<host, sd, stream, irq>>
  BY DEF Return
<1>3. /\ core' \in CoreT /\ core'.phase = "idle"
      /\ core'.retries = core.retries /\ core'.op = core.op
  BY <1>1, <1>2 DEF CoreT
<1>4. TypeOK'
  BY <1>1, <1>2, <1>3, TypeParts DEF TypeOK, CoreT, HostT, SdT, IrqT
<1>5. Basics' /\ AtRest'
  BY <1>2, <1>3 DEF IInv, Basics, AtRest
<1>6. DataInv' /\ CmdInv' /\ Outcome'
  BY <1>3 DEF DataInv, CmdInv, Outcome, SuccessIsReal, BytesAreOwn
<1> QED BY <1>4, <1>5, <1>6 DEF IInv

LEMMA CommandAnsweredStep == IInv /\ CommandAnswered => IInv'
<1> SUFFICES ASSUME IInv, CommandAnswered PROVE IInv'
  OBVIOUS
<1>1. /\ core \in CoreT /\ host \in HostT /\ sd \in SdT /\ stream \in Stream /\ irq \in IrqT
  BY TypeParts DEF IInv, IrqT
<1>2. PICK ev \in {"ok", "fail"}, accepted \in BOOLEAN :
        /\ sd.cpsm # "off"
        /\ ev = "ok" => accepted
        /\ sd' = [sd EXCEPT !.cpsm = "off",
                            !.status = @ \cup {[ev |-> ev, of |-> sd.cpsm, n |-> sd.cnum]}]
        /\ core' = IF sd.cpsm = "cmd" THEN [core EXCEPT !.accepted = accepted] ELSE core
        /\ UNCHANGED <<host, stream, irq>>
  BY DEF CommandAnswered
<1>3. PICK g : g = [ev |-> ev, of |-> sd.cpsm, n |-> sd.cnum]
  OBVIOUS
<1>4. /\ g \in Flags /\ g.of \in Cmds /\ g.of = sd.cpsm /\ g.n = sd.cnum /\ g.ev = ev
      /\ g.of # "data"
  BY <1>1, <1>2, <1>3 DEF SdT, Flags, Cmds
<1>5. /\ sd' \in SdT /\ sd'.cpsm = "off" /\ sd'.status = sd.status \cup {g}
      /\ sd'.dpsm = sd.dpsm /\ sd'.cnum = sd.cnum /\ sd'.dnum = sd.dnum
  BY <1>1, <1>2, <1>4, <1>3 DEF SdT
<1>6. /\ core' \in CoreT
      /\ core'.phase = core.phase /\ core'.op = core.op /\ core'.retries = core.retries
      /\ core'.n = core.n /\ core'.moved = core.moved /\ core'.derr = core.derr
      /\ core'.bytes = core.bytes /\ core'.cerr = core.cerr
      /\ sd.cpsm = "cmd" => core'.accepted = accepted
      /\ sd.cpsm # "cmd" => core'.accepted = core.accepted
  <2>1. CASE sd.cpsm = "cmd"
    <3>1. core' = [core EXCEPT !.accepted = accepted]
      BY <1>2, <2>1
    <3> QED BY <1>1, <2>1, <3>1 DEF CoreT
  <2>2. CASE sd.cpsm # "cmd"
    <3>1. core' = core
      BY <1>2, <2>2
    <3> QED BY <1>1, <2>2, <3>1
  <2> QED BY <2>1, <2>2
<1>7. core.phase = "wait" /\ sd.cpsm = host.cmd /\ sd.cnum = core.n
  BY <1>1, <1>2 DEF IInv, AtRest, CmdInv, CoreT
<1>8. TypeOK'
  BY <1>1, <1>2, <1>5, <1>6, TypeParts DEF TypeOK, CoreT, HostT, SdT, IrqT
<1>9. Basics' /\ AtRest'
  BY <1>2, <1>6, <1>7 DEF IInv, Basics, AtRest
<1>10. DataFlags(sd.status)' = DataFlags(sd.status)
  BY <1>4, <1>5 DEF DataFlags
<1>11. \A f \in DataFlags(sd.status) : core.accepted /\ host.cmd # "stop"
  BY <1>7 DEF IInv, DataInv, OwnData
<1>12. sd.cpsm = "cmd" => ~core.accepted
  BY <1>7 DEF IInv, CmdInv
<1>13. sd.cpsm \in {"cmd", "stop"}
  BY <1>1, <1>2 DEF SdT, Cmds
<1>14. DataFlags(sd.status) = {}
  BY <1>7, <1>11, <1>12, <1>13
<1>15. irq.pc = "data" => DataFlags(irq.st) = {}
  BY <1>7, <1>12, <1>13 DEF IInv, DataInv, OwnData
<1>16. DataInv'
  BY <1>2, <1>5, <1>6, <1>7, <1>10, <1>14, <1>15 DEF IInv, DataInv, OwnData
<1>17. /\ CmdFlags(sd.status) = {}
       /\ irq.pc = "data" \/ (irq.pc = "cmd" /\ host.cmd = "cmd") => CmdFlags(irq.st) = {}
  BY <1>2, <1>7 DEF IInv, CmdInv, OwnCmd
<1>18. CmdFlags(sd.status)' = {g}
  BY <1>4, <1>5, <1>17 DEF CmdFlags
<1>19. g.of = "cmd" /\ g.ev = "ok" => core'.accepted
  BY <1>2, <1>4, <1>6
<1>20. OwnCmd(g)'
  BY <1>2, <1>4, <1>5, <1>6, <1>7, <1>19 DEF OwnCmd
<1>21. CmdInv'
  <2>1. /\ core'.phase = "wait" /\ host'.mrq /\ irq' = irq /\ host' = host /\ core'.n = core.n
    BY <1>2, <1>6, <1>7 DEF IInv, CmdInv
  <2>2. irq.pc = "cmd" /\ host.cmd = "stop" =>
         \A f \in CmdFlags(irq.st) : f.n = core.n /\ (f.of = "stop" \/ DataFlags(irq.st) # {})
    BY <1>7 DEF IInv, CmdInv
  <2> QED BY <1>5, <1>17, <1>18, <1>20, <2>1, <2>2 DEF CmdInv
<1>22. Outcome'
  BY <1>2, <1>6, <1>7, <1>13 DEF IInv, Outcome, SuccessIsReal, BytesAreOwn
<1> QED BY <1>8, <1>9, <1>16, <1>21, <1>22 DEF IInv

(* The end of the data, good or bad.                                        *)
LEMMA DataOverStep == IInv /\ (DataMoved \/ DataFails) => IInv'
<1> SUFFICES ASSUME IInv, DataMoved \/ DataFails PROVE IInv'
  OBVIOUS
<1>1. /\ core \in CoreT /\ host \in HostT /\ sd \in SdT /\ stream \in Stream /\ irq \in IrqT
  BY TypeParts DEF IInv, IrqT
<1>2. PICK ev \in {"end", "error"} :
        /\ sd.dpsm # "off" /\ core.accepted /\ UNCHANGED <<host, irq>>
        /\ sd' = [sd EXCEPT !.dpsm = "off",
                            !.status = @ \cup {[ev |-> ev, of |-> "data", n |-> sd.dnum]}]
        /\ ev = "end" => \E en \in BOOLEAN :
                            /\ stream.en
                            /\ core' = [core EXCEPT !.moved = stream.m0ar]
                            /\ stream' = [stream EXCEPT !.en = en]
        /\ ev = "error" => core' = core /\ stream' = stream
  BY DEF DataMoved, DataFails
<1>3. PICK g : g = [ev |-> ev, of |-> "data", n |-> sd.dnum]
  OBVIOUS
<1>4. g \in Flags /\ g.of = "data" /\ g.of \notin Cmds /\ g.n = sd.dnum /\ g.ev = ev
  BY <1>1, <1>2, <1>3 DEF SdT, Flags, Cmds
<1>5. /\ sd' \in SdT /\ sd'.dpsm = "off" /\ sd'.status = sd.status \cup {g}
      /\ sd'.cpsm = sd.cpsm /\ sd'.cnum = sd.cnum /\ sd'.dnum = sd.dnum
  BY <1>1, <1>2, <1>3, <1>4 DEF SdT
<1>6. /\ core' \in CoreT /\ stream' \in Stream /\ stream'.in_use = stream.in_use
      /\ stream'.en => stream'.m0ar # NoBuf
      /\ core'.phase = core.phase /\ core'.op = core.op /\ core'.retries = core.retries
      /\ core'.n = core.n /\ core'.accepted = core.accepted /\ core'.derr = core.derr
      /\ core'.bytes = core.bytes /\ core'.cerr = core.cerr
      /\ core'.moved = core.moved \/ core'.moved # NoBuf
      /\ ev = "end" => core'.moved # NoBuf
  <2>1. CASE ev = "end"
    <3>1. PICK en \in BOOLEAN : /\ stream.en
                                /\ core' = [core EXCEPT !.moved = stream.m0ar]
                                /\ stream' = [stream EXCEPT !.en = en]
      BY <1>2, <2>1
    <3>2. stream.m0ar # NoBuf /\ stream.m0ar \in Buffers \cup {NoBuf}
      BY <1>1, <3>1 DEF IInv, Basics, Stream
    <3>3. /\ stream' \in Stream /\ stream'.in_use = stream.in_use /\ stream'.m0ar = stream.m0ar
      BY <1>1, <3>1 DEF Stream
    <3> QED BY <1>1, <3>1, <3>2, <3>3 DEF CoreT
  <2>2. CASE ev = "error"
    BY <1>1, <1>2, <2>2 DEF IInv, Basics
  <2> QED BY <2>1, <2>2
<1>7. core.phase = "wait" /\ host.data /\ sd.dnum = core.n
  BY <1>1, <1>2 DEF IInv, AtRest, DataInv, CoreT
<1>8. TypeOK'
  BY <1>1, <1>2, <1>5, <1>6, TypeParts DEF TypeOK, CoreT, HostT, SdT, IrqT
<1>9. Basics' /\ AtRest'
  BY <1>2, <1>6, <1>7 DEF IInv, Basics, AtRest
<1>10. /\ DataFlags(sd.status) = {}
       /\ irq.pc = "data" => DataFlags(irq.st) = {}
  BY <1>2, <1>7 DEF IInv, DataInv, OwnData
<1>11. DataFlags(sd.status)' = {g} /\ CmdFlags(sd.status)' = CmdFlags(sd.status)
  BY <1>4, <1>5, <1>10 DEF DataFlags, CmdFlags
<1>12. OwnData(g)'
  BY <1>2, <1>4, <1>5, <1>6, <1>7 DEF OwnData
<1>13. DataInv'
  <2>1. host' = host /\ irq' = irq /\ core'.op = core.op /\ core'.phase = core.phase
    BY <1>2, <1>6
  <2>2. /\ host.data => core.op # "none" /\ host.cmd # "stop" /\ ~host.xfered
        /\ host.data /\ core.op = "write" => host.cmd # "cmd"
    BY <1>7 DEF IInv, DataInv
  <2> QED BY <1>5, <1>10, <1>11, <1>12, <2>1, <2>2 DEF DataInv
<1>14. CmdInv'
  <2>1. \A f : OwnCmd(f) => OwnCmd(f)'
    BY <1>2, <1>5, <1>6 DEF OwnCmd
  <2>2. /\ core'.phase = "wait" /\ host' = host /\ irq' = irq /\ core'.n = core.n
        /\ core'.accepted = core.accepted
    BY <1>2, <1>6, <1>7
  <2> QED BY <1>5, <1>7, <1>11, <2>1, <2>2 DEF IInv, CmdInv
<1>15. Outcome'
  BY <1>2, <1>6, <1>7 DEF IInv, Outcome, SuccessIsReal, BytesAreOwn
<1> QED BY <1>8, <1>9, <1>13, <1>14, <1>15 DEF IInv

LEMMA IrqReadStep == IInv /\ IrqRead => IInv'
<1> SUFFICES ASSUME IInv, IrqRead PROVE IInv'
  OBVIOUS
<1>1. /\ core \in CoreT /\ host \in HostT /\ sd \in SdT /\ stream \in Stream /\ irq \in IrqT
  BY TypeParts DEF IInv, IrqT
<1>2. /\ irq' = [pc |-> IF sd.status = {} THEN "off" ELSE "data", st |-> sd.status]
      /\ sd' = [sd EXCEPT !.status = {}]
      /\ UNCHANGED <<core, host, stream>>
  BY DEF IrqRead
<1>3. /\ irq' \in IrqT /\ irq'.pc \in {"off", "data"} /\ irq'.st = sd.status
      /\ irq'.pc = "off" => sd.status = {}
  BY <1>1, <1>2 DEF IrqT, SdT
<1>4. /\ sd' \in SdT /\ sd'.status = {} /\ sd'.dpsm = sd.dpsm /\ sd'.dnum = sd.dnum
      /\ sd'.cpsm = sd.cpsm /\ sd'.cnum = sd.cnum
  BY <1>1, <1>2 DEF SdT
<1>5. TypeOK'
  BY <1>1, <1>2, <1>3, <1>4, TypeParts DEF TypeOK, CoreT, HostT, SdT, IrqT
<1>6. Basics' /\ AtRest' /\ Outcome'
  BY <1>2, <1>4 DEF IInv, Basics, AtRest, Outcome, SuccessIsReal, BytesAreOwn
<1>7. DataFlags(sd.status)' = {} /\ CmdFlags(sd.status)' = {}
  BY <1>4 DEF DataFlags, CmdFlags
<1>8. \A f : (OwnData(f) => OwnData(f)') /\ (OwnCmd(f) => OwnCmd(f)')
  BY <1>2, <1>4 DEF OwnData, OwnCmd
<1>9. DataInv'
  BY <1>2, <1>3, <1>4, <1>7, <1>8 DEF IInv, DataInv
<1>10. CmdInv'
  BY <1>2, <1>3, <1>4, <1>7, <1>8 DEF IInv, CmdInv
<1> QED BY <1>5, <1>6, <1>9, <1>10 DEF IInv

(* A request as the core hands it over.                                     *)
LEMMA NewRequestForm ==
  ASSUME core \in CoreT, NEW op \in Ops, NEW stop \in BOOLEAN, NEW b \in Buffers,
         NEW retries \in 0 .. MaxRetries
  PROVE  LET c == NewRequest(op, stop, b, retries)
         IN  /\ c \in CoreT /\ c.phase = "wait" /\ c.op = op /\ c.retries = retries
             /\ ~c.bytes
<1> DEFINE c == NewRequest(op, stop, b, retries)
<1>1. c \in CoreT
  BY DEF NewRequest, CoreT
<1>2. c.phase = "wait" /\ c.op = op /\ c.retries = retries /\ ~c.bytes
  BY DEF NewRequest, CoreT
<1> QED BY <1>1, <1>2

LEMMA SubmitRefusedStep == IInv /\ SubmitRefused => IInv'
<1> SUFFICES ASSUME IInv, SubmitRefused PROVE IInv'
  OBVIOUS
<1>1. /\ core \in CoreT /\ host \in HostT /\ sd \in SdT /\ stream \in Stream /\ irq \in IrqT
  BY TypeParts DEF IInv, IrqT
<1>2. PICK op \in Ops \ {"none"}, b \in Buffers :
        /\ core.phase = "idle" /\ irq.pc = "off"
        /\ core' = [NewRequest(op, FALSE, b, 0) EXCEPT !.cerr = TRUE, !.phase = "done"]
        /\ UNCHANGED <<host, sd, stream, irq>>
  BY DEF SubmitRefused
<1>3. 0 \in 0 .. MaxRetries
  BY RetriesAssumption
<1>4. core' \in CoreT /\ core'.phase = "done" /\ core'.cerr /\ core'.retries = 0
  <2> DEFINE c == NewRequest(op, FALSE, b, 0)
  <2>1. c \in CoreT /\ c.retries = 0
    BY <1>1, <1>3, NewRequestForm
  <2> HIDE DEF c
  <2>2. core' = [c EXCEPT !.cerr = TRUE, !.phase = "done"]
    BY <1>2 DEF c
  <2> QED BY <2>1, <2>2 DEF CoreT
<1>5. TypeOK'
  BY <1>1, <1>2, <1>4, TypeParts DEF TypeOK, CoreT, HostT, SdT, IrqT
<1>6. core.phase # "wait" /\ host' = host /\ sd' = sd /\ stream' = stream /\ irq' = irq
  BY <1>2
<1>7. ~(core'.retries > 0)
  BY <1>4
<1>8. Basics' /\ AtRest'
  BY <1>6, <1>7 DEF IInv, Basics, AtRest
<1>9. DataInv' /\ CmdInv' /\ Outcome'
  BY <1>4 DEF DataInv, CmdInv, Outcome, SuccessIsReal, BytesAreOwn
<1> QED BY <1>5, <1>8, <1>9 DEF IInv

LEMMA SubmitStep == IInv /\ Submit => IInv'
<1> SUFFICES ASSUME IInv, Submit PROVE IInv'
  OBVIOUS
<1>1. /\ core \in CoreT /\ host \in HostT /\ sd \in SdT /\ stream \in Stream /\ irq \in IrqT
  BY TypeParts DEF IInv, IrqT
<1>2. PICK op \in Ops, stop \in BOOLEAN, b \in Buffers, retries \in 0 .. MaxRetries :
        /\ core.phase = "idle" /\ irq.pc = "off"
        /\ op # "none" => retries = 0
        /\ Becomes(mmci_request([Dev EXCEPT !.core = NewRequest(op, stop, b, retries)]))
        /\ UNCHANGED irq
  BY DEF Submit
<1> DEFINE c == NewRequest(op, stop, b, retries)
           d == [Dev EXCEPT !.core = c]
           e == mmci_request(d)
<1>3. c \in CoreT /\ c.phase = "wait" /\ c.op = op /\ c.retries = retries /\ ~c.bytes
  BY <1>1, NewRequestForm
<1> HIDE DEF c
<1>4. /\ d \in DevT /\ d.core = c /\ d.host = host /\ d.sd = sd /\ d.stream = stream
  BY <1>1, <1>3 DEF Dev, DevT
<1> HIDE DEF d
<1>5. StreamOk(d.stream)
  BY <1>1, <1>4 DEF IInv, Basics, StreamOk
<1>6. /\ e \in DevT /\ StreamOk(e.stream)
      /\ e.core = [d.core EXCEPT !.n = (@ + 1) % NumMod, !.accepted = FALSE]
      /\ e.host.bug = (d.host.bug \/ d.host.mrq)
      /\ e.host.mrq /\ e.host.cmd = "cmd"
      /\ e.host.data = (d.host.data \/ d.core.op = "read")
      /\ e.host.xfered = (d.host.xfered /\ d.core.op # "read")
      /\ e.sd.cpsm = "cmd" /\ e.sd.cnum = e.core.n /\ e.sd.status = d.sd.status
      /\ e.sd.dpsm = (IF d.core.op = "read" THEN "read" ELSE d.sd.dpsm)
      /\ d.core.op = "read" => e.sd.dnum = e.core.n
  BY <1>4, <1>5, Request
<1>7. core' = e.core /\ host' = e.host /\ sd' = e.sd /\ stream' = e.stream /\ irq' = irq
  BY <1>2 DEF Becomes, d, c
<1> HIDE DEF e
<1>8. TypeOK'
  BY <1>1, <1>6, <1>7, BecomesType DEF Becomes, IInv, IrqT
<1>9. /\ core'.phase = "wait" /\ core'.op = op /\ core'.retries = retries /\ ~core'.bytes
      /\ ~core'.accepted
  BY <1>3, <1>4, <1>6, <1>7 DEF CoreT
<1>10. /\ ~host.bug /\ ~host.mrq /\ ~host.data /\ sd.dpsm = "off" /\ sd.status = {}
       /\ irq.pc = "off"
  BY <1>2 DEF IInv, Basics, AtRest
<1>11. ~host'.bug /\ host'.mrq /\ host'.cmd = "cmd"
  BY <1>4, <1>6, <1>7, <1>10, Zenon
<1>12. host'.data => op = "read" /\ ~host'.xfered
  BY <1>3, <1>4, <1>6, <1>7, <1>10, Zenon
<1>13. sd'.dpsm # "off" => host'.data /\ sd'.dnum = core'.n
  BY <1>3, <1>4, <1>6, <1>7, <1>10
<1>14. sd'.status = {} /\ irq'.pc = "off" /\ sd'.cpsm = "cmd" /\ sd'.cnum = core'.n
  BY <1>4, <1>6, <1>7, <1>10
<1>15. DataFlags(sd.status)' = {} /\ CmdFlags(sd.status)' = {}
  BY <1>14 DEF DataFlags, CmdFlags
<1>16. Basics'
  BY <1>2, <1>6, <1>7, <1>9, <1>11 DEF Basics, StreamOk
<1>17. DataInv'
  BY <1>9, <1>11, <1>12, <1>13, <1>14, <1>15 DEF DataInv
<1>18. CmdInv'
  BY <1>9, <1>11, <1>14, <1>15 DEF CmdInv
<1>19. AtRest' /\ Outcome'
  BY <1>9, <1>11 DEF AtRest, Outcome, SuccessIsReal, BytesAreOwn
<1> QED BY <1>8, <1>16, <1>17, <1>18, <1>19 DEF IInv

(* A status word without data for a running transfer: the pass goes on.     *)
LEMMA DataSkipped ==
  ASSUME IInv, IrqData, ~(DataFlags(irq.st) # {} /\ host.data)
  PROVE  IInv'
<1>1. /\ core \in CoreT /\ host \in HostT /\ sd \in SdT /\ stream \in Stream /\ irq \in IrqT
  BY TypeParts DEF IInv, IrqT
<1>2. /\ irq.pc = "data" /\ irq' = [irq EXCEPT !.pc = "cmd"]
      /\ UNCHANGED <<core, host, sd, stream>>
  BY DEF IrqData, Becomes, Dev
<1>3. irq' \in IrqT /\ irq'.pc = "cmd" /\ irq'.st = irq.st
  BY <1>1, <1>2 DEF IrqT
<1>4. TypeOK'
  BY <1>1, <1>2, <1>3, TypeParts DEF TypeOK, CoreT, HostT, SdT, IrqT
<1>5. Basics' /\ AtRest' /\ Outcome'
  BY <1>2, <1>3 DEF IInv, Basics, AtRest, Outcome, SuccessIsReal, BytesAreOwn
<1>6. \A f : (OwnData(f) => OwnData(f)') /\ (OwnCmd(f) => OwnCmd(f)')
  BY <1>2 DEF OwnData, OwnCmd
<1>7. DataInv'
  BY <1>2, <1>3, <1>6 DEF IInv, DataInv
<1>8. CmdInv'
  <2>1. SUFFICES ASSUME core.phase = "wait" PROVE CmdInv'
    BY <1>2 DEF CmdInv
  <2>2. \A f \in CmdFlags(irq.st) : OwnCmd(f) /\ CmdFlags(sd.status) = {}
    BY <1>2, <2>1 DEF IInv, CmdInv
  <2>3. host.cmd = "stop" => \A f \in CmdFlags(irq.st) : f.n = core.n /\ f.of = "stop"
    BY <2>2 DEF OwnCmd
  <2> QED BY <1>2, <1>3, <1>6, <2>1, <2>2, <2>3 DEF IInv, CmdInv
<1> QED BY <1>4, <1>5, <1>7, <1>8 DEF IInv

LEMMA DataHandled ==
  ASSUME IInv, IrqData, DataFlags(irq.st) # {}, host.data
  PROVE  IInv'
<1>1. /\ core \in CoreT /\ host \in HostT /\ sd \in SdT /\ stream \in Stream /\ irq \in IrqT
  BY TypeParts DEF IInv, IrqT
<1>2. /\ irq.pc = "data" /\ irq' = [irq EXCEPT !.pc = "cmd"]
      /\ Becomes(mmci_data_irq(Dev, irq.st))
  BY DEF IrqData
<1>3. irq' \in IrqT /\ irq'.pc = "cmd" /\ irq'.st = irq.st
  BY <1>1, <1>2 DEF IrqT
<1> DEFINE x == DataStopped(Dev, irq.st)
<1>4. Dev \in DevT /\ Dev.core = core /\ Dev.host = host /\ Dev.sd = sd /\ Dev.stream = stream
  BY DevType DEF IInv, Dev
<1>5. StreamOk(Dev.stream)
  BY <1>1, <1>4 DEF IInv, Basics, StreamOk
<1>6. /\ x \in DevT /\ StreamOk(x.stream)
      /\ x.core = [core EXCEPT !.derr = @ \/ HasError(irq.st)]
      /\ x.host = [host EXCEPT !.xfered = @ \/ HasEnd(irq.st), !.data = FALSE]
      /\ x.sd = [sd EXCEPT !.dpsm = "off"]
  BY <1>4, <1>5, DataStoppedForm
<1> HIDE DEF x
<1>7. /\ x.core.phase = core.phase /\ x.core.op = core.op /\ x.core.retries = core.retries
      /\ x.core.n = core.n /\ x.core.accepted = core.accepted /\ x.core.moved = core.moved
      /\ x.core.bytes = core.bytes
      /\ x.core.derr = (core.derr \/ HasError(irq.st))
  BY <1>1, <1>6 DEF CoreT
<1>8. /\ x.host.bug = host.bug /\ x.host.mrq = host.mrq
      /\ x.host.xfered = (host.xfered \/ HasEnd(irq.st)) /\ ~x.host.data
  BY <1>1, <1>6 DEF HostT
<1>9. /\ x.sd.dpsm = "off" /\ x.sd.cpsm = sd.cpsm /\ x.sd.status = sd.status
  BY <1>1, <1>6 DEF SdT
<1>10. /\ core.phase = "wait" /\ ~core.bytes /\ ~host.xfered /\ ~host.bug /\ host.mrq
       /\ core.op # "none" /\ (core.retries > 0 => core.op = "none")
  BY DEF IInv, AtRest, Outcome, DataInv, CmdInv, Basics
<1>11. \A f \in DataFlags(irq.st) : OwnData(f) /\ sd.status = {}
  BY <1>2, <1>10 DEF IInv, DataInv
<1>12. core.accepted /\ sd.status = {} /\ (HasEnd(irq.st) => core.moved # NoBuf)
  BY <1>11 DEF OwnData, HasEnd
<1>13. ~HasError(irq.st) => HasEnd(irq.st)
  <2>1. \A f \in DataFlags(irq.st) : f.ev \in {"end", "error"}
    BY <1>1 DEF DataFlags, IrqT, Flags, Cmds
  <2> QED BY <2>1 DEF HasError, HasEnd
<1>14. x.core.derr \/ core.moved # NoBuf
  BY <1>7, <1>12, <1>13
<1>15. x.host.xfered => core.moved # NoBuf
  BY <1>8, <1>10, <1>12
<1>16. CASE core.stop
  <2> DEFINE e == mmci_start_command(x, "stop")
  <2>1. Becomes(e)
    BY <1>2, <1>4, <1>16, DataIrqForm DEF x
  <2>2. /\ e \in DevT /\ e.stream = x.stream /\ e.core = x.core
        /\ e.host = [x.host EXCEPT !.cmd = "stop"]
        /\ e.sd = [x.sd EXCEPT !.cpsm = "stop", !.cnum = x.core.n]
    BY <1>6, StartCommand DEF Cmds
  <2>3. TypeOK'
    BY <1>3, <2>1, <2>2, BecomesType DEF IInv, IrqT
  <2>4. core' = x.core /\ host' = e.host /\ sd' = e.sd /\ stream' = x.stream
    BY <2>1, <2>2 DEF Becomes
  <2> HIDE DEF e
  <2>5. x.host \in HostT /\ x.sd \in SdT
    BY <1>6 DEF DevT
  <2>6. /\ host'.bug = x.host.bug /\ host'.mrq = x.host.mrq /\ host'.cmd = "stop"
        /\ host'.xfered = x.host.xfered /\ host'.data = x.host.data
    BY <2>2, <2>4, <2>5 DEF HostT
  <2>7. /\ sd'.cpsm = "stop" /\ sd'.cnum = x.core.n /\ sd'.dpsm = "off" /\ sd'.status = {}
    BY <1>9, <1>12, <2>2, <2>4, <2>5 DEF SdT
  <2>8. DataFlags(sd.status)' = {} /\ CmdFlags(sd.status)' = {}
    BY <2>7 DEF DataFlags, CmdFlags
  <2>9. core'.phase = "wait" /\ core'.op = core.op /\ core'.retries = core.retries
        /\ core'.n = core.n /\ core'.accepted /\ core'.moved = core.moved /\ ~core'.bytes
        /\ core'.derr = x.core.derr
    BY <1>7, <1>10, <1>12, <2>4
  <2>10. Basics'
    BY <1>6, <1>8, <1>10, <2>4, <2>6, <2>9 DEF Basics, StreamOk
  <2>11. DataInv'
    BY <1>3, <1>8, <2>6, <2>7, <2>8, <2>9 DEF DataInv
  <2>12. CmdInv'
    <3>1. \A f \in CmdFlags(irq.st) : f.n = core.n
      BY <1>2, <1>10 DEF IInv, CmdInv, OwnCmd
    <3>2. CmdFlags(irq.st)' = CmdFlags(irq.st) /\ DataFlags(irq.st)' # {}
      BY <1>3 DEF CmdFlags, DataFlags
    <3>3. host'.mrq /\ sd'.cnum = core'.n
      BY <1>7, <1>8, <1>10, <2>6, <2>7, <2>9
    <3> QED BY <1>3, <2>6, <2>7, <2>8, <2>9, <3>1, <3>2, <3>3 DEF CmdInv
  <2>13. AtRest' /\ Outcome'
    BY <1>10, <1>14, <1>15, <2>6, <2>9 DEF AtRest, Outcome, SuccessIsReal, BytesAreOwn
  <2> QED BY <2>3, <2>10, <2>11, <2>12, <2>13 DEF IInv
<1>17. CASE ~core.stop
  <2> DEFINE e == mmci_request_end(x)
  <2>1. Becomes(e)
    BY <1>2, <1>4, <1>17, DataIrqForm DEF x
  <2>2. x.core.retries > 0 => x.core.op = "none"
    BY <1>7, <1>10
  <2>3. ~x.host.bug
    BY <1>8, <1>10
  <2>4. e \in DevT /\ StreamOk(e.stream) /\ (Ended(x, e) \/ TriedAgain(x, e))
    BY <1>6, <1>8, <1>9, <2>2, <2>3, RequestEnd
  <2>5. core' = e.core /\ host' = e.host /\ sd' = e.sd /\ stream' = e.stream
    BY <2>1 DEF Becomes
  <2> HIDE DEF e
  <2>6. Ended(x, e)
    BY <1>7, <1>10, <2>4 DEF TriedAgain
  <2>7. TypeOK'
    BY <1>3, <2>1, <2>4, BecomesType DEF IInv, IrqT, e
  <2>8. Basics' /\ AtRest'
    <3>1. core'.retries > 0 => core'.op = "none"
      BY <2>2, <2>5, <2>6 DEF Ended
    <3> QED BY <1>3, <2>4, <2>5, <2>6, <3>1 DEF Basics, AtRest, StreamOk, Ended
  <2>9. DataInv' /\ CmdInv'
    BY <2>5, <2>6 DEF DataInv, CmdInv, Ended
  <2>10. /\ core'.phase = "done" /\ core'.moved = core.moved /\ core'.accepted
         /\ core'.derr = x.core.derr
         /\ core'.bytes => x.core.bytes \/ x.host.xfered
    BY <1>7, <1>12, <2>5, <2>6 DEF Ended
  <2>11. Outcome'
    BY <1>7, <1>10, <1>14, <1>15, <2>10 DEF Outcome, SuccessIsReal, BytesAreOwn
  <2> QED BY <2>7, <2>8, <2>9, <2>11 DEF IInv
<1> QED BY <1>16, <1>17

LEMMA IrqDataStep == IInv /\ IrqData => IInv'
  BY DataSkipped, DataHandled

LEMMA CmdSkipped ==
  ASSUME IInv, IrqCmd, ~(CmdFlags(irq.st) # {} /\ host.cmd # "none")
  PROVE  IInv'
<1>1. /\ core \in CoreT /\ host \in HostT /\ sd \in SdT /\ stream \in Stream /\ irq \in IrqT
  BY TypeParts DEF IInv, IrqT
<1>2. /\ irq.pc = "cmd" /\ irq' = [irq EXCEPT !.pc = "loop"]
      /\ UNCHANGED <<core, host, sd, stream>>
  BY DEF IrqCmd, Becomes, Dev
<1>3. irq' \in IrqT /\ irq'.pc = "loop" /\ irq'.st = irq.st
  BY <1>1, <1>2 DEF IrqT
<1>4. TypeOK'
  BY <1>1, <1>2, <1>3, TypeParts DEF TypeOK, CoreT, HostT, SdT, IrqT
<1>5. Basics' /\ AtRest' /\ Outcome'
  BY <1>2, <1>3 DEF IInv, Basics, AtRest, Outcome, SuccessIsReal, BytesAreOwn
<1>6. \A f : (OwnData(f) => OwnData(f)') /\ (OwnCmd(f) => OwnCmd(f)')
  BY <1>2 DEF OwnData, OwnCmd
<1>7. DataInv' /\ CmdInv'
  BY <1>2, <1>3, <1>6 DEF IInv, DataInv, CmdInv
<1> QED BY <1>4, <1>5, <1>7 DEF IInv

LEMMA CmdHandled ==
  ASSUME IInv, IrqCmd, CmdFlags(irq.st) # {}, host.cmd # "none"
  PROVE  IInv'
<1>1. /\ core \in CoreT /\ host \in HostT /\ sd \in SdT /\ stream \in Stream /\ irq \in IrqT
  BY TypeParts DEF IInv, IrqT
<1>2. /\ irq.pc = "cmd" /\ irq' = [irq EXCEPT !.pc = "loop"]
      /\ Becomes(mmci_cmd_irq(Dev, irq.st))
  BY DEF IrqCmd
<1>3. irq' \in IrqT /\ irq'.pc = "loop" /\ irq'.st = irq.st
  BY <1>1, <1>2 DEF IrqT
<1>4. Dev \in DevT /\ Dev.core = core /\ Dev.host = host /\ Dev.sd = sd /\ Dev.stream = stream
  BY DevType DEF IInv, Dev
<1> DEFINE x == CmdTaken(Dev, irq.st)
<1>5. /\ x \in DevT /\ x.stream = stream /\ x.sd = sd
      /\ x.host = [host EXCEPT !.cmd = "none"]
      /\ x.core = [core EXCEPT !.cerr = @ \/ (host.cmd = "cmd" /\ HasFail(irq.st)),
                               !.serr = @ \/ (host.cmd = "stop" /\ HasFail(irq.st))]
  BY <1>4, CmdTakenForm
<1> HIDE DEF x
<1>6. /\ x.core.phase = core.phase /\ x.core.op = core.op /\ x.core.retries = core.retries
      /\ x.core.n = core.n /\ x.core.accepted = core.accepted /\ x.core.moved = core.moved
      /\ x.core.bytes = core.bytes /\ x.core.derr = core.derr
      /\ host.cmd = "cmd" /\ HasFail(irq.st) => x.core.cerr
  BY <1>1, <1>5 DEF CoreT
<1>7. /\ x.host.bug = host.bug /\ x.host.mrq = host.mrq /\ x.host.cmd = "none"
      /\ x.host.xfered = host.xfered /\ x.host.data = host.data
  BY <1>1, <1>5 DEF HostT
<1>8. /\ core.phase = "wait" /\ ~core.bytes /\ ~host.bug /\ host.mrq
      /\ core.retries > 0 => core.op = "none"
      /\ sd.dpsm # "off" => host.data
      /\ host.data => core.op # "none"
      /\ host.data /\ core.op = "write" => host.cmd # "cmd"
  BY DEF IInv, AtRest, Outcome, DataInv, CmdInv, Basics
<1>9. host.cmd \in {"cmd", "stop"}
  BY <1>1 DEF HostT, Cmds
<1>10. StreamOk(stream)
  BY <1>1 DEF IInv, Basics, StreamOk
<1>11. host.cmd = "cmd" =>
         /\ sd.cpsm = "off" /\ CmdFlags(sd.status) = {}
         /\ HasFail(irq.st) \/ core.accepted
  <2> SUFFICES ASSUME host.cmd = "cmd"
               PROVE  /\ sd.cpsm = "off" /\ CmdFlags(sd.status) = {}
                      /\ HasFail(irq.st) \/ core.accepted
    OBVIOUS
  <2>1. \A f \in CmdFlags(irq.st) : OwnCmd(f) /\ CmdFlags(sd.status) = {}
    BY <1>2, <1>8 DEF IInv, CmdInv
  <2>2. \A f \in CmdFlags(irq.st) : f.ev \in {"ok", "fail"}
    BY <1>1 DEF CmdFlags, IrqT, Flags, Cmds
  <2>3. PICK f \in CmdFlags(irq.st) : TRUE
    OBVIOUS
  <2> QED BY <2>1, <2>2, <2>3 DEF OwnCmd, HasFail
<1>12. host.cmd = "stop" =>
         /\ core.op # "none"
         /\ core.derr \/ (core.moved # NoBuf /\ core.accepted)
         /\ host.xfered => core.moved # NoBuf
  BY <1>8 DEF IInv, Outcome
<1>13. ~host.data => DataFlags(sd.status) = {}
  BY <1>8 DEF IInv, DataInv, OwnData
<1> DEFINE over == host.cmd = "stop" \/ core.op = "none" \/ HasFail(irq.st)
<1>14. CASE over
  <2> DEFINE y == IF host.data THEN mmci_stop_data(x) ELSE x
             e == mmci_request_end(y)
  <2>1. Becomes(e)
    BY <1>2, <1>4, <1>14, CmdIrqForm DEF x
  <2>2. /\ y \in DevT /\ y.stream = stream /\ y.core = x.core
        /\ y.host.bug = host.bug /\ y.host.mrq = host.mrq /\ y.host.xfered = host.xfered
        /\ ~y.host.data /\ y.sd.dpsm = "off" /\ y.sd.status = sd.status
    <3>1. CASE host.data
      <4> DEFINE z == mmci_stop_data(x)
      <4>1. /\ z \in DevT /\ z.stream = x.stream /\ z.core = x.core
            /\ z.host = [x.host EXCEPT !.data = FALSE] /\ z.sd = [x.sd EXCEPT !.dpsm = "off"]
        BY <1>5, StopData
      <4>2. y = z
        BY <3>1
      <4> HIDE DEF z, y
      <4>3. x.host \in HostT /\ x.sd \in SdT
        BY <1>5 DEF DevT
      <4> QED BY <1>5, <1>7, <4>1, <4>2, <4>3 DEF HostT, SdT
    <3>2. CASE ~host.data
      BY <1>5, <1>7, <1>8, <3>2
    <3> QED BY <3>1, <3>2
  <2> HIDE DEF y
  <2>3. y.core.retries > 0 => y.core.op = "none"
    BY <1>6, <1>8, <2>2
  <2>4. ~y.host.bug /\ StreamOk(y.stream)
    BY <1>8, <1>10, <2>2
  <2>5. e \in DevT /\ StreamOk(e.stream) /\ (Ended(y, e) \/ TriedAgain(y, e))
    BY <2>2, <2>3, <2>4, RequestEnd
  <2>6. core' = e.core /\ host' = e.host /\ sd' = e.sd /\ stream' = e.stream
    BY <2>1 DEF Becomes
  <2>7. TypeOK'
    BY <1>3, <2>1, <2>5, BecomesType DEF IInv, IrqT
  <2> HIDE DEF e
  <2>8. CASE Ended(y, e)
    <3>1. core'.retries > 0 => core'.op = "none"
      BY <2>3, <2>6, <2>8 DEF Ended
    <3>2. Basics' /\ AtRest'
      BY <1>3, <2>5, <2>6, <2>8, <3>1 DEF Basics, AtRest, StreamOk, Ended
    <3>3. DataInv' /\ CmdInv'
      BY <2>6, <2>8 DEF DataInv, CmdInv, Ended
    <3>4. /\ core'.phase = "done" /\ core'.moved = core.moved /\ core'.accepted = core.accepted
          /\ core'.op = core.op /\ core'.derr = core.derr /\ core'.cerr = x.core.cerr
      BY <1>6, <2>2, <2>6, <2>8 DEF Ended
    <3>5. core'.bytes => core.op # "none" /\ host.xfered
      BY <1>6, <1>8, <2>2, <2>6, <2>8 DEF Ended
    <3>6. HasFail(irq.st) /\ host.cmd = "cmd" => core'.cerr
      BY <1>6, <3>4
    <3>7. SuccessIsReal'
      BY <1>9, <1>11, <1>12, <1>14, <3>4, <3>6 DEF SuccessIsReal
    <3>8. BytesAreOwn'
      BY <1>9, <1>12, <1>14, <3>4, <3>5, <3>6 DEF BytesAreOwn
    <3>9. Outcome'
      BY <3>4, <3>7, <3>8 DEF Outcome
    <3> QED BY <2>7, <3>2, <3>3, <3>9 DEF IInv
  <2>9. CASE TriedAgain(y, e)
    <3>1. /\ core'.phase = "wait" /\ core'.op = "none" /\ core.op = "none" /\ ~core'.bytes
          /\ ~core'.accepted
      BY <1>6, <1>8, <2>2, <2>6, <2>9 DEF TriedAgain
    <3>2. /\ ~host'.bug /\ host'.mrq /\ host'.cmd = "cmd" /\ ~host'.data
          /\ sd'.cpsm = "cmd" /\ sd'.cnum = core'.n /\ sd'.dpsm = "off"
          /\ sd'.status = sd.status
      BY <2>2, <2>6, <2>9 DEF TriedAgain
    <3>3. host.cmd = "cmd" /\ ~host.data
      BY <1>8, <1>9, <1>12, <3>1
    <3>4. DataFlags(sd.status)' = {} /\ CmdFlags(sd.status)' = {}
      BY <1>11, <1>13, <3>2, <3>3 DEF DataFlags, CmdFlags
    <3>5. Basics' /\ AtRest'
      BY <2>5, <2>6, <3>1, <3>2 DEF Basics, AtRest, StreamOk
    <3>6. DataInv' /\ CmdInv'
      BY <1>3, <3>1, <3>2, <3>4 DEF DataInv, CmdInv
    <3>7. Outcome'
      BY <3>1, <3>2 DEF Outcome, SuccessIsReal, BytesAreOwn
    <3> QED BY <2>7, <3>5, <3>6, <3>7 DEF IInv
  <2> QED BY <2>5, <2>8, <2>9
<1>15. CASE ~over /\ core.op = "write"
  <2> DEFINE e == mmci_start_data(x)
  <2>1. Becomes(e)
    BY <1>2, <1>4, <1>15, CmdIrqForm DEF x
  <2>2. x.core.op # "none" /\ StreamOk(x.stream)
    BY <1>5, <1>6, <1>10, <1>15
  <2>3. /\ e \in DevT /\ StreamOk(e.stream) /\ e.core = x.core
        /\ e.host = [x.host EXCEPT !.data = TRUE, !.xfered = FALSE]
        /\ e.sd = [x.sd EXCEPT !.dpsm = x.core.op, !.dnum = x.core.n]
    BY <1>5, <2>2, StartData
  <2>4. core' = x.core /\ host' = e.host /\ sd' = e.sd /\ stream' = e.stream
    BY <2>1, <2>3 DEF Becomes
  <2>5. TypeOK'
    BY <1>3, <2>1, <2>3, BecomesType DEF IInv, IrqT
  <2> HIDE DEF e
  <2>6. x.host \in HostT /\ x.sd \in SdT
    BY <1>5 DEF DevT
  <2>7. /\ host'.bug = x.host.bug /\ host'.mrq = x.host.mrq /\ host'.cmd = "none"
        /\ host'.data /\ ~host'.xfered
    BY <1>7, <2>3, <2>4, <2>6 DEF HostT
  <2>8. /\ sd'.dnum = x.core.n /\ sd'.cpsm = sd.cpsm /\ sd'.status = sd.status
    BY <1>5, <2>3, <2>4, <2>6 DEF SdT
  <2>9. host.cmd = "cmd" /\ ~host.data
    BY <1>8, <1>9, <1>15
  <2>10. DataFlags(sd.status)' = {} /\ CmdFlags(sd.status)' = {} /\ sd'.cpsm = "off"
    BY <1>11, <1>13, <2>8, <2>9 DEF DataFlags, CmdFlags
  <2>11. core'.phase = "wait" /\ core'.op = "write" /\ core'.retries = core.retries
         /\ ~core'.bytes /\ core'.n = x.core.n
    BY <1>6, <1>8, <1>15, <2>4
  <2>12. ~host'.bug /\ host'.mrq
    BY <1>7, <1>8, <2>7
  <2>13. core'.retries > 0 => core'.op = "none"
    BY <1>8, <1>15, <2>11
  <2>14. Basics' /\ AtRest'
    BY <2>3, <2>4, <2>11, <2>12, <2>13 DEF Basics, AtRest, StreamOk
  <2>15. DataInv' /\ CmdInv'
    BY <1>3, <2>7, <2>8, <2>10, <2>11, <2>12 DEF DataInv, CmdInv
  <2>16. Outcome'
    BY <2>7, <2>11 DEF Outcome, SuccessIsReal, BytesAreOwn
  <2> QED BY <2>5, <2>14, <2>15, <2>16 DEF IInv
<1>16. CASE ~over /\ core.op # "write"
  <2>1. Becomes(x)
    BY <1>2, <1>4, <1>16, CmdIrqForm DEF x
  <2>2. core' = x.core /\ host' = x.host /\ sd' = sd /\ stream' = stream
    BY <1>5, <2>1 DEF Becomes
  <2>3. TypeOK'
    BY <1>3, <1>5, <2>1, BecomesType DEF IInv, IrqT
  <2>4. host.cmd = "cmd"
    BY <1>9, <1>16
  <2>5. sd.cpsm = "off" /\ CmdFlags(sd.status)' = {}
    BY <1>11, <2>2, <2>4 DEF CmdFlags
  <2>6. Basics' /\ AtRest'
    BY <1>6, <1>7, <1>8, <2>2 DEF IInv, Basics, AtRest
  <2>7. \A f : OwnData(f) => OwnData(f)'
    BY <1>6, <1>7, <2>2 DEF OwnData
  <2>8. DataInv'
    BY <1>3, <1>6, <1>7, <1>8, <2>2, <2>7 DEF IInv, DataInv
  <2>9. CmdInv'
    BY <1>3, <1>6, <1>7, <1>8, <2>2, <2>5 DEF CmdInv
  <2>10. Outcome'
    BY <1>6, <1>7, <1>8, <2>2 DEF Outcome, SuccessIsReal, BytesAreOwn
  <2> QED BY <2>3, <2>6, <2>8, <2>9, <2>10 DEF IInv
<1> QED BY <1>14, <1>15, <1>16

LEMMA IrqCmdStep == IInv /\ IrqCmd => IInv'
  BY CmdSkipped, CmdHandled

LEMMA IdleStep == IInv /\ UNCHANGED vars => IInv'
<1> SUFFICES ASSUME IInv, UNCHANGED vars PROVE IInv'
  OBVIOUS
<1>1. core' = core /\ host' = host /\ sd' = sd /\ stream' = stream /\ irq' = irq
  BY DEF vars
<1>2. TypeOK'
  BY <1>1 DEF IInv, TypeOK
<1>3. Basics' /\ AtRest' /\ Outcome'
  BY <1>1 DEF IInv, Basics, AtRest, Outcome, SuccessIsReal, BytesAreOwn
<1>4. \A f : (OwnData(f) => OwnData(f)') /\ (OwnCmd(f) => OwnCmd(f)')
  BY <1>1 DEF OwnData, OwnCmd
<1>5. DataInv' /\ CmdInv'
  BY <1>1, <1>4 DEF IInv, DataInv, CmdInv
<1> QED BY <1>2, <1>3, <1>5 DEF IInv

LEMMA StepIInv == IInv /\ [Next]_vars => IInv'
  BY SubmitStep, SubmitRefusedStep, ReturnStep, CommandAnsweredStep, DataOverStep, IrqReadStep,
     IrqDataStep, IrqCmdStep, IdleStep DEF Next, Handler

LEMMA InitIInv == Init => IInv
<1> SUFFICES ASSUME Init PROVE IInv
  OBVIOUS
<1>1. PICK b \in Buffers :
        core = [phase |-> "idle", op |-> "none", stop |-> FALSE, buf |-> b, retries |-> 0,
                cerr |-> FALSE, derr |-> FALSE, serr |-> FALSE, bytes |-> FALSE,
                n |-> 0, accepted |-> FALSE, moved |-> NoBuf]
  BY DEF Init
<1>2. 0 \in Nums /\ 0 \in 0 .. MaxRetries
  BY NumAssumption, RetriesAssumption DEF Nums
<1>3. core \in CoreT
  BY <1>1, <1>2 DEF CoreT, Ops
<1>4. host \in HostT /\ sd \in SdT /\ stream \in Stream
      /\ irq \in [pc : {"off", "loop", "data", "cmd"}, st : SUBSET Flags]
  BY <1>2 DEF Init, HostT, SdT, Stream, Dirs, Cmds
<1>5. TypeOK
  BY <1>3, <1>4, TypeParts
<1>6. Basics /\ AtRest
  BY <1>1 DEF Init, Basics, AtRest
<1>7. core.phase = "idle"
  BY <1>1
<1>8. DataInv /\ CmdInv /\ Outcome
  BY <1>7 DEF DataInv, CmdInv, Outcome, SuccessIsReal, BytesAreOwn
<1> QED BY <1>5, <1>6, <1>8 DEF IInv

-----------------------------------------------------------------------------
(* The invariant holds in every state of the driver.                        *)
THEOREM Invariance == Spec => []IInv
  BY InitIInv, StepIInv, PTL DEF Spec

(* Request, driver, controller, stream and handler keep their types.        *)
THEOREM TypeCorrect == Spec => []TypeOK
<1>1. IInv => TypeOK
  BY DEF IInv
<1> QED BY <1>1, Invariance, PTL

(* BUG_ON(host->data) in mmci_request_end() and WARN_ON(host->mrq) in       *)
(* mmci_request() never fire, for any number of retries.                    *)
THEOREM NoAssertionFails == Spec => []AssertionsHold
<1>1. IInv => AssertionsHold
  BY DEF IInv, Basics, AssertionsHold
<1> QED BY <1>1, Invariance, PTL

(* When a request is over and mmci_irq() has left, no path is enabled and   *)
(* no flag is up that the next request would take for its own.              *)
THEOREM QuietAfterRequest == Spec => []QuietWhenDone
<1>1. IInv => QuietWhenDone
  <2> SUFFICES ASSUME IInv, core.phase # "wait", irq.pc = "off"
               PROVE  /\ host = [host EXCEPT !.mrq = FALSE, !.cmd = "none", !.data = FALSE]
                      /\ sd.cpsm = "off" /\ sd.dpsm = "off" /\ sd.status = {}
    BY DEF QuietWhenDone
  <2>1. ~host.mrq /\ host.cmd = "none" /\ ~host.data
    BY DEF IInv, AtRest
  <2>2. host \in HostT
    BY TypeParts DEF IInv
  <2>3. host = [host EXCEPT !.mrq = FALSE, !.cmd = "none", !.data = FALSE]
    BY <2>1, <2>2 DEF HostT
  <2> QED BY <2>3 DEF IInv, AtRest
<1> QED BY <1>1, Invariance, PTL

(* mmci_irq() hands a flag to the command or transfer that caused it, or to *)
(* the stop command its data part has just started.                         *)
THEOREM EventsBelong == Spec => []EventsAreOwn
<1>1. IInv => EventsAreOwn
  <2> SUFFICES ASSUME IInv PROVE EventsAreOwn
    OBVIOUS
  <2>1. ASSUME irq.pc = "data", host.data
        PROVE  \A f \in DataFlags(irq.st) : f.n = core.n
    BY <2>1 DEF IInv, AtRest, DataInv, OwnData
  <2>2. ASSUME irq.pc = "cmd", host.cmd # "none"
        PROVE  \A f \in CmdFlags(irq.st) :
                 /\ f.n = core.n
                 /\ f.of = host.cmd \/ (host.cmd = "stop" /\ DataFlags(irq.st) # {})
    <3>1. core.phase = "wait" /\ host.cmd \in {"cmd", "stop"}
      BY <2>2, TypeParts DEF IInv, AtRest, HostT, Cmds
    <3> QED BY <2>2, <3>1 DEF IInv, CmdInv, OwnCmd
  <2> QED BY <2>1, <2>2 DEF EventsAreOwn
<1> QED BY <1>1, Invariance, PTL

(* A request that ends without an error was accepted by the card, and its   *)
(* data were moved.                                                         *)
THEOREM SuccessMeansMoved == Spec => []SuccessIsReal
<1>1. IInv => SuccessIsReal
  BY DEF IInv, Outcome
<1> QED BY <1>1, Invariance, PTL

(* bytes_xfered counts data of this request, unless its command failed      *)
(* before the data were started.                                            *)
THEOREM BytesBelong == Spec => []BytesAreOwn
<1>1. IInv => BytesAreOwn
  BY DEF IInv, Outcome
<1> QED BY <1>1, Invariance, PTL
=============================================================================
