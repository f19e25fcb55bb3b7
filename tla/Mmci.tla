-------------------------------- MODULE Mmci --------------------------------
(***************************************************************************)
(* The SD host driver (drivers/mmc/host/mmci.c with CONFIG_STM32_SD_DMA)   *)
(* between the mmc core, the SD controller and its DMA stream.             *)
(*                                                                         *)
(* The core has one request at a time under way: a command, with or        *)
(* without data, and for data over several blocks a stop command behind    *)
(* it. mmci_irq() reads the status word in a loop; the controller goes on  *)
(* between the read and the use of what was read, so these are steps of    *)
(* their own. Everything else runs with interrupts off. A function of the  *)
(* driver is an operator on the record Dev of all it may change.           *)
(***************************************************************************)
EXTENDS Integers, Dmac

CONSTANTS
  MaxRetries,   \* bound: cmd->retries the core asks for
  NumMod        \* bound: calls of mmci_request() are numbered modulo NumMod

ASSUME RetriesAssumption == MaxRetries \in Nat
ASSUME NumAssumption == NumMod \in Nat \ {0, 1}
ASSUME BufferAssumption == NoBuf \notin Buffers

VARIABLES
  core,    \* the mmc core: what it waits for, the request, its outcome
  host,    \* struct mmci_host, and bug: an assertion of the driver has failed
  sd,      \* the controller: command and data path, MMCISTATUS
  stream,  \* the DMA stream
  irq      \* mmci_irq(): where it is, the status it has read

vars == <<core, host, sd, stream, irq>>

Ops    == {"none", "read", "write"}
Cmds   == {"cmd", "stop"}
Nums   == 0 .. NumMod - 1
\* A status flag, and whose: "ok" is CMDRESPEND or CMDSENT, "fail" is CMDTIMEOUT or
\* CMDCRCFAIL, "end" is DATAEND, "error" any of the data errors.
Flags  == [ev : {"ok", "fail"}, of : Cmds, n : Nums]
            \cup [ev : {"end", "error"}, of : {"data"}, n : Nums]

CmdFlags(st)  == {f \in st : f.of \in Cmds}
DataFlags(st) == {f \in st : f.of = "data"}

TypeOK ==
  /\ core \in [phase : {"idle", "wait", "done"}, op : Ops, stop : BOOLEAN, buf : Buffers,
               retries : 0 .. MaxRetries, cerr : BOOLEAN, derr : BOOLEAN, serr : BOOLEAN,
               bytes : BOOLEAN, n : Nums, accepted : BOOLEAN, moved : Buffers \cup {NoBuf}]
  /\ host \in [mrq : BOOLEAN, cmd : Cmds \cup {"none"}, data : BOOLEAN, xfered : BOOLEAN,
               bug : BOOLEAN]
  /\ sd \in [cpsm : Cmds \cup {"off"}, cnum : Nums, dpsm : {"off", "read", "write"},
             dnum : Nums, status : SUBSET Flags]
  /\ stream \in Stream
  /\ irq \in [pc : {"off", "loop", "data", "cmd"}, st : SUBSET Flags]

\* After mmci_probe(): the channel is acquired, nothing is under way.
Init ==
  /\ \E b \in Buffers :
       core = [phase |-> "idle", op |-> "none", stop |-> FALSE, buf |-> b, retries |-> 0,
               cerr |-> FALSE, derr |-> FALSE, serr |-> FALSE, bytes |-> FALSE,
               n |-> 0, accepted |-> FALSE, moved |-> NoBuf]
  /\ host = [mrq |-> FALSE, cmd |-> "none", data |-> FALSE, xfered |-> FALSE, bug |-> FALSE]
  /\ sd = [cpsm |-> "off", cnum |-> 0, dpsm |-> "off", dnum |-> 0, status |-> {}]
  /\ stream = [in_use |-> TRUE, en |-> FALSE, dir |-> "p2m", m0ar |-> NoBuf]
  /\ irq = [pc |-> "off", st |-> {}]

-----------------------------------------------------------------------------
(* The functions of the driver.                                             *)

Dev == [core |-> core, host |-> host, sd |-> sd, stream |-> stream]

Becomes(d) ==
  /\ core' = d.core /\ host' = d.host /\ sd' = d.sd /\ stream' = d.stream

\* mmc_dma_rx_start() and mmc_dma_tx_start(): the first call that is refused ends
\* the set-up; the caller is not told.
mmc_dma_start(s, dir, buf) ==
  IF Denied(s) THEN s ELSE ch_enable(ch_set_memory(ch_init(s, dir), buf))

\* Mutant: the count of the last transfer is kept.
mmci_start_data_keeps_count(d) ==
  [d EXCEPT
     !.host.data = TRUE,
     !.stream = mmc_dma_start(@, IF d.core.op = "read" THEN "p2m" ELSE "m2p", d.core.buf),
     !.sd.dpsm = d.core.op,
     !.sd.dnum = d.core.n]

mmci_start_data(d) ==
  [d EXCEPT
     !.host.data = TRUE,
     !.host.xfered = FALSE,
     !.stream = mmc_dma_start(@, IF d.core.op = "read" THEN "p2m" ELSE "m2p", d.core.buf),
     !.sd.dpsm = d.core.op,
     !.sd.dnum = d.core.n]

mmci_stop_data(d) ==
  [d EXCEPT !.sd.dpsm = "off", !.host.data = FALSE]

\* A command still in the controller is given up for the new one.
mmci_start_command(d, c) ==
  [d EXCEPT !.host.cmd = c, !.sd.cpsm = c, !.sd.cnum = d.core.n]

\* The data path of a read is started before its command, that of a write after
\* the response. Entering with a request under way is a WARN_ON().
mmci_request(d) ==
  LET started == [d EXCEPT !.host.bug = @ \/ d.host.mrq,
                           !.host.mrq = TRUE,
                           !.core.n = (@ + 1) % NumMod,
                           !.core.accepted = FALSE]
  IN  mmci_start_command(
        IF d.core.op = "read" THEN mmci_start_data(started) ELSE started, "cmd")

\* Mutant: the number of retries is not counted down.
mmc_request_done_forever(d) ==
  IF d.core.cerr /\ d.core.retries > 0
  THEN mmci_request([d EXCEPT !.core.cerr = FALSE])
  ELSE [d EXCEPT !.core.phase = "done"]

\* drivers/mmc/core/core.c: a failed command is tried again from here, else the
\* waiter is woken.
mmc_request_done(d) ==
  IF d.core.cerr /\ d.core.retries > 0
  THEN mmci_request([d EXCEPT !.core.retries = @ - 1, !.core.cerr = FALSE])
  ELSE [d EXCEPT !.core.phase = "done"]

\* Mutant: the command register is left alone.
mmci_request_end_unstopped(d) ==
  mmc_request_done([d EXCEPT !.host.bug = @ \/ d.host.data,
                             !.host.mrq = FALSE,
                             !.host.cmd = "none",
                             !.core.bytes = @ \/ (d.core.op # "none" /\ d.host.xfered)])

\* MMCICOMMAND is cleared, BUG_ON(host->data), the count goes to the request.
mmci_request_end(d) ==
  mmc_request_done([d EXCEPT !.sd.cpsm = "off",
                             !.host.bug = @ \/ d.host.data,
                             !.host.mrq = FALSE,
                             !.host.cmd = "none",
                             !.core.bytes = @ \/ (d.core.op # "none" /\ d.host.xfered)])

\* Mutant: an error ends the transfer without being noted.
mmci_data_irq_silent(d, st) ==
  LET stopped == mmci_stop_data(
                   [d EXCEPT !.host.xfered = @ \/ (\E f \in DataFlags(st) : f.ev = "end"),
                             !.stream = ch_disable(@)])
  IN  IF d.core.stop THEN mmci_start_command(stopped, "stop")
                     ELSE mmci_request_end(stopped)

\* An error ends the transfer like its end does. The stop command follows, or the
\* request is done.
mmci_data_irq(d, st) ==
  LET failed  == \E f \in DataFlags(st) : f.ev = "error"
      stopped == mmci_stop_data(
                   [d EXCEPT !.host.xfered = @ \/ (\E f \in DataFlags(st) : f.ev = "end"),
                             !.core.derr = @ \/ failed,
                             !.stream = ch_disable(@)])
  IN  IF d.core.stop THEN mmci_start_command(stopped, "stop")
                     ELSE mmci_request_end(stopped)

\* Mutant: the data path of a failed command is left running.
mmci_cmd_irq_keeps_data(d, st) ==
  LET failed == \E f \in CmdFlags(st) : f.ev = "fail"
      taken  == [d EXCEPT !.host.cmd = "none",
                          !.core.cerr = @ \/ (d.host.cmd = "cmd" /\ failed),
                          !.core.serr = @ \/ (d.host.cmd = "stop" /\ failed)]
  IN  IF d.host.cmd = "stop" \/ d.core.op = "none" \/ failed
      THEN mmci_request_end(taken)
      ELSE IF d.core.op = "write" THEN mmci_start_data(taken) ELSE taken

\* A command without data and a failed one end the request; the response to a
\* write starts its data. The stop command carries no data.
mmci_cmd_irq(d, st) ==
  LET failed == \E f \in CmdFlags(st) : f.ev = "fail"
      taken  == [d EXCEPT !.host.cmd = "none",
                          !.core.cerr = @ \/ (d.host.cmd = "cmd" /\ failed),
                          !.core.serr = @ \/ (d.host.cmd = "stop" /\ failed)]
  IN  IF d.host.cmd = "stop" \/ d.core.op = "none" \/ failed
      THEN mmci_request_end(IF d.host.data THEN mmci_stop_data(taken) ELSE taken)
      ELSE IF d.core.op = "write" THEN mmci_start_data(taken) ELSE taken

-----------------------------------------------------------------------------
(* The mmc core.                                                            *)

NewRequest(op, stop, b, retries) ==
  [core EXCEPT !.phase = "wait", !.op = op, !.stop = stop, !.buf = b, !.retries = retries,
               !.cerr = FALSE, !.derr = FALSE, !.serr = FALSE, !.bytes = FALSE,
               !.accepted = FALSE, !.moved = NoBuf]

\* mmc_wait_for_req(). Only commands without data are given retries.
Submit ==
  \E op \in Ops, stop \in BOOLEAN, b \in Buffers, retries \in 0 .. MaxRetries :
    /\ core.phase = "idle" /\ irq.pc = "off"
    /\ op = "none" => ~stop
    /\ op # "none" => retries = 0
    /\ Becomes(mmci_request([Dev EXCEPT !.core = NewRequest(op, stop, b, retries)]))
    /\ UNCHANGED irq

\* mmci_request() with a block size that is not a power of two.
SubmitRefused ==
  \E op \in Ops \ {"none"}, b \in Buffers :
    /\ core.phase = "idle" /\ irq.pc = "off"
    /\ core' = [NewRequest(op, FALSE, b, 0) EXCEPT !.cerr = TRUE, !.phase = "done"]
    /\ UNCHANGED <<host, sd, stream, irq>>

\* The waiter looks at the result.
Return ==
  /\ core.phase = "done" /\ irq.pc = "off"
  /\ core' = [core EXCEPT !.phase = "idle"]
  /\ UNCHANGED <<host, sd, stream, irq>>

-----------------------------------------------------------------------------
(* Card, controller and stream (external).                                  *)

\* The command is answered, or times out. A card whose answer was garbled may have
\* accepted the command.
CommandAnswered ==
  \E ev \in {"ok", "fail"}, accepted \in BOOLEAN :
    /\ sd.cpsm # "off"
    /\ ev = "ok" => accepted
    /\ sd' = [sd EXCEPT !.cpsm = "off",
                        !.status = @ \cup {[ev |-> ev, of |-> sd.cpsm, n |-> sd.cnum]}]
    /\ core' = IF sd.cpsm = "cmd" THEN [core EXCEPT !.accepted = accepted] ELSE core
    /\ UNCHANGED <<host, stream, irq>>

\* All data have moved, to or from wherever the stream points. The stream may or may
\* not have switched itself off by the time DATAEND is up.
DataMoved ==
  \E en \in BOOLEAN :
    /\ sd.dpsm # "off" /\ core.accepted
    /\ stream.en /\ stream.dir = (IF sd.dpsm = "read" THEN "p2m" ELSE "m2p")
    /\ core' = [core EXCEPT !.moved = stream.m0ar]
    /\ stream' = [stream EXCEPT !.en = en]
    /\ sd' = [sd EXCEPT !.dpsm = "off",
                        !.status = @ \cup {[ev |-> "end", of |-> "data", n |-> sd.dnum]}]
    /\ UNCHANGED <<host, irq>>

\* A write whose set-up was refused because the stream is still enabled for a read:
\* nobody fills the FIFO. Hardware flow control (variant_ux500) holds the clock for an
\* empty FIFO, so there is no underrun, and the data timer runs only while the card is
\* busy: no flag ever comes up.
Starved == sd.dpsm = "write" /\ stream.en /\ stream.dir = "p2m"

\* A bad block, or a card that keeps silent or busy until the data timer ends.
DataFails ==
  /\ sd.dpsm # "off" /\ core.accepted /\ ~Starved
  /\ sd' = [sd EXCEPT !.dpsm = "off",
                      !.status = @ \cup {[ev |-> "error", of |-> "data", n |-> sd.dnum]}]
  /\ UNCHANGED <<core, host, stream, irq>>

-----------------------------------------------------------------------------
(* mmci_irq().                                                              *)

\* Read the status word and acknowledge what was read; zero ends the loop.
IrqRead ==
  /\ irq.pc = "loop" \/ (irq.pc = "off" /\ sd.status # {})
  /\ irq' = [pc |-> IF sd.status = {} THEN "off" ELSE "data", st |-> sd.status]
  /\ sd' = [sd EXCEPT !.status = {}]
  /\ UNCHANGED <<core, host, stream>>

IrqData ==
  /\ irq.pc = "data"
  /\ irq' = [irq EXCEPT !.pc = "cmd"]
  /\ Becomes(IF DataFlags(irq.st) # {} /\ host.data THEN mmci_data_irq(Dev, irq.st) ELSE Dev)

\* host->cmd is read after the data part, which may have changed it.
IrqCmd ==
  /\ irq.pc = "cmd"
  /\ irq' = [irq EXCEPT !.pc = "loop"]
  /\ Becomes(IF CmdFlags(irq.st) # {} /\ host.cmd # "none"
             THEN mmci_cmd_irq(Dev, irq.st) ELSE Dev)

Handler == IrqRead \/ IrqData \/ IrqCmd

Next ==
  \/ Submit \/ SubmitRefused \/ Return
  \/ CommandAnswered \/ DataMoved \/ DataFails
  \/ Handler

Spec == Init /\ [][Next]_vars

\* A command is answered or times out, data move or fail unless the FIFO is starved,
\* and the interrupt is served.
FairSpec ==
  /\ Spec
  /\ WF_vars(CommandAnswered) /\ WF_vars(DataMoved \/ DataFails) /\ WF_vars(Handler)

-----------------------------------------------------------------------------
\* BUG_ON(host->data) in mmci_request_end() and WARN_ON(host->mrq != NULL) in
\* mmci_request() never fire, whatever the order of data and command events.
AssertionsHold == ~host.bug

\* When a request is over and the handler has left, driver and controller are at
\* rest: no path is enabled and no flag is pending that the next request would take
\* for its own.
QuietWhenDone ==
  core.phase # "wait" /\ irq.pc = "off" =>
    /\ host = [host EXCEPT !.mrq = FALSE, !.cmd = "none", !.data = FALSE]
    /\ sd.cpsm = "off" /\ sd.dpsm = "off" /\ sd.status = {}

\* mmci_irq() hands an event to the command or transfer that caused it, a retry of
\* the same command counting as another one. The exception is the stop command
\* that the data part has started in the same pass of the loop: it is completed by
\* the response to the command before it.
EventsAreOwn ==
  /\ irq.pc = "data" /\ host.data => \A f \in DataFlags(irq.st) : f.n = core.n
  /\ irq.pc = "cmd" /\ host.cmd # "none" =>
       \A f \in CmdFlags(irq.st) :
         /\ f.n = core.n
         /\ f.of = host.cmd \/ (host.cmd = "stop" /\ DataFlags(irq.st) # {})

\* A request that ends without an error was accepted by the card, and if it has
\* data they were moved. (It may still hide the failure of the stop command, and a
\* garbled response that came in one status word with the end of the data.)
SuccessIsReal ==
  core.phase = "done" /\ ~core.cerr /\ ~core.derr =>
    core.accepted /\ (core.op # "none" => core.moved # NoBuf)

\* Every request ends, through retries, failures and stop commands, but for one: a
\* write that meets the stream a failed read has left enabled waits for ever, and the
\* core with it in mmc_wait_for_req(), which knows no timeout.
RequestEnds == core.phase = "wait" ~> (core.phase = "done" \/ Starved)

\* bytes_xfered, which drivers/mmc/card/block.c takes for written data on its error
\* path, counts data of this request, also when the data failed; only a command that
\* failed before its data were started reports the count of the request before.
BytesAreOwn ==
  core.phase = "done" /\ core.bytes /\ core.moved = NoBuf => core.cerr

\* Comment in mmc_dma_rx_start(): "Memory address: DMA buffer address". Said as: the
\* data of a request move to or from the buffer of that request.
OwnBuffer == core.moved \in {NoBuf, core.buf}
=============================================================================
