# TLA+ models of the STM32F7 Discovery Linux port

The repository is a Linux 2.6.33 (uClinux, no MMU) for the STM32F746 Discovery
board: a vendored kernel tree with the drivers and platform code of the port, a
root file system, and host tools that build, load and talk to the board. These
models are about the code the port owns. The upstream kernel appears only where
a modelled driver meets it.

There is one CPU and no kernel preemption (`CONFIG_SMP` and `CONFIG_PREEMPT` are
off). What runs concurrently is process context, softirqs, interrupt handlers
and the DMA engines; a spin lock does no more than switch interrupts off. The
models interleave exactly these actors.

## Inventory

Paths are relative to `src/linux-stm32f7-master/` unless they start with `src/`.

| Component | State | Operations | What is hard | What makes it correct |
|---|---|---|---|---|
| Ethernet driver, `drivers/net/arm/stm32_eth.c` | two descriptor rings with one ownership bit per descriptor, `tx_todo_idx`, `tx_done_idx`, `tx_pending`, `tx_blocked`, `rx_done_idx`, queue flag, NAPI flags, interrupt mask and status, DMA position | open, close, xmit, interrupt handler, tx_complete, NAPI poll | four actors on the rings, two locks that each cover a part, status acknowledged before and after the work | indices and pending count agree; a stopped queue is woken; no frame is left with a sleeping DMA; received frames are taken once, in order, and none waits without somebody coming |
| Ethernet buffers, same file | `sram_pointer` | stm32_sram_alloc, buffers_alloc, buffers_free | the two sides compute sizes separately | how many opens the memory lasts; the rings stay in the DTCM |
| Coherent DMA memory, `mm/dmamem.c` | sorted free list, used list | dmamem_alloc, dmamem_free | pointer surgery, alignment inside a block, kmalloc() between search and change, no lock | the lists partition the area, the free list is coalesced, a request fails only if no run fits |
| USART reception, `drivers/serial/stm32_usart.c` | reader and writer position, two buffers, stream registers and flags | startup, stop_rx, shutdown, two interrupt handlers | the stream moves on between register reads; flags acknowledged unseen | every character once and in order, and eventually |
| USART transmission, same file, and `drivers/serial/serial_core.c` | ring of the serial core, CR1, `x_char`, tty flags, the writer | start_tx, stop_tx, transmit, set_termios, console write; write, stop, start, flush, throttle, unthrottle, wake-up | CR1 read, changed and written by several contexts; x_char tested without the lock; a writer about to sleep | the ring keeps order; transmit interrupts are on while characters wait; a writer is woken; the XON/XOFF of a session is the right one |
| DMA streams, `arch/arm/mach-stm32/dmac.c` | in_use, handler, EN, direction, address per stream | get, put, init, set_*, enable, disable, request_irq, free_irq | refusal of an enabled stream is the caller's problem | a stream serves the request it was programmed for |
| SD host, `drivers/mmc/host/mmci.c` | current request, command, data; DMA stream | request, irq loop, start_data, start_command, request_end | data and command events in one status word, errors in the middle of a set-up, retries from inside completion | each request ends once, with its own answer and its own buffer |
| TFTP server, `src/tools/tftp_server.py` | block number, offset, tries | one thread per transfer | lost, late and duplicated packets, 16-bit block numbers | "Transfer complete" only if the board has the file |
| SD installation, `initdir/sbin/sdinstall`, `initdir/init` | card contents, what is mounted | partition, format, copy, sync, umount; boot test | power loss between two steps; steps whose failure nobody notices | "done" means that what was written is on the card; /init uses such a card; a bad card can be installed again |
| Console bridge, `src/userspace/tools/uart_bridge.c` | two descriptors, terminal mode | forward a key, emergency shell | a failing terminal | keys are not lost, the mode is restored |
| Serial tools, `src/tools/serd.py`, `upload.py`, `board.py` | input buffer | send, wait for a prompt | end of output guessed from silence | |
| Frame buffer, pins, clocks, timers, board tables | registers | set-up at boot | nothing concurrent | |
| USB host (`drivers/usb/dwc2`), upstream kernel | | | vendored | |

Interaction: the Ethernet driver is called by the network core (open, close and
xmit in process or softirq context, poll in softirq context) and by its
interrupt; it shares the rings with the DMA and nothing with the other drivers.
The USART driver takes its receive buffers from the coherent area that
`dmamem.c` manages, and so do other drivers through `dma_alloc_coherent()`. The
SD host drives one stream of `dmac.c`; the USART programs its stream directly.

## Modules

### StmEth — the Ethernet data path

Variables have the driver's names. `rx_own` and `tx_own` are the OWN bits of the
descriptors; `xmit`, `poll` and `irq` are the program counters of the three
pieces of code that can be in the middle of something; `napi` holds SCHED and
DISABLE; `dmasr` and `dmaier` keep the bits the driver looks at; `dma` is the
engine: running, transmit suspended, its place in each ring.

| Actions | Code |
|---|---|
| `OpenAlloc`, `OpenStart`, `OpenIrq` and their failures | `stm32_netdev_open()`, cut where an interrupt or the DMA can come in between |
| `CloseBegin`, `CloseNapi`, `CloseQueue`, `CloseHw` | `stm32_netdev_close()`; the first two are `napi_disable()`, which sets DISABLE and waits until it gets SCHED |
| `XmitCapture`, `XmitBusy`, `XmitOwn`, `XmitDemand`, `XmitStop` | `stm32_netdev_xmit()`, one step per locked section or device access |
| `IrqEnter`, `TxCompleteBd`, `TxCompleteEnd` | `stm32_eth_irq()` and its loop over descriptors |
| `PollStart` ... `PollResched` | `stm32_eth_rx_poll()` and `stm32_eth_rx_get()`; `PollStart` and `PollBudget` include what `net_rx_action()` does with the instance before and after the call |
| `DmaTxSent`, `DmaTxSuspend`, `DmaRxFrame`, `DmaRxNoBuf` | the engine (hardware) |

Frames have no content: a property here is about which descriptor belongs to
whom, never about bytes. Lengths, error bits and statistics are left out.

`TxDoneIrq` is the one parameter that is not a size. The driver enables the
transmit interrupt but never sets the descriptors' interrupt-on-completion bit.
With FALSE the engine behaves as the descriptors ask: sending a frame raises
nothing. With TRUE every frame raises TS, which is what the driver's structure
assumes. The run has FALSE, which is what the code does; safety is proved for both.

### EthSram — where the rings live

`stm32_sram_alloc()` is a pointer that goes up; `buffers_free()` takes it down by
a sum of its own. The module keeps the arithmetic of both (word alignment, the
four bytes behind each block, the descriptor and fake-skb sizes) and runs with
the board's numbers: 12 receive and 8 transmit buffers of 2044 bytes, from
address 4096 on, DTCM of 64 KB. Before the first open `probe` has taken two arrays of
pointers (`rx_skb`, `tx_skb`, 88 bytes with their guard words), which stay
(`ProbedPointer`).

### DmaMem and DmaMemAbs — the coherent allocator

`DmaMem` keeps a heap of list descriptors with `next` links, because that is what
the code gets right or wrong: `pdm`, the address of the link to change, is a
heap cell. An allocation is two steps, the search with the kmalloc() calls, which may
fail, and the change of the lists. The code takes no lock; that callers do not
interrupt each other is an assumption (no driver of the port allocates from an
interrupt handler). Addresses are pages: the code rounds size and alignment to pages
before it does anything.

`DmaMemAbs` is what callers are promised: a map from pages to allocations; an
allocation takes an aligned free run if there is one, a failure of memory
changes nothing, a free gives back what was allocated at that address.
`DmaMem` implements it under the mapping that reads the used list as that map.

### UsartRx — reception

The stream fills two buffers in turn, for ever. `w` and `r` are the driver's
`wbuf/wpos` and `rbuf/rpos`, `dma` is CR.CT and the number of cells written,
`flags` the half (HT) and full (TC) flags, `isr` the handler with its locals.
`ReadCt`, `ReadNdtr`, `ReadCt2`, `ReadNdtr2`, `Fetch`, `Ack` are the pieces of
`stm32_receive()` between device accesses; the stream may write between any two.
A character is its number in the stream modulo `SeqMod`, so that order, loss and
repetition are visible. The loop that copies characters is one step: it reads
cells the stream does not touch as long as it has not lapped the driver.

Two assumptions come from the driver's own comments: the stream is never a whole
buffer ahead of the driver (`NotLapped`; the code says it does not control
overflows), and it has fetched a character from the data register before the
idle handler reads that register (guard of `UsartIsr`). Switching the stream off
raises a last TC, as the hardware does.

### UsartTx — transmission

The ring of the serial core (`head`, `tail`, `buf`), the transmit-empty interrupt
(`txeie`, `txe`), `x_char`, the tty's flags and one writer in `n_tty_write()`. `task`
is the call of the serial core that is in progress, at the places where its
interrupts are on: between the copying and the starting in `uart_write()`, between
setting `tty->stopped` and `uart_stop()`, between the test of `x_char` and its
consequence in `uart_unthrottle()`, and between the read of CR1 and its write in
`set_termios()`. The handler (`TxEmptyIrq`, `IdleIrq`) and console output
(`ConsoleWrite`) come in anywhere; other calls and the tasklet come when no call is
running, since the kernel does not preempt. `Transmit` is `stm32_transmit()`, which both the handler
and `start_tx` call. Characters are numbered as in UsartRx. The writer is the
`!OPOST` branch of `n_tty_write()`; signals and non-blocking files are left out. A `write()` makes as many passes as it takes; between `WriteCopy` and
`WriteStart` it may be woken, which keeps it from sleeping.

The port may be closed while the tty is throttled (`Shutdown`). `uart_close()` shuts
the port down first; the XON of the `tty_ldisc_flush()` behind it is written to a
transmitter that is off, TXEIE stays on until the next start, and the other side is
still stopped when the port is opened again. `Hangup` clears `TTY_THROTTLED` without
an XON. Its `tty_ldisc_hangup()` has unthrottled the tty before, while the port was still
open (that is an `Unthrottle` step just before), so an XON is missing only if input
throttles the tty again in between. In both cases `flow` becomes "stale": an XOFF
nobody will take back before a later session throttles and unthrottles.

### Dmac and Mmci — the SD host and its stream

`Dmac` has one operator per function of `dmac.c` that the host calls, each from the
stream before to the stream after, with the two refusals (`-ENODEV`, `-EBUSY`).
`Mmci` composes it with the driver, the controller (`sd`: command path, data path,
status flags) and the part of the MMC core that starts requests and tries commands
again. The functions of the driver are operators on the whole device record (`Dev`),
because they call each other in the middle of a handler: `mmci_request_end()` calls
`mmc_request_done()`, which may call `mmci_request()`. The handler is three steps per
turn of its loop, the read of the status word and its data and command parts; card
and controller go on between them. Every status flag carries the number of the
command it belongs to: the driver cannot see it, the properties can.

The F7 runs the controller with hardware flow control (`variant_ux500`): the clock is
held while the FIFO is empty. A write whose DMA set-up was refused, because a failed
read has left the stream enabled, therefore never gets data and never an error flag
(`Starved`); `DataFails` is not enabled then, and `mmc_wait_for_req()` waits for ever.

### Tftp — the server

A thread per read request with its block number and tries, an acknowledgement
channel per thread and one channel to the client; a packet that is sent may be
lost. The wire carries `Number(idx)`, the block number modulo `BlockMod` (65536 in
the code), and that is all either side compares; `idx` is what the properties look
at. The client is U-Boot's, which is not in the repository: it listens to the thread
whose packet comes first, stores the next block, acknowledges again what it has, and
repeats its last acknowledgement when nothing comes. `late` counts the timeouts of
both sides, so that a failure can be traced to its causes.

### SdInstall — installation, boot and loss of power

`cache` is the card as the running system sees it, `disk` what would be there after a
loss of power; `Writeback` moves files from one to the other in any order and in
part. `Begin` ... `Finish` are the steps of `sdinstall`, `Die`, `CopyFails`, `SyncFails` and
`UmountFails` their failures, `Boot` ... `InitStays` the steps of `/init`, `RcS` the `mount -a` of the start-up
script with the fstab of the root it runs on. `PowerLoss` may come at any step.
A `mkfs.ext2` that does not end leaves nothing that mounts, or the old file system
with files damaged (`Torn`). The tests for block devices in `sdinstall` always succeed
(the nodes are static); that the card is there is the test of its size.

What is copied is six items: `bin`, `sbin`, `etc` (with `lib` and `usr`), which the script
checks, and `dev` (with `/init` and the mount points), `links` and `fstab`, which it does
not, no more than `sync` and `umount`. A failing `ln -sf` may have unlinked `/sbin/init`
already: `links` then damages `sbin` too (`Damaged`). A failing `sync` leaves one item
in part, on the card and, after `umount`, for everybody; a failing `umount` leaves the card
mounted. `failed` records the steps of the last run that failed, noticed or not.

## Runs

| Run | Instance | Shows |
|---|---|---|
| `eth` | 2 transmit and 2 receive descriptors, budget 1, no TS | the safety invariants of the rings, the queue flags and the interrupt mask over open, close and reopen; a received frame is taken, close() ends, and a stopped queue is woken as long as frames keep arriving: the handler of a receive interrupt also looks at TBUS and completes transmissions |
| `eth_tx_silent` (violation) | same, nothing assumed about arriving frames | the queue stays stopped: nobody asked for a transmit interrupt |
| `eth_captured_free` (violation) | same | a captured descriptor is completed before it is programmed; xmit() later captures one the DMA is sending |
| `eth_sram` | the board's sizes, up to 1000 opens | the exact leak per open (88 bytes); the rings leave the DTCM with open 228, and open 972 meets the BUG_ON() |
| `dmamem` | 4 pages from an odd page, requests of 1 to 3 pages, alignment 1 and 2 | partition, coalescing, first-fit completeness, and every step is a step of `DmaMemAbs` |
| `usart_rx` | buffers of 4, numbers modulo 16, up to 8 characters during a handler | order, no loss, drained on close, delivered while characters keep coming |
| `usart_tx` | ring of 4, wake-up below 2, writes of up to 5 | order in the ring; interrupt armed; writer woken; XON/XOFF of a session; every write ends; all over closes and hangups at any time |
| `mmci` | 2 buffers, 1 retry | assertions, rest between requests, events of the right command, honest results, every request ends unless it is a starved write |
| `mmci_buffer` (violation) | same | data of a read in the buffer of the failed one before it |
| `tftp` | 4 blocks, 3 tries, numbers modulo 2, 2 threads, 3 packets per channel | completion is true, blocks in place, failures have causes, threads end |
| `sdinstall` | 2 losses of power, 1 failing step | after "done" only unchecked steps have failed and the rest is whole on the card; init passes over a card finished without a failure only if it is not found in time; a panic has a cause; a card can always be installed again |
| `sdinstall_advice` (violation) | no loss, no failure needed | the card is mounted where the messages say to run sdinstall |

Bounds. Two descriptors in each ring and a budget of 1 give a full ring, an
exhausted budget and a poll that ends early; larger rings and budgets are covered by
the proofs of the same invariants. Four pages starting at an odd page
give aligned requests with a remainder before, behind, on both sides or nowhere,
and blocks that are freed with none, one or both neighbours free. Receive buffers of
4 characters have distinct half and full marks with a position strictly between, and
there are more character numbers than cells, so a stale cell never looks right. A
transmit ring of 4 has a full, an empty and a wrapped state on either side of a
wake-up mark of 2; writes of 5 exceed the 3 free slots, so that a writer has to sleep; 8
numbers exceed the ring. Two buffers in Mmci tell a request's own buffer from that of the
one before; numbers modulo 3 tell a command from its retry. In Tftp the numbers
wrap after every second block, the hardest case of what happens after 65536; two threads
are a repeated request; at most 3 packets are under way in one direction and a further one is
lost. One failing step and two losses of power meet in every order; a third loss
only repeats what the second can do, since the card is all that survives.

`TypeOK` is a property of `eth` and `usart_tx`, where it is part of what is proved; in
the other modules it describes the state for the reader, and the runs ask deeper
questions.

Deadlock is checked everywhere except in EthSram and Tftp, whose runs end when the
opens or the requests are used up, and in Mmci, where a starved write really hangs:
the core waits, no flag comes, and nothing else moves.

## Fairness

`StmEth`: an asserted, unmasked interrupt is taken when interrupts are on, the
softirq runs when the interrupted code is done, and interrupted code goes on
after both: strong fairness, because each of these is disabled again and again
by the others but not for ever prevented. The engine walks the transmit ring
until it suspends (weak). Nothing is assumed about callers of open, close or
xmit, nor about arriving frames; `TxWakeTraffic` names them as its premise.

`UsartRx`: a pending interrupt is served, a handler runs to its end, the stream
takes a waiting character (weak fairness each); `BusySpec` adds that characters
keep coming. Without that, `Delivered` is false: a full-buffer flag acknowledged
unseen leaves the last characters of a burst until the next interrupt. `Delivered`
also supposes that no more than one character arrives during a handler: at 115200
baud a character lasts 87 microseconds, far longer than the handler.

`UsartTx`: the transmitter shifts, the tasklet runs (weak); the writer, a call in
progress and the transmit interrupt get their turn although console output and other
calls disable them now and then (strong). Nothing is assumed about who starts a
stopped tty; `WriteEnds` names it.

`Mmci`: the controller answers or times out, data end or fail, the handler runs (weak).
The controller has timers for both, so this is what the hardware does by itself, as long
as the FIFO is served. A write with nobody to feed the FIFO is not assumed to fail: with
hardware flow control there is no underrun, and the data timer runs only while the card is
busy. `RequestEnds` names that write as the one request that does not end.

`Tftp`: a thread's `recvfrom()` returns, with a packet or after its timeout (weak).
Nothing is assumed of the client or of the network.

`SdInstall`: scripts go on (weak), and a user who wants the card installed boots with
`sdroot=off`, unmounts what rcS mounted, starts sdinstall, and reboots a board that
is stuck, each again and again (strong, since power may fail in between). `Recovers` is about such a user.

## Findings

Each is a violation run; `PROJECT.json` quotes the line of the repository that
says otherwise.

1. `eth_captured_free`: locking only the capture of a descriptor is not enough.
   The interrupt handler frees the captured descriptor; nothing is corrupted
   at once, but indices run ahead and a descriptor owned by the DMA is rewritten.
2. `eth_tx_silent`: no descriptor asks for a transmit interrupt.
3. `mmci_buffer`: a read command that fails leaves the DMA stream enabled; the next
   set-up is refused, the refusal is only logged, and the next read's data go to the
   wrong buffer. If the next transfer is a write it hangs (`RequestEnds`).
4. `sdinstall_advice`: sdinstall refuses a card that rcS has mounted a moment before,
   with the advice to do what was done. Unmounting `/mnt/sd` first helps, which is how
   `Recovers` holds.

The passing runs also state five things a reader may not expect. Every open of the
Ethernet device loses 88 bytes of on-chip memory (`SramLasts`). `bytes_xfered` of a
write whose command failed is the count of the request before (`BytesAreOwn` excludes
exactly that case; `drivers/mmc/card/block.c:447-450` counts on it being never too
large). The stop command after a transfer may be ended by the response to the command
before it, when both come in one status word (`EventsAreOwn` names it). A close of a
throttled tty leaves the other side stopped (`FlowAgrees` is about the XOFF of the
session). `sdinstall` says "done" although a step it does not check has failed, one of
which can take `/sbin/init` away (`DoneBoots` says what is still sure).

## What is proved

`StmEthProofs` proves, for every `TX_BUF_NUM`, `RX_BUF_NUM` and `BUDGET` greater
than zero and either value of `TxDoneIrq`, that `IInv` is an inductive invariant
of `Spec`, and from it the six invariants that `eth` checks and `RxArmed`
(the receive mask is off only while a poll will look again). `IInv` is
their conjunction with `ControlInv`. The stronger invariant is needed because
none of the seven is inductive alone:

- `TxIndexInv` and `BlockedIffStopped` need `xmit.pc # "idle" => phase = "up"`:
  open() clears the indices, which no running xmit() may survive.
- `RxNoLostWakeup` needs `RxArmed` (a masked interrupt is harmless only while a
  poll will look again), the states of close() (`napi.disable` holds exactly while
  closing), and what is true before the device is up: frames that arrive between
  `hw_start()` and `request_irq()` leave RS pending.
- `RxInOrder` needs that the poll's "next" step holds a descriptor the DMA has
  given back, and that a started engine began with all descriptors owned.

The argument is one lemma per conjunct (`TypeStep`, `ControlStep`,
`TxIndexStep`, `BlockedStep`, `ForgottenStep`, `RxArmedStep`, `RxWakeupStep`,
`RxOrderStep`), each with one case per action, on top of a few lemmas on
arithmetic modulo the ring size; `Invariance` combines them. `RxOrderStep` is the long one:
advancing either end of the ring changes the distance of every descriptor.

`EthSramProofs` proves that the pointer after n opens is exactly n leaks above
where `probe` left it (`EveryOpenLeaks`), and that the leak is one word per block
(`LeakIsTheGuardWords`), for every layout whose frame size is a multiple of four.

`SramIsUsedUp` adds when the leak ends in failure, for every layout whose frame size
is a multiple of four: the rings stay in the DTCM for exactly `DtcmOpens` opens and
`stm32_sram_alloc()` stays below its `BUG_ON()` for exactly `SramOpens`. Its hypothesis
`LastOpens` says what these two numbers are: the last opens whose rings end inside
the DTCM and inside the SRAM. It holds for the board, with the 88 bytes of `probe`:
4096 + 88 + 227 * 88 + 41360 = 65520 is within 65536 and 88 bytes more are not;
4096 + 88 + 971 * 88 + 41360 = 130992 is below 131072 and 88 bytes more are not.

`UsartTxProofs` proves, for every ring size, wake-up mark below it and length of a
write, that `IInv` is an inductive invariant of `Spec`, and from it `TypeOK`,
`TxArmed`, `SleeperWoken`, `FlowAgrees` and `RingInOrder`. What has to be added:

- `CallKeeps`: what a call saw is still worth acting on when it goes on. A
  `set_termios()` that saw TXEIE off did so with nothing to send, and in the middle of it
  nobody adds characters; without that, writing CR1 back could disarm a full ring.
- `FlowInv`: a pending `x_char` occurs only inside the call that sends it, because
  `start_tx` sends it at once. That is why the unlocked test in `uart_unthrottle()`
  never takes back an XOFF. A session that ends throttled leaves `flow` "stale", never
  "XOFF", so the next one starts with the invariant whatever the peer still obeys.
- `NoRoomInv`: a writer that found no room has left a ring above the mark, or its
  wake-up is on the way.
- `RingInv`: a closed port has an empty ring. The argument for `RingInOrder` is
  arithmetic on two circles, the places of the ring and the numbers of the
  characters; lemmas (`Ahead`, `Onward`, `FurtherAhead`, `SeenFrom`) say how the
  distance from the tail changes when head or tail moves, and `RingRead` and
  `RingWrite` apply them to a character taken and to a chunk copied in.

`UsartRxProofs` proves, for every buffer length, number of characters during a handler and modulus of
at least two buffers, `InOrder`, `ReaderBehind`, `NoCharMissed` and
`StoppedDrained`. The invariant says in `CellsInv` and `LineInv` that the cells
from the reader to the stream, the data register and the next character have consecutive numbers,
over both buffers when the stream is already in the other one. `IsrInv` says what the
locals of `stm32_receive()` are worth at each of its steps: the stream changes buffers
at most once during a handler (`NotLapped`), so a position that was read between two
equal buffer numbers belongs to that buffer and is not ahead of the stream.
`StoppedInv` says that the registers of a stopped stream are exact.

`MmciProofs` proves, for every set of buffers and number of retries,
`AssertionsHold`, `QuietWhenDone`, `EventsAreOwn`, `SuccessIsReal` and `BytesAreOwn`.
`DataInv` and `CmdInv` carry the argument: a flag that is up, or in the copy of the
status word that the handler is working on, was raised by the command or transfer
under way, and that path of the controller is off; the only exception is a stop command started by the
data part of the same pass. `AtRest` says that nothing is left between
requests, which a request started from inside `mmc_request_done()` relies on;
`Outcome` says what is settled when the stop command is under way. Because the
driver's functions call each other on the whole device record, each has a lemma
that gives the fields it leaves behind.

`SdInstallProofs` proves, for any number of losses of power and failing steps,
`DoneBoots`, `PanicHasCause` and the action property `DoneIsUsed`. `CopiedSoFar` says what is on
the root partition at each step of `sdinstall`, unless `failed` has the step that was to
write it (`/sbin`, which `/init` tests, is copied
after `/bin` is whole); `Stages` that a run that goes on has met only unchecked failures,
and that `/init` gives up after five tries and not before; `NothingCached` that after "done" the card and the
cache agree, so that a loss of power takes nothing away; `BadRootHasCause`
carries the cause of a damaged root over any number of boots.

`TftpProofs` proves, for files of any length, block numbers of any width (two values
are enough), any number of tries, threads and packets on the way, `CompleteIsTrue`,
`StoredInPlace` and `FailureHasCauses`. The invariant has two parts.

- `SafeInv`: packets do not overtake each other (`OrderInv`), the thread the board
  listens to is at the block the board has stored or at the next one, and so is
  everything on the way between them (`PeerInv`). Numbers on the wire can thus
  confuse only neighbours, and those differ modulo anything above 1.
- `TriesInv`: as long as fewer than `Tries` timeouts have happened, a thread has at
  most one packet or answer more on the way than timeouts, and the tries of the
  current block, together with the packets and answers of the block before that can
  still cost a try, are no more than that either. An acknowledgement of the block before
  costs a try but is used up by it; a repeated block is answered with one
  acknowledgement; only a timeout adds to the sum.

`DmaMemProofs` proves, for every area and every set of sizes and alignments that are
asked for, `Partition`, `FreeListCoalesced`, `FirstFitComplete` and, as the theorem
`Refinement`, that `Spec` implements `DmaMemAbs` (`ImplementsAbs`). The three invariants
say what the lists hold, and that depends on every link; none is inductive by
itself. `IInv` says:

- the blocks, whatever list they are in, tile the area (`Tiling`);
- each list is a path, a function from places to descriptors that starts at the head
  and ends in NIL, and the two paths share nothing (`Path`, `TwoLists`);
- the free list is sorted with a gap between any two blocks (`Sorted`);
- if an allocation is between its search and its change, the block and the link it
  holds are those of the first block that fits (`Found`), which is why the change is
  right although it comes after kmalloc().

What `dmamem_alloc()` and `dmamem_free()` do to the lists is put together from three
changes: a new descriptor takes the front of a block (`Split`), a block goes to the
other list (`Move`), a block absorbs its neighbour (`Join`). Each has a lemma for
the tiling, one for the lists and one for the order. Between them a freed or cut block may
touch its neighbours, so the order is kept as `SortedBut`, which names the pairs
that may; `CarveGrown` and `ReleaseShrunk` show that no such pair is left at the end,
in the four cases of each function (front cut off or not, block larger or not;
joined above or not, below or not).

`Nth` and `LinkTo` walk the links. That the walk follows the path (`NthIs`) and stops at the
first element it looks for (`LinkIs`) is shown with a least counterexample
(`LeastNumber`, from the library's `WFMin`), not by induction. That it is long enough, and
that `NewId` always has a descriptor to give, is counting: each block has a first page of
its own, so there are no more blocks than pages (`FewBlocks`). `FirstFitComplete` and the
refinement rest on `AlignUpIs` (rounding gives the lowest aligned page), on
`RunInBlock` (a free run lies in a single block, because of the gaps) and on
`OwnerIs` (a page is owned by exactly the used block it lies in). TLC checked `IInv`, with its
paths computed by `Nth`, on the instance of `dmamem` before it was proved.

Assumptions are the named ASSUMEs of the modules: sizes are positive naturals, and what
relates them (a wake-up mark below the ring size, no fewer numbers than cells).

Only model-checked:

- All liveness properties: the prover has no rules for fairness.
- The four findings, which are counterexamples.

## Plan

Every invariant that a passing run checks is proved, and so is the refinement; what
stays with TLC is liveness. Left for further work are the parts under "Not modelled",
first of all the receive errors and buffer allocation of the USART driver and `set_ios` of the SD host,
and the hazards in `PROJECT.json` that no property covers.

## Not modelled

- MDIO, link changes, the MAC filter and statistics of the Ethernet driver: they share
  no state with the rings except through the MAC reset that `OpenStart` contains.
- The allocation of the USART's receive buffers (two pages of coherent memory are
  taken on every open and never given back) and receive errors.
- Reception while the stream is lapped, or while the idle handler reads a character
  from the data register before the stream has: timing the code does not control.
- `set_ios`, card detection, PIO, suspend and remove of the SD host; the
  `get`/`put`/`request_irq`/`free_irq` functions of `dmac.c`, which are called at probe
  time only.
- What is in the USART's shift register when the port is shut down, and signals to a
  writer.
- Failures of `sdinstall` that leave more than one item damaged by one step, other than the
  links.
- The console bridge, a single process with two descriptors.
- The serial tools of the host depend on real time and on text. The frame buffer,
  pins, clocks, timers and board tables are set up once, at boot, by one thread.
- The USB host driver and the rest of the kernel (well over eleven million lines)
  are vendored.
