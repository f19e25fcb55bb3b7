-------------------------------- MODULE Tftp --------------------------------
(***************************************************************************)
(* The TFTP server that boots the board (tools/tftp_server.py): a thread   *)
(* and a socket for every read request, one block sent at a time, a number *)
(* of tries for each block. The client is the boot loader; it is not part  *)
(* of the repository and is modelled as the server's code takes it to be:  *)
(* it acknowledges blocks, may acknowledge one again, repeats its last     *)
(* packet when nothing comes, and listens to the first thread that answers.*)
(*                                                                         *)
(* Packets may be lost or late, but do not overtake each other. A packet   *)
(* carries the block's number modulo BlockMod on the wire; idx, the place  *)
(* of the block in the file, is there for the properties.                  *)
(***************************************************************************)
EXTENDS Integers, Sequences

CONSTANTS
  Blocks,       \* packets the file needs; the last one is short
  Tries,        \* range(5)
  BlockMod,     \* block numbers on the wire: 2^16
  MaxThreads,   \* bound: read requests that are served
  Cap           \* bound: packets on the way; one more is lost

Threads == 1 .. MaxThreads

ASSUME FileAssumption   == Blocks \in Nat \ {0}
ASSUME TriesAssumption  == Tries \in Nat \ {0}
ASSUME ModAssumption    == BlockMod \in Nat \ {0, 1}
ASSUME ThreadAssumption == MaxThreads \in Nat /\ Cap \in Nat

VARIABLES
  readable,  \* the file can be opened
  option,    \* the request asks for a block size other than 512
  rrq,       \* read requests waiting at the server's port
  pc,        \* where each thread is
  block_num, \* its current block
  retry,     \* how often it has sent that block
  ack,       \* packets on the way to each thread's socket
  toBoard,   \* packets on the way to the client
  board,     \* the client: state, thread it listens to, blocks stored
  late       \* timeouts of each thread and repeated packets to it, up to Tries

vars == <<readable, option, rrq, pc, block_num, retry, ack, toBoard, board, late>>

Packet == [op : {"DATA", "ACK", "OACK", "ERROR"}, from : {0} \cup Threads, idx : 0 .. Blocks]

TypeOK ==
  /\ readable \in BOOLEAN /\ option \in BOOLEAN
  /\ rrq \in 0 .. Cap
  /\ pc \in [Threads -> {"new", "oack", "data", "complete", "failed", "closed"}]
  /\ block_num \in [Threads -> 0 .. Blocks]
  /\ retry \in [Threads -> 0 .. Tries]
  /\ ack \in [Threads -> Seq(Packet)]
  /\ \A t \in Threads : Len(ack[t]) <= Cap
  /\ toBoard \in Seq(Packet) /\ Len(toBoard) <= Cap
  /\ board \in [state : {"off", "rrq", "data", "done", "error"}, peer : {0} \cup Threads,
                stored : 0 .. Blocks, misplaced : BOOLEAN]
  /\ late \in [Threads -> 0 .. Tries]

Init ==
  /\ readable \in BOOLEAN /\ option \in BOOLEAN
  /\ rrq = 0
  /\ pc = [t \in Threads |-> "new"]
  /\ block_num = [t \in Threads |-> 0]
  /\ retry = [t \in Threads |-> 0]
  /\ ack = [t \in Threads |-> <<>>]
  /\ toBoard = <<>>
  /\ board = [state |-> "off", peer |-> 0, stored |-> 0, misplaced |-> FALSE]
  /\ late = [t \in Threads |-> 0]

Number(idx) == idx % BlockMod

\* What a channel may be after a packet was sent into it.
Sent(ch, m) == {ch} \cup (IF Len(ch) < Cap THEN {Append(ch, m)} ELSE {})

Later(t) == [late EXCEPT ![t] = IF @ < Tries THEN @ + 1 ELSE @]

-----------------------------------------------------------------------------
(* The server.                                                              *)

DataPacket(t, n) == [op |-> "DATA", from |-> t, idx |-> n]

\* run_server() takes a request and starts a thread; handle_client() reads the file
\* and sends an option acknowledgement, the first block, or an error.
Serve(t) ==
  LET reply == IF ~readable THEN [op |-> "ERROR", from |-> t, idx |-> 0]
               ELSE IF option THEN [op |-> "OACK", from |-> t, idx |-> 0]
               ELSE DataPacket(t, 1)
  IN  /\ rrq > 0 /\ pc[t] = "new"
      /\ \A u \in Threads : u < t => pc[u] # "new"
      /\ rrq' = rrq - 1
      /\ pc' = [pc EXCEPT ![t] = IF ~readable THEN "closed"
                                 ELSE IF option THEN "oack" ELSE "data"]
      /\ block_num' = [block_num EXCEPT ![t] = IF readable /\ ~option THEN 1 ELSE 0]
      /\ retry' = [retry EXCEPT ![t] = IF readable /\ ~option THEN 1 ELSE 0]
      /\ toBoard' \in Sent(toBoard, reply)
      /\ UNCHANGED <<readable, option, ack, board, late>>

\* The answer to the option acknowledgement: ACK 0, or the thread ends.
OackAnswered(t) ==
  LET m    == Head(ack[t])
      good == m.op = "ACK" /\ Number(m.idx) = 0
  IN  /\ pc[t] = "oack" /\ ack[t] # <<>>
      /\ ack' = [ack EXCEPT ![t] = Tail(@)]
      /\ pc' = [pc EXCEPT ![t] = IF good THEN "data" ELSE "closed"]
      /\ block_num' = [block_num EXCEPT ![t] = IF good THEN 1 ELSE @]
      /\ retry' = [retry EXCEPT ![t] = IF good THEN 1 ELSE @]
      /\ IF good THEN toBoard' \in Sent(toBoard, DataPacket(t, 1)) ELSE UNCHANGED toBoard
      /\ UNCHANGED <<readable, option, rrq, board, late>>

\* It is not repeated.
OackTimeout(t) ==
  /\ pc[t] = "oack"
  /\ pc' = [pc EXCEPT ![t] = "closed"]
  /\ late' = Later(t)
  /\ UNCHANGED <<readable, option, rrq, block_num, retry, ack, toBoard, board>>

\* Mutant: the number is not compared.
AcknowledgesAny(t, m) == m.op = "ACK"

\* Is this the acknowledgement of the current block?
Acknowledges(t, m) == m.op = "ACK" /\ Number(m.idx) = Number(block_num[t])

\* Mutant: no end to the tries.
SendAgainForever(t) ==
  /\ retry' = [retry EXCEPT ![t] = IF @ < Tries THEN @ + 1 ELSE @]
  /\ toBoard' \in Sent(toBoard, DataPacket(t, block_num[t]))
  /\ UNCHANGED pc

\* The next turn of "for retry in range(5)": the block again, or give up.
SendAgain(t) ==
  IF retry[t] < Tries
  THEN /\ retry' = [retry EXCEPT ![t] = @ + 1]
       /\ toBoard' \in Sent(toBoard, DataPacket(t, block_num[t]))
       /\ UNCHANGED pc
  ELSE /\ pc' = [pc EXCEPT ![t] = "failed"]
       /\ UNCHANGED <<retry, toBoard>>

\* len(chunk) < blksize
LastBlock(n) == n = Blocks

\* Mutant: the tries of the block before are counted too.
SameTries(t) == retry[t]

\* The tries of a block when it is sent for the first time.
FirstTry(t) == 1

BlockAcked(t) ==
  /\ pc[t] = "data" /\ ack[t] # <<>> /\ Acknowledges(t, Head(ack[t]))
  /\ ack' = [ack EXCEPT ![t] = Tail(@)]
  /\ IF LastBlock(block_num[t])
     THEN /\ pc' = [pc EXCEPT ![t] = "complete"]
          /\ UNCHANGED <<block_num, retry, toBoard>>
     ELSE /\ block_num' = [block_num EXCEPT ![t] = @ + 1]
          /\ retry' = [retry EXCEPT ![t] = FirstTry(t)]
          /\ toBoard' \in Sent(toBoard, DataPacket(t, block_num[t] + 1))
          /\ UNCHANGED pc
  /\ UNCHANGED <<readable, option, rrq, board, late>>

\* Any other packet costs a try, like silence does.
OtherPacket(t) ==
  /\ pc[t] = "data" /\ ack[t] # <<>> /\ ~Acknowledges(t, Head(ack[t]))
  /\ ack' = [ack EXCEPT ![t] = Tail(@)]
  /\ SendAgain(t)
  /\ UNCHANGED <<readable, option, rrq, block_num, board, late>>

DataTimeout(t) ==
  /\ pc[t] = "data"
  /\ SendAgain(t)
  /\ late' = Later(t)
  /\ UNCHANGED <<readable, option, rrq, block_num, ack, board>>

-----------------------------------------------------------------------------
(* The client (external).                                                   *)

BoardAck(t, n) ==
  ack' \in {[ack EXCEPT ![t] = ch] :
              ch \in Sent(ack[t], [op |-> "ACK", from |-> 0, idx |-> n])}

\* Ask for the file, and again when there is no answer.
Request ==
  /\ board.state \in {"off", "rrq"}
  /\ board' = [board EXCEPT !.state = "rrq"]
  /\ rrq' \in {rrq} \cup (IF rrq < Cap THEN {rrq + 1} ELSE {})
  /\ UNCHANGED <<readable, option, pc, block_num, retry, ack, toBoard, late>>

\* The first answer decides which thread the client listens to.
Listens(t) == board.state = "rrq" \/ (board.state = "data" /\ board.peer = t)

BoardOack ==
  LET m == Head(toBoard)
  IN  /\ toBoard # <<>> /\ m.op = "OACK" /\ board.state = "rrq"
      /\ toBoard' = Tail(toBoard)
      /\ board' = [board EXCEPT !.state = "data", !.peer = m.from]
      /\ BoardAck(m.from, 0)
      /\ UNCHANGED <<readable, option, rrq, pc, block_num, retry, late>>

NextBlock(m) ==
  /\ m.op = "DATA" /\ Listens(m.from)
  /\ Number(m.idx) = Number(board.stored + 1)

\* The next block is stored and acknowledged. After the last one the kernel is
\* started: nothing is answered any more.
BoardData ==
  LET m == Head(toBoard)
  IN  /\ toBoard # <<>> /\ NextBlock(m)
      /\ toBoard' = Tail(toBoard)
      /\ board' = [state |-> IF board.stored + 1 = Blocks THEN "done" ELSE "data",
                   peer |-> m.from,
                   stored |-> board.stored + 1,
                   misplaced |-> board.misplaced \/ m.idx # board.stored + 1]
      /\ BoardAck(m.from, board.stored + 1)
      /\ UNCHANGED <<readable, option, rrq, pc, block_num, retry, late>>

\* A block it has already: acknowledged again (or, with the answer lost, passed over).
BoardOldData ==
  LET m == Head(toBoard)
  IN  /\ toBoard # <<>> /\ m.op = "DATA" /\ Listens(m.from) /\ ~NextBlock(m)
      /\ toBoard' = Tail(toBoard)
      /\ BoardAck(m.from, m.idx)
      /\ UNCHANGED <<readable, option, rrq, pc, block_num, retry, board, late>>

\* Packets of other threads, repeated option acknowledgements, errors.
BoardIgnores ==
  LET m == Head(toBoard)
  IN  /\ toBoard # <<>>
      /\ ~(m.op = "OACK" /\ board.state = "rrq") /\ ~(m.op = "DATA" /\ Listens(m.from))
      /\ toBoard' = Tail(toBoard)
      /\ board' = IF m.op = "ERROR" /\ board.state = "rrq"
                  THEN [board EXCEPT !.state = "error"] ELSE board
      /\ UNCHANGED <<readable, option, rrq, pc, block_num, retry, ack, late>>

\* Nothing came for a while: the last acknowledgement again.
BoardTimeout ==
  /\ board.state = "data"
  /\ BoardAck(board.peer, board.stored)
  /\ late' = Later(board.peer)
  /\ UNCHANGED <<readable, option, rrq, pc, block_num, retry, toBoard, board>>

-----------------------------------------------------------------------------
ServerStep(t) ==
  Serve(t) \/ OackAnswered(t) \/ OackTimeout(t) \/ BlockAcked(t) \/ OtherPacket(t) \/ DataTimeout(t)

BoardReceives == BoardOack \/ BoardData \/ BoardOldData \/ BoardIgnores

Next ==
  \/ \E t \in Threads : ServerStep(t)
  \/ Request \/ BoardReceives \/ BoardTimeout

Spec == Init /\ [][Next]_vars

\* A thread's recvfrom() returns, with a packet or at its timeout.
FairSpec == Spec /\ \A t \in Threads : WF_vars(ServerStep(t))

-----------------------------------------------------------------------------
\* "Transfer complete" is said only of a thread that has delivered the whole file to
\* the board, however late, repeated or lost the packets were and however many
\* threads served the same request.
CompleteIsTrue ==
  \A t \in Threads :
    pc[t] = "complete" => board.peer = t /\ board.stored = Blocks /\ board.state = "done"

\* Every block the board stored is the one that belongs there, although only its
\* number modulo BlockMod is on the wire.
StoredInPlace == ~board.misplaced

\* A thread gives up a block only after Tries timeouts, its own or the board's, in the
\* whole transfer: repeated acknowledgements, which cost a try each and make the
\* thread send a block again that is acknowledged again, do not add up by themselves.
FailureHasCauses ==
  \A t \in Threads : pc[t] = "failed" => late[t] = Tries

\* Every thread ends: it says complete or failed, or closes its socket.
ThreadEnds ==
  \A t \in Threads :
    pc[t] \in {"oack", "data"} ~> pc[t] \in {"complete", "failed", "closed"}
=============================================================================
