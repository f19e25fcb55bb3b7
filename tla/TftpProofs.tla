----------------------------- MODULE TftpProofs -----------------------------
(***************************************************************************)
(* Proofs about the TFTP server in Tftp: for files of any length, any      *)
(* number of tries, block numbers of any width, and any number of threads  *)
(* and packets on the way.                                                 *)
(***************************************************************************)
EXTENDS Tftp, FiniteSetTheorems, TLAPS

AckPacket(n) == [op |-> "ACK", from |-> 0, idx |-> n]

(* The packets of a channel, those of one kind in their order, and how many *)
(* there are.                                                               *)
In(q) == {q[i] : i \in 1 .. Len(q)}

Rising(q, S) ==
  \A i, j \in 1 .. Len(q) : i < j /\ q[i] \in S /\ q[j] \in S => q[i].idx <= q[j].idx

Hits(q, S) == {i \in 1 .. Len(q) : q[i] \in S}

Count(q, S) == Cardinality(Hits(q, S))

FromThread(t) == {m \in Packet : m.from = t}
DataOf(t)     == {m \in Packet : m.op = "DATA" /\ m.from = t}

-----------------------------------------------------------------------------
(* The client listens to nobody, or to one thread until it has the file.    *)
BoardInv ==
  /\ board.peer = 0 <=> board.state \in {"off", "rrq", "error"}
  /\ board.peer = 0 => board.stored = 0
  /\ board.state = "done" <=> board.stored = Blocks
  /\ ~board.misplaced

(* What is on the way to the client was sent by a thread that has begun.    *)
QueueInv ==
  \A m \in In(toBoard) :
    /\ m.from \in Threads /\ pc[m.from] # "new"
    /\ m.op = "DATA" =>
         pc[m.from] # "oack" /\ 1 <= m.idx /\ m.idx <= block_num[m.from]
    /\ m.op = "OACK" /\ m.from # board.peer => pc[m.from] \in {"oack", "closed"}

AckInv == \A t \in Threads : \A m \in In(ack[t]) : m = AckPacket(m.idx)

(* Packets do not overtake each other.                                      *)
OrderInv ==
  \A t \in Threads : Rising(toBoard, DataOf(t)) /\ Rising(ack[t], Packet)

(* The thread the client listens to is at the block the client stored last  *)
(* or at the next one. What is on the way is between the two as well: no    *)
(* more than two neighbouring blocks are ever confused.                     *)
PeerInv(t) ==
  /\ pc[t] # "new"
  /\ board.stored <= block_num[t] /\ block_num[t] <= board.stored + 1
  /\ \A m \in In(toBoard) : m \in DataOf(t) => board.stored <= m.idx
  /\ \A m \in In(ack[t]) : block_num[t] - 1 <= m.idx /\ m.idx <= board.stored
  /\ pc[t] = "complete" => board.stored = Blocks

ThreadInv ==
  \A t \in Threads :
    /\ pc[t] \in {"new", "oack"} => block_num[t] = 0
    /\ pc[t] \in {"data", "complete", "failed"} => 1 <= block_num[t]
    /\ t = board.peer => PeerInv(t)
    /\ t # board.peer => ack[t] = <<>> /\ block_num[t] <= 1 /\ pc[t] # "complete"

(* Every packet beyond the first one was caused by a timeout; and so was    *)
(* every try of the current block beyond the first one, together with those *)
(* that packets of the block before it can still cost.                      *)
OnTheWay(t) == Count(toBoard, FromThread(t)) + Len(ack[t])

Behind(t) ==
  Count(toBoard, {DataPacket(t, block_num[t] - 1)})
    + Count(ack[t], {AckPacket(block_num[t] - 1)})

TriesOf(t) ==
  late[t] < Tries =>
    /\ OnTheWay(t) <= 1 + late[t]
    /\ pc[t] = "data" => retry[t] + Behind(t) <= 1 + late[t]
    /\ pc[t] # "failed"

TriesInv == \A t \in Threads : TriesOf(t)

SafeInv == TypeOK /\ BoardInv /\ QueueInv /\ AckInv /\ OrderInv /\ ThreadInv
IInv == SafeInv /\ TriesInv

-----------------------------------------------------------------------------
(* Channels.                                                                *)

LEMMA TailFacts ==
  ASSUME NEW q \in Seq(Packet), q # <<>>
  PROVE  /\ Tail(q) \in Seq(Packet) /\ Len(q) \in Nat /\ Len(q) > 0 /\ Len(Tail(q)) = Len(q) - 1
         /\ \A i \in 1 .. Len(q) - 1 : Tail(q)[i] = q[i + 1]
         /\ Head(q) = q[1] /\ Head(q) \in Packet /\ Head(q) \in In(q)
         /\ In(Tail(q)) \subseteq In(q) /\ In(q) \subseteq Packet
<1>1. /\ Tail(q) \in Seq(Packet) /\ Len(q) \in Nat /\ Len(q) > 0 /\ Len(Tail(q)) = Len(q) - 1
      /\ \A i \in 1 .. Len(q) - 1 : Tail(q)[i] = q[i + 1]
      /\ Head(q) = q[1] /\ \A i \in 1 .. Len(q) : q[i] \in Packet
  OBVIOUS
<1>2. Head(q) \in Packet /\ Head(q) \in In(q)
  <2>1. 1 \in 1 .. Len(q)
    BY <1>1
  <2> QED BY <1>1, <2>1 DEF In
<1>3. In(Tail(q)) \subseteq In(q)
  <2> SUFFICES ASSUME NEW i \in 1 .. Len(Tail(q)) PROVE Tail(q)[i] \in In(q)
    BY DEF In
  <2>1. i \in 1 .. Len(q) - 1 /\ i + 1 \in 1 .. Len(q)
    BY <1>1
  <2> QED BY <1>1, <2>1 DEF In
<1> QED BY <1>1, <1>2, <1>3 DEF In

LEMMA SentFacts ==
  ASSUME NEW q \in Seq(Packet), Len(q) <= Cap, NEW m \in Packet, NEW p \in Sent(q, m)
  PROVE  /\ p \in Seq(Packet) /\ Len(p) <= Cap /\ In(p) \subseteq In(q) \cup {m}
         /\ p = q \/ p = Append(q, m)
<1>1. p = q \/ (p = Append(q, m) /\ Len(q) < Cap)
  BY DEF Sent
<1>2. CASE p = q
  BY <1>2
<1>3. CASE p = Append(q, m) /\ Len(q) < Cap
  <2>1. /\ p \in Seq(Packet) /\ Len(p) = Len(q) + 1 /\ Len(q) \in Nat
        /\ \A i \in 1 .. Len(q) : p[i] = q[i]
        /\ p[Len(q) + 1] = m
    BY <1>3
  <2>2. In(p) \subseteq In(q) \cup {m}
    <3> SUFFICES ASSUME NEW i \in 1 .. Len(p) PROVE p[i] \in In(q) \cup {m}
      BY DEF In
    <3>1. i \in 1 .. Len(q) \/ i = Len(q) + 1
      BY <2>1
    <3> QED BY <2>1, <3>1 DEF In
  <2> QED BY <1>3, <2>1, <2>2, ThreadAssumption
<1> QED BY <1>1, <1>2, <1>3

LEMMA RisingTail ==
  ASSUME NEW q \in Seq(Packet), q # <<>>, NEW S, Rising(q, S)
  PROVE  /\ Rising(Tail(q), S)
         /\ Head(q) \in S => \A x \in In(Tail(q)) : x \in S => Head(q).idx <= x.idx
<1>1. /\ Len(q) \in Nat /\ Len(q) > 0 /\ Len(Tail(q)) = Len(q) - 1 /\ Head(q) = q[1]
      /\ \A i \in 1 .. Len(q) - 1 : Tail(q)[i] = q[i + 1]
  BY TailFacts
<1>2. Rising(Tail(q), S)
  <2> SUFFICES ASSUME NEW i \in 1 .. Len(Tail(q)), NEW j \in 1 .. Len(Tail(q)), i < j,
                      Tail(q)[i] \in S, Tail(q)[j] \in S
               PROVE  Tail(q)[i].idx <= Tail(q)[j].idx
    BY DEF Rising
  <2>1. /\ i \in 1 .. Len(q) - 1 /\ j \in 1 .. Len(q) - 1
        /\ i + 1 \in 1 .. Len(q) /\ j + 1 \in 1 .. Len(q) /\ i + 1 < j + 1
    BY <1>1
  <2> QED BY <1>1, <2>1 DEF Rising
<1>3. ASSUME Head(q) \in S, NEW x \in In(Tail(q)), x \in S PROVE Head(q).idx <= x.idx
  <2>1. PICK i \in 1 .. Len(Tail(q)) : x = Tail(q)[i]
    BY <1>3 DEF In
  <2>2. i \in 1 .. Len(q) - 1 /\ i + 1 \in 1 .. Len(q) /\ 1 < i + 1 /\ 1 \in 1 .. Len(q)
    BY <1>1, <2>1
  <2> QED BY <1>1, <1>3, <2>1, <2>2 DEF Rising
<1> QED BY <1>2, <1>3

LEMMA RisingSent ==
  ASSUME NEW q \in Seq(Packet), NEW m \in Packet, NEW p \in Sent(q, m), NEW S, Rising(q, S),
         m \in S => \A x \in In(q) : x \in S => x.idx <= m.idx
  PROVE  Rising(p, S)
<1>1. CASE p = q
  BY <1>1
<1>2. CASE p = Append(q, m)
  <2>1. /\ Len(p) = Len(q) + 1 /\ Len(q) \in Nat /\ p[Len(q) + 1] = m
        /\ \A i \in 1 .. Len(q) : p[i] = q[i]
    BY <1>2
  <2> SUFFICES ASSUME NEW i \in 1 .. Len(p), NEW j \in 1 .. Len(p), i < j, p[i] \in S, p[j] \in S
               PROVE  p[i].idx <= p[j].idx
    BY DEF Rising
  <2>2. i \in 1 .. Len(q) /\ p[i] = q[i] /\ q[i] \in In(q)
    BY <2>1 DEF In
  <2>3. CASE j \in 1 .. Len(q)
    BY <2>1, <2>2, <2>3 DEF Rising
  <2>4. CASE j = Len(q) + 1
    BY <2>1, <2>2, <2>4
  <2> QED BY <2>1, <2>3, <2>4
<1> QED BY <1>1, <1>2 DEF Sent

-----------------------------------------------------------------------------
(* Counting packets.                                                        *)

LEMMA CountBounds ==
  ASSUME NEW q \in Seq(Packet), NEW S
  PROVE  IsFiniteSet(Hits(q, S)) /\ Count(q, S) \in Nat /\ Count(q, S) <= Len(q) /\ Len(q) \in Nat
<1>1. Len(q) \in Nat
  OBVIOUS
<1>2. IsFiniteSet(1 .. Len(q)) /\ Cardinality(1 .. Len(q)) = Len(q)
  BY <1>1, FS_Interval
<1>3. Hits(q, S) \in SUBSET (1 .. Len(q))
  BY DEF Hits
<1>4. IsFiniteSet(Hits(q, S)) /\ Cardinality(Hits(q, S)) <= Len(q)
  BY <1>2, <1>3, FS_Subset
<1> QED BY <1>1, <1>4, FS_CardinalityType DEF Count

LEMMA CountFewer ==
  ASSUME NEW q \in Seq(Packet), NEW S, NEW R, \A m \in In(q) : m \in R => m \in S
  PROVE  Count(q, R) <= Count(q, S)
<1>1. Hits(q, R) \in SUBSET Hits(q, S)
  BY DEF Hits, In
<1> QED BY <1>1, CountBounds, FS_Subset DEF Count

LEMMA CountNone ==
  ASSUME NEW q \in Seq(Packet), NEW S, \A m \in In(q) : m \notin S
  PROVE  Count(q, S) = 0
<1>1. Hits(q, S) = {}
  BY DEF Hits, In
<1> QED BY <1>1, FS_EmptySet DEF Count

LEMMA CountSent ==
  ASSUME NEW q \in Seq(Packet), NEW m \in Packet, NEW p \in Sent(q, m), NEW S
  PROVE  Count(p, S) <= Count(q, S) + (IF m \in S THEN 1 ELSE 0)
<1>1. Count(q, S) \in Nat /\ IsFiniteSet(Hits(q, S))
  BY CountBounds
<1>2. CASE p = q
  BY <1>1, <1>2
<1>3. CASE p = Append(q, m)
  <2>1. /\ Len(p) = Len(q) + 1 /\ Len(q) \in Nat /\ p[Len(q) + 1] = m
        /\ \A i \in 1 .. Len(q) : p[i] = q[i]
    BY <1>3
  <2>2. Hits(p, S) = IF m \in S THEN Hits(q, S) \cup {Len(q) + 1} ELSE Hits(q, S)
    <3>1. \A i \in 1 .. Len(p) : i \in 1 .. Len(q) \/ i = Len(q) + 1
      BY <2>1
    <3>2. 1 .. Len(q) \subseteq 1 .. Len(p) /\ Len(q) + 1 \in 1 .. Len(p) /\ Len(q) + 1 \notin 1 .. Len(q)
      BY <2>1
    <3> QED BY <2>1, <3>1, <3>2 DEF Hits
  <2>3. Cardinality(Hits(q, S) \cup {Len(q) + 1}) <= Cardinality(Hits(q, S)) + 1
    <3>1. Cardinality(Hits(q, S) \cup {Len(q) + 1}) =
            IF Len(q) + 1 \in Hits(q, S) THEN Cardinality(Hits(q, S)) ELSE Cardinality(Hits(q, S)) + 1
      BY <1>1, FS_AddElement
    <3> QED BY <1>1, <3>1 DEF Count
  <2> QED BY <1>1, <2>2, <2>3 DEF Count
<1> QED BY <1>2, <1>3 DEF Sent

LEMMA CountTail ==
  ASSUME NEW q \in Seq(Packet), q # <<>>, NEW S
  PROVE  Count(Tail(q), S) = Count(q, S) - (IF Head(q) \in S THEN 1 ELSE 0)
<1>1. /\ Len(q) \in Nat /\ Len(q) > 0 /\ Len(Tail(q)) = Len(q) - 1 /\ Head(q) = q[1]
      /\ \A i \in 1 .. Len(q) - 1 : Tail(q)[i] = q[i + 1]
      /\ Tail(q) \in Seq(Packet)
  BY TailFacts
<1> DEFINE A == Hits(Tail(q), S)
           B == Hits(q, S) \ {1}
           f == [i \in A |-> i + 1]
<1>2. Count(q, S) \in Nat /\ IsFiniteSet(Hits(q, S)) /\ IsFiniteSet(A)
  BY <1>1, CountBounds
<1>3. A \subseteq 1 .. Len(q) - 1 /\ B \subseteq 2 .. Len(q)
  BY <1>1 DEF Hits
<1>4. \A i \in 1 .. Len(q) - 1 : i \in A <=> i + 1 \in B
  BY <1>1 DEF Hits
<1>5. f \in Bijection(A, B)
  <2>1. f \in [A -> B]
    BY <1>3, <1>4
  <2>2. \A i, j \in A : f[i] = f[j] => i = j
    BY <1>3
  <2>3. \A b \in B : \E i \in A : f[i] = b
    <3> SUFFICES ASSUME NEW b \in B PROVE \E i \in A : f[i] = b
      OBVIOUS
    <3>1. b - 1 \in 1 .. Len(q) - 1 /\ b - 1 + 1 = b
      BY <1>1, <1>3
    <3>2. b - 1 \in A
      BY <1>4, <3>1
    <3> QED BY <3>1, <3>2
  <2> HIDE DEF A, B, f
  <2> QED BY <2>1, <2>2, <2>3 DEF Bijection, Injection, Surjection, IsInjective
<1>6. Cardinality(B) = Cardinality(A)
  <2> HIDE DEF A, B, f
  <2>1. ExistsBijection(A, B)
    BY <1>5 DEF ExistsBijection
  <2> QED BY <1>2, <2>1, FS_Bijection
<1>7. Cardinality(B) = IF 1 \in Hits(q, S) THEN Cardinality(Hits(q, S)) - 1 ELSE Cardinality(Hits(q, S))
  BY <1>2, FS_RemoveElement
<1>8. 1 \in Hits(q, S) <=> Head(q) \in S
  BY <1>1 DEF Hits
<1> HIDE DEF A, B
<1> QED BY <1>2, <1>6, <1>7, <1>8 DEF Count, A

-----------------------------------------------------------------------------
(* What the types say.                                                      *)

States == {"new", "oack", "data", "complete", "failed", "closed"}

BoardT == [state : {"off", "rrq", "data", "done", "error"}, peer : {0} \cup Threads,
           stored : 0 .. Blocks, misplaced : BOOLEAN]

LEMMA Types ==
  ASSUME TypeOK
  PROVE  /\ toBoard \in Seq(Packet) /\ Len(toBoard) <= Cap /\ In(toBoard) \subseteq Packet
         /\ ack \in [Threads -> Seq(Packet)] /\ rrq \in 0 .. Cap
         /\ pc \in [Threads -> States] /\ block_num \in [Threads -> 0 .. Blocks]
         /\ retry \in [Threads -> 0 .. Tries] /\ late \in [Threads -> 0 .. Tries] /\ board \in BoardT
         /\ Blocks \in Nat /\ Blocks > 0 /\ Tries \in Nat /\ Tries > 0 /\ Cap \in Nat /\ 0 \notin Threads
         /\ \A t \in Threads : Len(ack[t]) <= Cap /\ ack[t] \in Seq(Packet) /\ In(ack[t]) \subseteq Packet
<1>1. \A q \in Seq(Packet) : In(q) \subseteq Packet
  BY DEF In
<1> QED BY <1>1, FileAssumption, TriesAssumption, ThreadAssumption
        DEF TypeOK, States, BoardT, Threads

LEMMA TypesNext ==
  ASSUME TypeOK, UNCHANGED <<readable, option>>,
         toBoard' \in Seq(Packet), Len(toBoard') <= Cap, ack' \in [Threads -> Seq(Packet)],
         \A t \in Threads : Len(ack'[t]) <= Cap, rrq' \in 0 .. Cap, pc' \in [Threads -> States],
         block_num' \in [Threads -> 0 .. Blocks], retry' \in [Threads -> 0 .. Tries],
         late' \in [Threads -> 0 .. Tries], board' \in BoardT
  PROVE  TypeOK'
  BY DEF TypeOK, States, BoardT

LEMMA PacketTypes ==
  /\ \A t \in Threads, n \in 0 .. Blocks : DataPacket(t, n) \in Packet
  /\ \A n \in 0 .. Blocks : AckPacket(n) \in Packet
  BY DEF Packet, DataPacket, AckPacket

(* Neighbouring blocks have different numbers on the wire.                  *)
LEMMA NumbersDiffer ==
  ASSUME NEW n \in Nat, NEW m \in Nat, m = n \/ m = n + 1
  PROVE  /\ Number(m) = Number(n) <=> m = n
         /\ Number(m) = Number(n + 1) <=> m = n + 1
<1>1. BlockMod \in Nat /\ BlockMod > 1
  BY ModAssumption
<1>2. (n + 1) % BlockMod # n % BlockMod
  <2> SUFFICES ASSUME (n + 1) % BlockMod = n % BlockMod PROVE FALSE
    OBVIOUS
  <2> DEFINE k == n \div BlockMod
             l == (n + 1) \div BlockMod
  <2>1. /\ k \in Int /\ l \in Int /\ n % BlockMod \in Int
        /\ n = BlockMod * k + (n % BlockMod) /\ n + 1 = BlockMod * l + ((n + 1) % BlockMod)
    BY <1>1
  <2> HIDE DEF k, l
  <2>2. PICK d \in Int : l = k + d
    <3>1. l - k \in Int /\ l = k + (l - k)
      BY <2>1
    <3> QED BY <3>1
  <2>3. BlockMod * l = BlockMod * k + BlockMod * d /\ BlockMod * k \in Int /\ BlockMod * d \in Int
    BY <1>1, <2>1, <2>2
  <2>4. BlockMod * d = 1
    BY <2>1, <2>3
  <2>5. d <= 0 => BlockMod * d <= 0
    BY <1>1
  <2>6. d >= 1 => BlockMod * d >= BlockMod
    BY <1>1
  <2> QED BY <1>1, <2>4, <2>5, <2>6
<1> QED BY <1>2 DEF Number

-----------------------------------------------------------------------------
(* A thread moves to state c and block b. It may take its next packet, and  *)
(* may send packet m.                                                       *)
LEMMA ThreadMoves ==
  ASSUME SafeInv, NEW t \in Threads, NEW c \in States, NEW b \in 0 .. Blocks, NEW m \in Packet,
         UNCHANGED <<readable, option, board>>, rrq' \in 0 .. Cap,
         retry' \in [Threads -> 0 .. Tries], late' \in [Threads -> 0 .. Tries],
         pc' = [pc EXCEPT ![t] = c], block_num' = [block_num EXCEPT ![t] = b],
         ack' = ack \/ (ack[t] # <<>> /\ ack' = [ack EXCEPT ![t] = Tail(@)]),
         toBoard' = toBoard \/ toBoard' \in Sent(toBoard, m),
         m.from = t, m.op = "DATA" => m.idx = b /\ 1 <= b /\ c # "oack",
         m.op = "OACK" => c = "oack",
         pc[t] \in {"oack", "closed"} /\ t # board.peer => c = "closed",
         block_num[t] <= b, c # "new",
         c = "oack" => pc[t] = "new" /\ b = 0,
         c \in {"data", "complete", "failed"} => 1 <= b,
         t # board.peer => b <= 1 /\ c # "complete",
         t = board.peer => /\ b <= board.stored + 1 /\ \A x \in In(ack'[t]) : b - 1 <= x.idx
                           /\ c = "complete" => board.stored = Blocks
  PROVE  SafeInv'
<1>1. /\ toBoard \in Seq(Packet) /\ Len(toBoard) <= Cap /\ In(toBoard) \subseteq Packet
      /\ ack \in [Threads -> Seq(Packet)] /\ pc \in [Threads -> States]
      /\ block_num \in [Threads -> 0 .. Blocks] /\ board \in BoardT /\ Blocks \in Nat /\ TypeOK
      /\ \A u \in Threads : Len(ack[u]) <= Cap /\ ack[u] \in Seq(Packet) /\ In(ack[u]) \subseteq Packet
  BY Types DEF SafeInv
<1>2. /\ pc' \in [Threads -> States] /\ pc'[t] = c
      /\ block_num' \in [Threads -> 0 .. Blocks] /\ block_num'[t] = b
      /\ \A u \in Threads : u # t => pc'[u] = pc[u] /\ block_num'[u] = block_num[u] /\ ack'[u] = ack[u]
  BY <1>1
<1>3. /\ toBoard' \in Seq(Packet) /\ Len(toBoard') <= Cap /\ In(toBoard') \subseteq In(toBoard) \cup {m}
      /\ In(toBoard') \subseteq Packet
  <2>1. CASE toBoard' = toBoard
    BY <1>1, <2>1
  <2>2. CASE toBoard' \in Sent(toBoard, m)
    BY <1>1, <2>2, SentFacts
  <2> QED BY <2>1, <2>2
<1>4. /\ ack' \in [Threads -> Seq(Packet)]
      /\ \A u \in Threads : Len(ack'[u]) <= Cap /\ In(ack'[u]) \subseteq In(ack[u])
                            /\ Rising(ack'[u], Packet) /\ (ack[u] = <<>> => ack'[u] = <<>>)
  <2>1. \A u \in Threads : Rising(ack[u], Packet)
    BY DEF SafeInv, OrderInv
  <2>2. CASE ack' = ack
    BY <1>1, <2>1, <2>2
  <2>3. CASE ack[t] # <<>> /\ ack' = [ack EXCEPT ![t] = Tail(@)]
    <3>1. /\ Tail(ack[t]) \in Seq(Packet) /\ Len(Tail(ack[t])) = Len(ack[t]) - 1 /\ Len(ack[t]) \in Nat
          /\ In(Tail(ack[t])) \subseteq In(ack[t])
      BY <1>1, <2>3, TailFacts
    <3>2. Rising(Tail(ack[t]), Packet)
      BY <1>1, <2>1, <2>3, RisingTail
    <3>3. Len(Tail(ack[t])) <= Cap
      BY <1>1, <3>1, ThreadAssumption
    <3>4. ack'[t] = Tail(ack[t]) /\ ack' \in [Threads -> Seq(Packet)]
      BY <1>1, <2>3, <3>1
    <3>5. \A u \in Threads : u = t \/ ack'[u] = ack[u]
      BY <1>2
    <3> QED BY <1>1, <2>1, <2>3, <3>1, <3>2, <3>3, <3>4, <3>5
  <2> QED BY <2>2, <2>3
<1>5. TypeOK'
  BY <1>1, <1>2, <1>3, <1>4, TypesNext, Types DEF SafeInv
<1>6. BoardInv'
  BY DEF SafeInv, BoardInv
<1>7. QueueInv'
  <2> SUFFICES ASSUME NEW x \in In(toBoard')
               PROVE  /\ x.from \in Threads /\ pc'[x.from] # "new"
                      /\ x.op = "DATA" =>
                           pc'[x.from] # "oack" /\ 1 <= x.idx /\ x.idx <= block_num'[x.from]
                      /\ x.op = "OACK" /\ x.from # board.peer => pc'[x.from] \in {"oack", "closed"}
    BY DEF QueueInv
  <2>1. CASE x = m
    BY <1>2, <2>1
  <2>2. CASE x \in In(toBoard)
    <3>1. /\ x.from \in Threads /\ pc[x.from] # "new"
          /\ x.op = "DATA" => pc[x.from] # "oack" /\ 1 <= x.idx /\ x.idx <= block_num[x.from]
          /\ x.op = "OACK" /\ x.from # board.peer => pc[x.from] \in {"oack", "closed"}
      BY <2>2 DEF SafeInv, QueueInv
    <3>2. x.idx \in Int
      BY <1>1, <2>2 DEF Packet
    <3>3. CASE x.from = t
      <4>1. block_num[t] \in Int /\ b \in Int
        BY <1>1
      <4> QED BY <1>2, <3>1, <3>2, <3>3, <4>1
    <3>4. CASE x.from # t
      BY <1>2, <3>1, <3>4
    <3> QED BY <3>3, <3>4
  <2> QED BY <1>3, <2>1, <2>2
<1>8. AckInv'
  BY <1>4 DEF SafeInv, AckInv
<1>9. OrderInv'
  <2> SUFFICES ASSUME NEW u \in Threads PROVE Rising(toBoard', DataOf(u))
    BY <1>4 DEF OrderInv
  <2>1. Rising(toBoard, DataOf(u))
    BY DEF SafeInv, OrderInv
  <2>2. CASE toBoard' = toBoard
    BY <2>1, <2>2
  <2>3. CASE toBoard' \in Sent(toBoard, m)
    <3>1. ASSUME m \in DataOf(u), NEW x \in In(toBoard), x \in DataOf(u) PROVE x.idx <= m.idx
      <4>1. m.op = "DATA" /\ u = t /\ x.op = "DATA" /\ x.from = t /\ m.idx = b
        BY <3>1 DEF DataOf
      <4>2. x.idx <= block_num[t]
        BY <3>1, <4>1 DEF SafeInv, QueueInv
      <4>3. x.idx \in Int /\ block_num[t] \in Int /\ b \in Int
        BY <1>1, <3>1 DEF Packet
      <4> QED BY <4>1, <4>2, <4>3
    <3> QED BY <1>1, <2>1, <2>3, <3>1, RisingSent
  <2> QED BY <2>2, <2>3
<1>10. ThreadInv'
  <2> SUFFICES ASSUME NEW u \in Threads
               PROVE  /\ pc'[u] \in {"new", "oack"} => block_num'[u] = 0
                      /\ pc'[u] \in {"data", "complete", "failed"} => 1 <= block_num'[u]
                      /\ u = board.peer => PeerInv(u)'
                      /\ u # board.peer => ack'[u] = <<>> /\ block_num'[u] <= 1 /\ pc'[u] # "complete"
    BY DEF ThreadInv
  <2>1. /\ pc[u] \in {"new", "oack"} => block_num[u] = 0
        /\ pc[u] \in {"data", "complete", "failed"} => 1 <= block_num[u]
        /\ u = board.peer => PeerInv(u)
        /\ u # board.peer => ack[u] = <<>> /\ block_num[u] <= 1 /\ pc[u] # "complete"
    BY DEF SafeInv, ThreadInv
  <2>2. board' = board /\ board.stored \in Nat
    BY <1>1 DEF BoardT
  <2>3. CASE u = t
    <3>1. u # board.peer => ack'[u] = <<>> /\ block_num'[u] <= 1 /\ pc'[u] # "complete"
      BY <1>2, <1>4, <2>1, <2>3
    <3>2. ASSUME u = board.peer PROVE PeerInv(u)'
      <4>1. PeerInv(u)
        BY <2>1, <3>2
      <4>2. board.stored <= b
        <5>1. board.stored <= block_num[t] /\ block_num[t] \in Int /\ b \in Int
          BY <1>1, <2>3, <4>1 DEF PeerInv
        <5> QED BY <2>2, <5>1
      <4>3. ASSUME NEW x \in In(toBoard'), x \in DataOf(t) PROVE board.stored <= x.idx
        <5>1. CASE x = m
          BY <4>2, <4>3, <5>1 DEF DataOf
        <5>2. CASE x \in In(toBoard)
          BY <2>3, <4>1, <4>3, <5>2 DEF PeerInv
        <5> QED BY <1>3, <5>1, <5>2
      <4>4. \A x \in In(ack'[t]) : b - 1 <= x.idx /\ x.idx <= board.stored
        BY <1>4, <2>3, <3>2, <4>1 DEF PeerInv
      <4> QED BY <1>2, <2>2, <2>3, <3>2, <4>2, <4>3, <4>4 DEF PeerInv, DataOf
    <3> QED BY <1>2, <2>3, <3>1, <3>2
  <2>4. CASE u # t
    <3>1. pc'[u] = pc[u] /\ block_num'[u] = block_num[u] /\ ack'[u] = ack[u]
      BY <1>2, <2>4
    <3>2. ASSUME u = board.peer PROVE PeerInv(u)'
      <4>1. PeerInv(u)
        BY <2>1, <3>2
      <4>2. \A x \in In(toBoard') : x \in DataOf(u) => board.stored <= x.idx
        BY <1>3, <2>4, <4>1 DEF PeerInv, DataOf
      <4> QED BY <2>2, <3>1, <4>1, <4>2 DEF PeerInv, DataOf
    <3> QED BY <2>1, <3>1, <3>2
  <2> QED BY <2>3, <2>4
<1> QED BY <1>5, <1>6, <1>7, <1>8, <1>9, <1>10 DEF SafeInv

(* The client takes the next packet or none, and may acknowledge the last   *)
(* block it stored, to the thread it listens to.                            *)
LEMMA BoardMoves ==
  ASSUME SafeInv, UNCHANGED <<readable, option, pc, block_num, retry>>, rrq' \in 0 .. Cap,
         late' \in [Threads -> 0 .. Tries], board' \in BoardT, BoardInv',
         toBoard' = toBoard \/ (toBoard # <<>> /\ toBoard' = Tail(toBoard)),
         ack' = ack \/ \E ch \in Sent(ack[board'.peer], AckPacket(board'.stored)) :
                          board'.peer \in Threads /\ ack' = [ack EXCEPT ![board'.peer] = ch],
         board'.peer = board.peer
           \/ (board.peer = 0 /\ board'.peer \in Threads /\ pc[board'.peer] # "new"),
         board'.stored = board.stored
           \/ /\ board'.stored = board.stored + 1 /\ board'.peer \in Threads
              /\ board'.stored <= block_num[board'.peer]
              /\ \A x \in In(toBoard') : x \in DataOf(board'.peer) => board'.stored <= x.idx
  PROVE  SafeInv'
<1> DEFINE p == board'.peer
           s == board'.stored
<1>1. /\ toBoard \in Seq(Packet) /\ Len(toBoard) <= Cap /\ In(toBoard) \subseteq Packet
      /\ ack \in [Threads -> Seq(Packet)] /\ pc \in [Threads -> States]
      /\ block_num \in [Threads -> 0 .. Blocks] /\ board \in BoardT /\ Blocks \in Nat /\ TypeOK
      /\ \A u \in Threads : Len(ack[u]) <= Cap /\ ack[u] \in Seq(Packet) /\ In(ack[u]) \subseteq Packet
  BY Types DEF SafeInv
<1>2. board.stored \in 0 .. Blocks /\ s \in 0 .. Blocks /\ board.stored <= s /\ s <= board.stored + 1
  BY <1>1 DEF BoardT
<1>3. AckPacket(s) \in Packet /\ AckPacket(s).idx = s
  BY <1>2, PacketTypes DEF AckPacket
<1>4. /\ toBoard' \in Seq(Packet) /\ Len(toBoard') <= Cap /\ In(toBoard') \subseteq In(toBoard)
      /\ \A u \in Threads : Rising(toBoard', DataOf(u))
  <2>1. \A u \in Threads : Rising(toBoard, DataOf(u))
    BY DEF SafeInv, OrderInv
  <2>2. CASE toBoard' = toBoard
    BY <1>1, <2>1, <2>2
  <2>3. CASE toBoard # <<>> /\ toBoard' = Tail(toBoard)
    <3>1. /\ toBoard' \in Seq(Packet) /\ Len(toBoard') = Len(toBoard) - 1 /\ Len(toBoard) \in Nat
          /\ In(toBoard') \subseteq In(toBoard)
      BY <1>1, <2>3, TailFacts
    <3>2. Len(toBoard') <= Cap
      BY <1>1, <3>1, ThreadAssumption
    <3>3. \A u \in Threads : Rising(toBoard', DataOf(u))
      BY <1>1, <2>1, <2>3, RisingTail
    <3> QED BY <3>1, <3>2, <3>3
  <2> QED BY <2>2, <2>3
<1>5. \A u \in Threads : u = board.peer => \A x \in In(ack[u]) : x.idx <= s
  <2> SUFFICES ASSUME NEW u \in Threads, u = board.peer, NEW x \in In(ack[u]) PROVE x.idx <= s
    OBVIOUS
  <2>1. x.idx <= board.stored
    BY DEF SafeInv, ThreadInv, PeerInv
  <2>2. x.idx \in Int
    BY <1>1 DEF Packet
  <2> QED BY <1>2, <2>1, <2>2
<1>6. \A u \in Threads : In(<<>>) = {}
  BY DEF In
<1>7. \A u \in Threads : u # board.peer => ack[u] = <<>> /\ In(ack[u]) = {}
  <2>1. \A u \in Threads : u # board.peer => ack[u] = <<>>
    BY DEF SafeInv, ThreadInv
  <2> QED BY <1>6, <2>1
<1>8. /\ ack' \in [Threads -> Seq(Packet)]
      /\ \A u \in Threads :
           /\ Len(ack'[u]) <= Cap /\ Rising(ack'[u], Packet)
           /\ u # p => ack'[u] = ack[u]
           /\ In(ack'[u]) \subseteq In(ack[u]) \cup {AckPacket(s)}
  <2>1. \A u \in Threads : Rising(ack[u], Packet)
    BY DEF SafeInv, OrderInv
  <2>2. CASE ack' = ack
    BY <1>1, <2>1, <2>2
  <2>3. CASE \E ch \in Sent(ack[p], AckPacket(s)) : p \in Threads /\ ack' = [ack EXCEPT ![p] = ch]
    <3>1. PICK ch \in Sent(ack[p], AckPacket(s)) : p \in Threads /\ ack' = [ack EXCEPT ![p] = ch]
      BY <2>3
    <3> HIDE DEF p, s
    <3>2. /\ ch \in Seq(Packet) /\ Len(ch) <= Cap /\ In(ch) \subseteq In(ack[p]) \cup {AckPacket(s)}
      BY <1>1, <1>3, <3>1, SentFacts
    <3>3. \A x \in In(ack[p]) : x.idx <= AckPacket(s).idx
      BY <1>3, <1>5, <1>7, <3>1
    <3>4. Rising(ch, Packet)
      BY <1>1, <1>3, <2>1, <3>1, <3>3, RisingSent
    <3>5. ack' \in [Threads -> Seq(Packet)] /\ ack'[p] = ch /\ \A u \in Threads : u = p \/ ack'[u] = ack[u]
      BY <1>1, <3>1, <3>2
    <3> QED BY <1>1, <2>1, <3>2, <3>4, <3>5
  <2> QED BY <2>2, <2>3
<1>9. TypeOK'
  BY <1>1, <1>4, <1>8, TypesNext, Types DEF SafeInv
<1>10. QueueInv'
  <2>1. \A u \in Threads : u # board'.peer => u # board.peer
    <3>1. 0 \notin Threads
      BY DEF Threads
    <3> QED BY <3>1
  <2> QED BY <1>4, <2>1 DEF SafeInv, QueueInv
<1>11. AckInv'
  <2>1. AckPacket(s) = AckPacket(AckPacket(s).idx)
    BY <1>3
  <2> HIDE DEF s
  <2> QED BY <1>8, <2>1 DEF SafeInv, AckInv
<1>12. OrderInv'
  BY <1>4, <1>8 DEF OrderInv
<1>13. ThreadInv'
  <2> SUFFICES ASSUME NEW u \in Threads
               PROVE  /\ pc[u] \in {"new", "oack"} => block_num[u] = 0
                      /\ pc[u] \in {"data", "complete", "failed"} => 1 <= block_num[u]
                      /\ u = p => PeerInv(u)'
                      /\ u # p => ack'[u] = <<>> /\ block_num[u] <= 1 /\ pc[u] # "complete"
    BY DEF ThreadInv
  <2>1. /\ pc[u] \in {"new", "oack"} => block_num[u] = 0
        /\ pc[u] \in {"data", "complete", "failed"} => 1 <= block_num[u]
        /\ u = board.peer => PeerInv(u)
        /\ u # board.peer => ack[u] = <<>> /\ block_num[u] <= 1 /\ pc[u] # "complete"
    BY DEF SafeInv, ThreadInv
  <2>2. u # p => u # board.peer
    <3>1. u # 0
      BY DEF Threads
    <3> QED BY <3>1
  <2>3. u # p => ack'[u] = ack[u]
    BY <1>8
  <2>4. ASSUME u = p PROVE PeerInv(u)'
    <3>1. block_num[u] \in Nat
      BY <1>1
    <3>2. CASE u = board.peer
      <4>1. /\ pc[u] # "new"
            /\ board.stored <= block_num[u] /\ block_num[u] <= board.stored + 1
            /\ \A x \in In(toBoard) : x \in DataOf(u) => board.stored <= x.idx
            /\ \A x \in In(ack[u]) : block_num[u] - 1 <= x.idx /\ x.idx <= board.stored
            /\ pc[u] = "complete" => board.stored = Blocks
        BY <2>1, <3>2 DEF PeerInv
      <4>2. s <= block_num[u] /\ block_num[u] <= s + 1
        BY <1>2, <2>4, <3>1, <4>1
      <4>3. \A x \in In(toBoard') : x \in DataOf(u) => s <= x.idx
        BY <1>4, <2>4, <4>1
      <4>4. ASSUME NEW x \in In(ack'[u]) PROVE block_num[u] - 1 <= x.idx /\ x.idx <= s
        <5>1. CASE x = AckPacket(s)
          <6>1. x.idx = s
            BY <1>3, <5>1
          <6> QED BY <1>2, <3>1, <4>2, <6>1
        <5>2. CASE x \in In(ack[u])
          BY <1>5, <3>2, <4>1, <5>2
        <5> HIDE DEF s
        <5> QED BY <1>8, <5>1, <5>2
      <4>5. pc[u] = "complete" => s = Blocks
        BY <1>1, <1>2, <4>1
      <4> QED BY <2>4, <4>1, <4>2, <4>3, <4>4, <4>5 DEF PeerInv, DataOf
    <3>3. CASE u # board.peer
      <4>1. board.peer = 0 /\ pc[u] # "new" /\ board.stored = 0
        BY <2>4, <3>3 DEF SafeInv, BoardInv
      <4>2. block_num[u] <= 1 /\ pc[u] # "complete" /\ In(ack[u]) = {}
        BY <1>7, <2>1, <3>3
      <4>3. s <= block_num[u] /\ block_num[u] <= s + 1
        BY <1>2, <2>4, <3>1, <4>1, <4>2
      <4>4. ASSUME NEW x \in In(toBoard'), x \in DataOf(u) PROVE s <= x.idx
        <5>1. x.idx \in Nat
          BY <4>4 DEF DataOf, Packet
        <5> QED BY <1>2, <2>4, <4>1, <4>4, <5>1
      <4>5. \A x \in In(ack'[u]) : block_num[u] - 1 <= x.idx /\ x.idx <= s
        <5>1. \A x \in In(ack'[u]) : x.idx = s
          <6> HIDE DEF s
          <6> QED BY <1>3, <1>8, <4>2
        <5> QED BY <1>2, <3>1, <4>3, <5>1
      <4> QED BY <2>4, <4>1, <4>2, <4>3, <4>4, <4>5 DEF PeerInv, DataOf
    <3> QED BY <3>2, <3>3
  <2> QED BY <2>1, <2>2, <2>3, <2>4
<1> QED BY <1>9, <1>10, <1>11, <1>12, <1>13 DEF SafeInv

-----------------------------------------------------------------------------
(* The server's steps.                                                      *)

LEMMA LaterType ==
  ASSUME TypeOK, NEW t \in Threads
  PROVE  /\ Later(t) \in [Threads -> 0 .. Tries]
         /\ Later(t)[t] = IF late[t] < Tries THEN late[t] + 1 ELSE late[t]
         /\ \A u \in Threads : u # t => Later(t)[u] = late[u]
<1>1. late \in [Threads -> 0 .. Tries] /\ Tries \in Nat
  BY Types
<1>2. (IF late[t] < Tries THEN late[t] + 1 ELSE late[t]) \in 0 .. Tries
  BY <1>1
<1> QED BY <1>1, <1>2 DEF Later

(* Only the thread the client listens to is answered, and an answer is for  *)
(* its block or the one before.                                             *)
LEMMA HeadAck ==
  ASSUME SafeInv, NEW t \in Threads, ack[t] # <<>>
  PROVE  /\ t = board.peer /\ PeerInv(t) /\ Head(ack[t]) = AckPacket(Head(ack[t]).idx)
         /\ Head(ack[t]).idx \in Nat /\ Head(ack[t]).idx <= board.stored
         /\ Head(ack[t]).idx = block_num[t] \/ Head(ack[t]).idx = block_num[t] - 1
         /\ \A x \in In(Tail(ack[t])) : Head(ack[t]).idx <= x.idx
<1>1. ack[t] \in Seq(Packet) /\ block_num[t] \in Nat /\ board.stored \in Nat
  BY Types DEF SafeInv, BoardT
<1>2. t = board.peer /\ PeerInv(t)
  BY DEF SafeInv, ThreadInv
<1>3. Head(ack[t]) \in In(ack[t]) /\ Head(ack[t]) \in Packet /\ In(Tail(ack[t])) \subseteq Packet
  BY <1>1, TailFacts
<1>4. Head(ack[t]) = AckPacket(Head(ack[t]).idx)
  BY <1>3 DEF SafeInv, AckInv
<1>5. Head(ack[t]).idx \in Nat
  BY <1>3 DEF Packet
<1>6. /\ block_num[t] - 1 <= Head(ack[t]).idx /\ Head(ack[t]).idx <= board.stored
      /\ board.stored <= block_num[t]
  BY <1>2, <1>3 DEF PeerInv
<1>7. \A x \in In(Tail(ack[t])) : Head(ack[t]).idx <= x.idx
  <2>1. Rising(ack[t], Packet)
    BY DEF SafeInv, OrderInv
  <2> QED BY <1>1, <1>3, <2>1, RisingTail
<1> QED BY <1>1, <1>2, <1>4, <1>5, <1>6, <1>7

ErrorPacket(t) == [op |-> "ERROR", from |-> t, idx |-> 0]

LEMMA ErrorType ==
  ASSUME NEW t \in Threads
  PROVE  ErrorPacket(t) \in Packet /\ ErrorPacket(t).from = t /\ ErrorPacket(t).op = "ERROR"
  BY FileAssumption DEF ErrorPacket, Packet

LEMMA DataType ==
  ASSUME NEW t \in Threads, NEW n \in 0 .. Blocks
  PROVE  /\ DataPacket(t, n) \in Packet /\ DataPacket(t, n).from = t
         /\ DataPacket(t, n).op = "DATA" /\ DataPacket(t, n).idx = n
  BY DEF DataPacket, Packet

LEMMA ServeSafe ==
  ASSUME SafeInv, NEW t \in Threads, Serve(t)
  PROVE  SafeInv'
<1> DEFINE oack  == [op |-> "OACK", from |-> t, idx |-> 0]
           reply == IF ~readable THEN ErrorPacket(t) ELSE IF option THEN oack ELSE DataPacket(t, 1)
           c     == IF ~readable THEN "closed" ELSE IF option THEN "oack" ELSE "data"
           b     == IF readable /\ ~option THEN 1 ELSE 0
<1>1. /\ rrq > 0 /\ pc[t] = "new" /\ rrq' = rrq - 1
      /\ pc' = [pc EXCEPT ![t] = c]
      /\ block_num' = [block_num EXCEPT ![t] = b]
      /\ retry' = [retry EXCEPT ![t] = b]
      /\ toBoard' \in Sent(toBoard, reply)
      /\ UNCHANGED <<readable, option, ack, board, late>>
  BY DEF Serve, ErrorPacket
<1>2. /\ rrq \in 0 .. Cap /\ retry \in [Threads -> 0 .. Tries] /\ late \in [Threads -> 0 .. Tries]
      /\ Cap \in Nat /\ Tries \in Nat /\ Tries > 0 /\ Blocks \in Nat /\ Blocks > 0
  BY Types DEF SafeInv
<1>3. block_num[t] = 0 /\ t # board.peer
  BY <1>1 DEF SafeInv, ThreadInv, PeerInv
<1>4. b \in {0, 1} /\ b \in 0 .. Blocks /\ b \in 0 .. Tries /\ c \in States
  BY <1>2 DEF States
<1>5. reply \in Packet /\ reply.from = t
      /\ (reply.op = "DATA" => reply.idx = b /\ 1 <= b /\ c # "oack")
      /\ (reply.op = "OACK" => c = "oack")
  <2>1. CASE ~readable
    BY <2>1, ErrorType
  <2>2. CASE readable /\ option
    <3>1. oack \in Packet /\ oack.op = "OACK" /\ oack.from = t
      BY <1>2 DEF Packet
    <3> QED BY <2>2, <3>1
  <2>3. CASE readable /\ ~option
    <3>1. 1 \in 0 .. Blocks
      BY <1>2
    <3> QED BY <2>3, <3>1, DataType
  <2> QED BY <2>1, <2>2, <2>3
<1>6. retry' \in [Threads -> 0 .. Tries] /\ rrq' \in 0 .. Cap
  <2> HIDE DEF b
  <2> QED BY <1>1, <1>2, <1>4
<1>7. (c = "oack" => b = 0) /\ (c \in {"data", "complete", "failed"} => 1 <= b) /\ c # "new"
      /\ c # "complete"
  OBVIOUS
<1>8. block_num[t] <= b /\ b <= 1
  BY <1>3, <1>4
<1> HIDE DEF b, c, reply
<1> QED BY <1>1, <1>2, <1>3, <1>4, <1>5, <1>6, <1>7, <1>8, ThreadMoves

LEMMA OackSafe ==
  ASSUME SafeInv, NEW t \in Threads, OackAnswered(t) \/ OackTimeout(t)
  PROVE  SafeInv'
<1>1. pc[t] = "oack" /\ UNCHANGED <<readable, option, rrq, board>>
  BY DEF OackAnswered, OackTimeout
<1>2. /\ pc \in [Threads -> States] /\ block_num \in [Threads -> 0 .. Blocks] /\ rrq \in 0 .. Cap
      /\ retry \in [Threads -> 0 .. Tries] /\ late \in [Threads -> 0 .. Tries]
      /\ Tries \in Nat /\ Tries > 0 /\ Blocks \in Nat /\ Blocks > 0 /\ board.stored \in Nat
      /\ ack \in [Threads -> Seq(Packet)] /\ TypeOK
  BY Types DEF SafeInv, BoardT
<1>3. /\ block_num[t] = 0
      /\ t = board.peer => \A x \in In(ack[t]) : block_num[t] - 1 <= x.idx
      /\ "closed" \in States /\ "data" \in States
  BY <1>1 DEF SafeInv, ThreadInv, PeerInv, States
<1>4. ErrorPacket(t) \in Packet /\ ErrorPacket(t).from = t /\ ErrorPacket(t).op = "ERROR"
  BY ErrorType
<1>5. CASE OackTimeout(t)
  <2> DEFINE b == 0
             c == "closed"
  <2>1. /\ pc' = [pc EXCEPT ![t] = c] /\ block_num' = [block_num EXCEPT ![t] = b]
        /\ retry' = retry /\ late' = Later(t) /\ ack' = ack /\ toBoard' = toBoard
    BY <1>2, <1>3, <1>5 DEF OackTimeout
  <2>2. late' \in [Threads -> 0 .. Tries] /\ b \in 0 .. Blocks /\ c \in States
    BY <1>2, <1>3, <2>1, LaterType
  <2>3. t = board.peer => b <= board.stored + 1 /\ \A x \in In(ack'[t]) : b - 1 <= x.idx
    BY <1>2, <1>3, <2>1
  <2>4. block_num[t] <= b /\ b <= 1 /\ c = "closed" /\ c \notin {"new", "oack", "data", "complete", "failed"}
    BY <1>3
  <2> HIDE DEF b, c
  <2> QED BY <1>1, <1>2, <1>4, <2>1, <2>2, <2>3, <2>4, ThreadMoves
<1>6. CASE OackAnswered(t)
  <2> DEFINE good == Head(ack[t]).op = "ACK" /\ Number(Head(ack[t]).idx) = 0
  <2>1. ack[t] # <<>> /\ ack' = [ack EXCEPT ![t] = Tail(@)] /\ late' = late
    BY <1>6 DEF OackAnswered
  <2>2. /\ pc' = [pc EXCEPT ![t] = IF good THEN "data" ELSE "closed"]
        /\ block_num' = [block_num EXCEPT ![t] = IF good THEN 1 ELSE @]
        /\ retry' = [retry EXCEPT ![t] = IF good THEN 1 ELSE @]
        /\ IF good THEN toBoard' \in Sent(toBoard, DataPacket(t, 1)) ELSE UNCHANGED toBoard
    BY <1>6 DEF OackAnswered
  <2>3. t = board.peer /\ In(Tail(ack[t])) \subseteq In(ack[t]) /\ In(ack[t]) \subseteq Packet
    BY <1>2, <2>1, HeadAck, TailFacts
  <2>4. ack'[t] = Tail(ack[t])
    BY <1>2, <2>1
  <2>5. retry' \in [Threads -> 0 .. Tries] /\ 1 \in 0 .. Blocks /\ 0 \in 0 .. Blocks
    <3>1. 1 \in 0 .. Tries
      BY <1>2
    <3> QED BY <1>2, <2>2, <3>1
  <2>6. CASE good
    <3> DEFINE b == 1
               c == "data"
    <3>1. \A x \in In(ack'[t]) : b - 1 <= x.idx
      <4>1. \A x \in In(ack'[t]) : x \in Packet
        BY <2>3, <2>4
      <4>2. \A x \in Packet : x.idx \in Nat
        BY <1>2 DEF Packet
      <4> QED BY <4>1, <4>2
    <3>2. /\ pc' = [pc EXCEPT ![t] = c] /\ block_num' = [block_num EXCEPT ![t] = b]
          /\ toBoard' \in Sent(toBoard, DataPacket(t, b))
      BY <2>2, <2>6
    <3>3. /\ DataPacket(t, b) \in Packet /\ DataPacket(t, b).from = t /\ DataPacket(t, b).idx = b
          /\ DataPacket(t, b).op = "DATA"
      BY <2>5, DataType
    <3>4. /\ b <= board.stored + 1 /\ block_num[t] <= b /\ b <= 1 /\ 1 <= b /\ b \in 0 .. Blocks
          /\ c \in States /\ c \notin {"new", "oack", "complete"}
      BY <1>2, <1>3
    <3> HIDE DEF b, c
    <3> QED BY <1>1, <1>2, <2>1, <2>3, <2>5, <3>1, <3>2, <3>3, <3>4, ThreadMoves
  <2>7. CASE ~good
    <3> DEFINE b == 0
               c == "closed"
    <3>1. /\ pc' = [pc EXCEPT ![t] = c] /\ block_num' = [block_num EXCEPT ![t] = b]
          /\ toBoard' = toBoard
      BY <1>2, <1>3, <2>2, <2>7
    <3>2. b <= board.stored + 1 /\ \A x \in In(ack'[t]) : b - 1 <= x.idx
      BY <1>2, <1>3, <2>3, <2>4
    <3>3. /\ block_num[t] <= b /\ b <= 1 /\ b \in 0 .. Blocks /\ c \in States
          /\ c \notin {"new", "oack", "data", "complete", "failed"}
      BY <1>2, <1>3
    <3> HIDE DEF b, c
    <3> QED BY <1>1, <1>2, <1>4, <2>1, <2>3, <2>5, <3>1, <3>2, <3>3, ThreadMoves
  <2> QED BY <2>6, <2>7
<1> QED BY <1>5, <1>6

(* An acknowledgement that fits is one of the current block, and the client *)
(* has stored it.                                                           *)
LEMMA AckMeansStored ==
  ASSUME SafeInv, NEW t \in Threads, ack[t] # <<>>, pc[t] = "data"
  PROVE  /\ Acknowledges(t, Head(ack[t])) =>
              Head(ack[t]) = AckPacket(block_num[t]) /\ board.stored = block_num[t]
         /\ ~Acknowledges(t, Head(ack[t])) => Head(ack[t]) = AckPacket(block_num[t] - 1)
<1> DEFINE h == Head(ack[t])
           b == block_num[t]
<1>1. b \in Nat /\ 1 <= b /\ board.stored \in Nat
  BY Types DEF SafeInv, ThreadInv, BoardT
<1>2. /\ t = board.peer /\ PeerInv(t) /\ h = AckPacket(h.idx) /\ h.idx \in Nat /\ h.idx <= board.stored
      /\ h.idx = b \/ h.idx = b - 1
  BY HeadAck
<1>3. h.op = "ACK"
  BY <1>2 DEF AckPacket
<1>4. Number(h.idx) = Number(b) <=> h.idx = b
  <2>1. b - 1 \in Nat /\ (h.idx = b - 1 \/ h.idx = (b - 1) + 1) /\ (b - 1) + 1 = b
    BY <1>1, <1>2
  <2> HIDE DEF h, b
  <2> QED BY <1>2, <2>1, NumbersDiffer
<1>5. board.stored <= b
  BY <1>2 DEF PeerInv
<1>6. Acknowledges(t, h) <=> h.idx = b
  BY <1>3, <1>4 DEF Acknowledges
<1> HIDE DEF h, b
<1>7. h.idx = b => board.stored = b
  BY <1>1, <1>2, <1>5
<1>8. (Acknowledges(t, h) => h = AckPacket(b) /\ board.stored = b)
      /\ (~Acknowledges(t, h) => h = AckPacket(b - 1))
  BY <1>2, <1>6, <1>7
<1> QED BY <1>8 DEF h, b

LEMMA BlockAckedSafe ==
  ASSUME SafeInv, NEW t \in Threads, BlockAcked(t)
  PROVE  SafeInv'
<1> DEFINE b == block_num[t]
<1>1. /\ pc[t] = "data" /\ ack[t] # <<>> /\ Acknowledges(t, Head(ack[t]))
      /\ ack' = [ack EXCEPT ![t] = Tail(@)] /\ UNCHANGED <<readable, option, rrq, board, late>>
  BY DEF BlockAcked
<1>2. /\ pc \in [Threads -> States] /\ block_num \in [Threads -> 0 .. Blocks] /\ rrq \in 0 .. Cap
      /\ retry \in [Threads -> 0 .. Tries] /\ late \in [Threads -> 0 .. Tries]
      /\ Tries \in Nat /\ Tries > 0 /\ Blocks \in Nat /\ board.stored \in Nat
      /\ ack \in [Threads -> Seq(Packet)] /\ TypeOK
  BY Types DEF SafeInv, BoardT
<1>3. b \in 0 .. Blocks /\ 1 <= b
  BY <1>1, <1>2 DEF SafeInv, ThreadInv
<1>4. /\ t = board.peer /\ board.stored = b /\ ack'[t] = Tail(ack[t])
      /\ \A x \in In(ack'[t]) : b <= x.idx
  <2>1. Head(ack[t]) = AckPacket(b) /\ board.stored = b /\ t = board.peer
        /\ \A x \in In(Tail(ack[t])) : Head(ack[t]).idx <= x.idx
    BY <1>1, AckMeansStored, HeadAck
  <2>2. Head(ack[t]).idx = b
    BY <2>1 DEF AckPacket
  <2>3. ack'[t] = Tail(ack[t])
    BY <1>1, <1>2
  <2> QED BY <2>1, <2>2, <2>3
<1>5. "complete" \in States /\ "data" \in States
  BY DEF States
<1>6. CASE b = Blocks
  <2>1. /\ pc' = [pc EXCEPT ![t] = "complete"] /\ block_num' = [block_num EXCEPT ![t] = b]
        /\ retry' = retry /\ toBoard' = toBoard
    BY <1>1, <1>2, <1>6 DEF BlockAcked, LastBlock
  <2>2. ErrorPacket(t) \in Packet /\ ErrorPacket(t).from = t /\ ErrorPacket(t).op = "ERROR"
    BY ErrorType
  <2>3. b <= board.stored + 1 /\ b <= b /\ \A x \in In(ack'[t]) : b - 1 <= x.idx
    <3>1. ack'[t] \in Seq(Packet)
      BY <1>1, <1>2, <1>4, TailFacts
    <3>2. \A x \in In(ack'[t]) : x.idx \in Int
      <4>1. In(ack'[t]) \subseteq Packet
        BY <3>1 DEF In
      <4>2. \A x \in Packet : x.idx \in Int
        BY <1>2 DEF Packet
      <4> QED BY <4>1, <4>2
    <3> HIDE DEF b
    <3> QED BY <1>3, <1>4, <3>2
  <2> HIDE DEF b
  <2> QED BY <1>1, <1>2, <1>3, <1>4, <1>5, <1>6, <2>1, <2>2, <2>3, ThreadMoves DEF b
<1>7. CASE b # Blocks
  <2>1. /\ pc' = [pc EXCEPT ![t] = "data"] /\ block_num' = [block_num EXCEPT ![t] = b + 1]
        /\ retry' = [retry EXCEPT ![t] = 1]
        /\ toBoard' \in Sent(toBoard, DataPacket(t, b + 1))
    BY <1>1, <1>2, <1>7 DEF BlockAcked, LastBlock, FirstTry
  <2>2. b + 1 \in 0 .. Blocks /\ 1 <= b + 1 /\ b <= b + 1 /\ (b + 1) - 1 = b /\ b + 1 <= board.stored + 1
    BY <1>3, <1>4, <1>7, FileAssumption
  <2>3. /\ DataPacket(t, b + 1) \in Packet /\ DataPacket(t, b + 1).from = t
        /\ DataPacket(t, b + 1).idx = b + 1 /\ DataPacket(t, b + 1).op = "DATA"
    BY <2>2, DataType
  <2>4. retry' \in [Threads -> 0 .. Tries]
    BY <1>2, <2>1
  <2>5. \A x \in In(ack'[t]) : (b + 1) - 1 <= x.idx
    BY <1>4, <2>2
  <2> HIDE DEF b
  <2> QED BY <1>1, <1>2, <1>4, <1>5, <2>1, <2>2, <2>3, <2>4, <2>5, ThreadMoves DEF b
<1> QED BY <1>6, <1>7

LEMMA AgainSafe ==
  ASSUME SafeInv, NEW t \in Threads, OtherPacket(t) \/ DataTimeout(t)
  PROVE  SafeInv'
<1> DEFINE b == block_num[t]
<1>1. /\ pc[t] = "data" /\ SendAgain(t) /\ UNCHANGED <<readable, option, rrq, block_num, board>>
      /\ ack' = ack \/ (ack[t] # <<>> /\ ack' = [ack EXCEPT ![t] = Tail(@)])
      /\ late' = late \/ late' = Later(t)
  BY DEF OtherPacket, DataTimeout
<1>2. /\ pc \in [Threads -> States] /\ block_num \in [Threads -> 0 .. Blocks] /\ rrq \in 0 .. Cap
      /\ retry \in [Threads -> 0 .. Tries] /\ late \in [Threads -> 0 .. Tries]
      /\ Tries \in Nat /\ Tries > 0 /\ Blocks \in Nat /\ board.stored \in Nat
      /\ ack \in [Threads -> Seq(Packet)] /\ TypeOK /\ ack[t] \in Seq(Packet)
  BY Types DEF SafeInv, BoardT
<1>3. b \in 0 .. Blocks /\ 1 <= b
  BY <1>1, <1>2 DEF SafeInv, ThreadInv
<1>4. late' \in [Threads -> 0 .. Tries] /\ block_num' = [block_num EXCEPT ![t] = b]
  BY <1>1, <1>2, LaterType
<1>5. /\ DataPacket(t, b) \in Packet /\ DataPacket(t, b).from = t /\ DataPacket(t, b).idx = b
      /\ DataPacket(t, b).op = "DATA"
  BY <1>3, DataType
<1>6. t # board.peer => b <= 1
  BY DEF SafeInv, ThreadInv
<1>7. t = board.peer => b <= board.stored + 1 /\ \A x \in In(ack'[t]) : b - 1 <= x.idx
  <2> SUFFICES ASSUME t = board.peer
               PROVE  b <= board.stored + 1 /\ \A x \in In(ack'[t]) : b - 1 <= x.idx
    OBVIOUS
  <2>1. b <= board.stored + 1 /\ \A x \in In(ack[t]) : b - 1 <= x.idx
    BY DEF SafeInv, ThreadInv, PeerInv
  <2>2. In(ack'[t]) \subseteq In(ack[t])
    BY <1>1, <1>2, TailFacts
  <2> QED BY <2>1, <2>2
<1>8. \E c \in {"data", "failed"} :
        /\ pc' = [pc EXCEPT ![t] = c] /\ retry' \in [Threads -> 0 .. Tries]
        /\ toBoard' = toBoard \/ toBoard' \in Sent(toBoard, DataPacket(t, b))
  <2>1. CASE retry[t] < Tries
    <3>1. retry[t] + 1 \in 0 .. Tries
      BY <1>2, <2>1
    <3>2. pc' = [pc EXCEPT ![t] = "data"] /\ retry' \in [Threads -> 0 .. Tries]
          /\ toBoard' \in Sent(toBoard, DataPacket(t, b))
      BY <1>1, <1>2, <2>1, <3>1 DEF SendAgain
    <3> QED BY <3>2
  <2>2. CASE ~(retry[t] < Tries)
    BY <1>1, <1>2, <2>2 DEF SendAgain
  <2> QED BY <2>1, <2>2
<1>9. PICK c \in {"data", "failed"} :
        /\ pc' = [pc EXCEPT ![t] = c] /\ retry' \in [Threads -> 0 .. Tries]
        /\ toBoard' = toBoard \/ toBoard' \in Sent(toBoard, DataPacket(t, b))
  BY <1>8
<1>10. c \in States
  BY DEF States
<1>11. b <= b
  BY <1>3
<1> HIDE DEF b
<1> QED BY <1>1, <1>2, <1>3, <1>4, <1>5, <1>6, <1>7, <1>9, <1>10, <1>11, ThreadMoves DEF b

-----------------------------------------------------------------------------
(* The client's steps.                                                      *)

LEMMA BoardTypes ==
  ASSUME SafeInv
  PROVE  /\ board.state \in {"off", "rrq", "data", "done", "error"} /\ board.peer \in {0} \cup Threads
         /\ board.stored \in 0 .. Blocks /\ board.stored \in Nat /\ ~board.misplaced
         /\ board.state = "data" => board.peer \in Threads
         /\ board.state \in {"off", "rrq", "error"} => board.peer = 0 /\ board.stored = 0
  BY Types DEF SafeInv, BoardInv, BoardT

(* A block the client listens to is the last one it stored, or the next,    *)
(* and the number on the wire tells which.                                  *)
LEMMA HeadData ==
  ASSUME SafeInv, toBoard # <<>>, Head(toBoard).op = "DATA", Listens(Head(toBoard).from)
  PROVE  /\ Head(toBoard).from \in Threads /\ pc[Head(toBoard).from] # "new"
         /\ Head(toBoard).idx \in Nat /\ Head(toBoard).idx <= block_num[Head(toBoard).from]
         /\ NextBlock(Head(toBoard)) => Head(toBoard).idx = board.stored + 1
         /\ ~NextBlock(Head(toBoard)) =>
              Head(toBoard).idx = board.stored /\ board.peer = Head(toBoard).from
         /\ board.peer = 0 \/ board.peer = Head(toBoard).from
         /\ \A x \in In(Tail(toBoard)) : x \in DataOf(Head(toBoard).from) => Head(toBoard).idx <= x.idx
<1> DEFINE m == Head(toBoard)
           t == m.from
<1>1. toBoard \in Seq(Packet) /\ block_num \in [Threads -> 0 .. Blocks] /\ Blocks \in Nat
      /\ 0 \notin Threads
  BY Types DEF SafeInv
<1>2. m \in Packet /\ m \in In(toBoard)
  BY <1>1, TailFacts
<1>3. m.idx \in Nat
  BY <1>1, <1>2 DEF Packet
<1>4. t \in Threads /\ pc[t] # "new" /\ 1 <= m.idx /\ m.idx <= block_num[t]
  BY <1>2 DEF SafeInv, QueueInv
<1>5. board.stored \in Nat /\ block_num[t] \in Nat
  BY <1>1, <1>4, BoardTypes
<1>6. m \in DataOf(t)
  BY <1>2 DEF DataOf
<1>7. \A x \in In(Tail(toBoard)) : x \in DataOf(t) => m.idx <= x.idx
  <2>1. Rising(toBoard, DataOf(t))
    BY <1>4 DEF SafeInv, OrderInv
  <2> QED BY <1>1, <1>6, <2>1, RisingTail
<1>8. CASE board.state = "rrq"
  <2>1. board.peer = 0 /\ board.stored = 0
    BY <1>8, BoardTypes
  <2>2. block_num[t] <= 1
    BY <1>1, <1>4, <2>1 DEF SafeInv, ThreadInv
  <2>3. m.idx = 1 /\ m.idx = board.stored + 1
    BY <1>3, <1>4, <1>5, <2>1, <2>2
  <2>4. NextBlock(m)
    BY <2>3 DEF NextBlock
  <2> HIDE DEF m, t
  <2> QED BY <1>3, <1>4, <1>7, <2>1, <2>3, <2>4 DEF m, t
<1>9. CASE board.state = "data" /\ board.peer = t
  <2>1. PeerInv(t)
    BY <1>4, <1>9 DEF SafeInv, ThreadInv
  <2>2. board.stored <= m.idx /\ block_num[t] <= board.stored + 1
    BY <1>2, <1>6, <2>1 DEF PeerInv
  <2>3. m.idx = board.stored \/ m.idx = board.stored + 1
    BY <1>3, <1>4, <1>5, <2>2
  <2>4. Number(m.idx) = Number(board.stored + 1) <=> m.idx = board.stored + 1
    <3> HIDE DEF m
    <3> QED BY <1>3, <1>5, <2>3, NumbersDiffer
  <2>5. NextBlock(m) <=> m.idx = board.stored + 1
    BY <2>4 DEF NextBlock
  <2> HIDE DEF m, t
  <2> QED BY <1>3, <1>4, <1>7, <1>9, <2>3, <2>5 DEF m, t
<1> QED BY <1>8, <1>9 DEF Listens

LEMMA BoardAckFacts ==
  ASSUME NEW t \in Threads, NEW n, BoardAck(t, n)
  PROVE  \E ch \in Sent(ack[t], AckPacket(n)) : t \in Threads /\ ack' = [ack EXCEPT ![t] = ch]
  BY DEF BoardAck, AckPacket

LEMMA RequestSafe ==
  ASSUME SafeInv, Request
  PROVE  SafeInv'
<1>1. /\ board.state \in {"off", "rrq"} /\ board' = [board EXCEPT !.state = "rrq"]
      /\ rrq' \in {rrq} \cup (IF rrq < Cap THEN {rrq + 1} ELSE {})
      /\ UNCHANGED <<readable, option, pc, block_num, retry, ack, toBoard, late>>
  BY DEF Request
<1>2. board \in BoardT /\ rrq \in 0 .. Cap /\ Cap \in Nat /\ late \in [Threads -> 0 .. Tries]
      /\ Blocks \in Nat /\ Blocks > 0
  BY Types DEF SafeInv
<1>3. /\ board' \in BoardT /\ board'.state = "rrq" /\ board'.peer = board.peer
      /\ board'.stored = board.stored /\ board'.misplaced = board.misplaced
  BY <1>1, <1>2 DEF BoardT
<1>4. BoardInv'
  BY <1>1, <1>2, <1>3 DEF SafeInv, BoardInv
<1>5. rrq' \in 0 .. Cap
  BY <1>1, <1>2
<1> QED BY <1>1, <1>2, <1>3, <1>4, <1>5, BoardMoves

LEMMA BoardTimeoutSafe ==
  ASSUME SafeInv, BoardTimeout
  PROVE  SafeInv'
<1>1. /\ board.state = "data" /\ BoardAck(board.peer, board.stored) /\ late' = Later(board.peer)
      /\ UNCHANGED <<readable, option, rrq, pc, block_num, retry, toBoard, board>>
  BY DEF BoardTimeout
<1>2. board \in BoardT /\ rrq \in 0 .. Cap /\ board.peer \in Threads /\ TypeOK
  BY <1>1, Types, BoardTypes DEF SafeInv
<1>3. late' \in [Threads -> 0 .. Tries]
  BY <1>1, <1>2, LaterType
<1>4. BoardInv'
  BY <1>1 DEF SafeInv, BoardInv
<1>5. \E ch \in Sent(ack[board.peer], AckPacket(board.stored)) :
        board.peer \in Threads /\ ack' = [ack EXCEPT ![board.peer] = ch]
  BY <1>1, <1>2, BoardAckFacts
<1>6. board'.peer = board.peer /\ board'.stored = board.stored /\ board' \in BoardT
  BY <1>1, <1>2
<1>7. \E ch \in Sent(ack[board'.peer], AckPacket(board'.stored)) :
        board'.peer \in Threads /\ ack' = [ack EXCEPT ![board'.peer] = ch]
  BY <1>5, <1>6
<1> QED BY <1>1, <1>2, <1>3, <1>4, <1>6, <1>7, BoardMoves

LEMMA BoardOackSafe ==
  ASSUME SafeInv, BoardOack
  PROVE  SafeInv'
<1> DEFINE m == Head(toBoard)
<1>1. /\ toBoard # <<>> /\ m.op = "OACK" /\ board.state = "rrq" /\ toBoard' = Tail(toBoard)
      /\ board' = [board EXCEPT !.state = "data", !.peer = m.from] /\ BoardAck(m.from, 0)
      /\ UNCHANGED <<readable, option, rrq, pc, block_num, retry, late>>
  BY DEF BoardOack
<1>2. /\ board \in BoardT /\ rrq \in 0 .. Cap /\ late \in [Threads -> 0 .. Tries] /\ Blocks \in Nat
      /\ Blocks > 0 /\ 0 \notin Threads /\ toBoard \in Seq(Packet)
  BY Types DEF SafeInv
<1>3. m \in In(toBoard)
  BY <1>1, <1>2, TailFacts
<1>4. m.from \in Threads /\ pc[m.from] # "new"
  BY <1>3 DEF SafeInv, QueueInv
<1>5. board.peer = 0 /\ board.stored = 0 /\ ~board.misplaced
  BY <1>1, BoardTypes
<1>6. /\ board' \in BoardT /\ board'.state = "data" /\ board'.peer = m.from
      /\ board'.stored = 0 /\ board'.misplaced = board.misplaced
  BY <1>1, <1>2, <1>4, <1>5 DEF BoardT
<1>7. BoardInv'
  BY <1>2, <1>4, <1>5, <1>6 DEF BoardInv
<1>8. \E ch \in Sent(ack[board'.peer], AckPacket(board'.stored)) :
        board'.peer \in Threads /\ ack' = [ack EXCEPT ![board'.peer] = ch]
  BY <1>1, <1>4, <1>6, BoardAckFacts
<1> HIDE DEF m
<1> QED BY <1>1, <1>2, <1>4, <1>5, <1>6, <1>7, <1>8, BoardMoves

LEMMA BoardDataSafe ==
  ASSUME SafeInv, BoardData
  PROVE  SafeInv'
<1> DEFINE m == Head(toBoard)
<1>1. /\ toBoard # <<>> /\ NextBlock(m) /\ toBoard' = Tail(toBoard)
      /\ board' = [state |-> IF board.stored + 1 = Blocks THEN "done" ELSE "data", peer |-> m.from,
                   stored |-> board.stored + 1,
                   misplaced |-> board.misplaced \/ m.idx # board.stored + 1]
      /\ BoardAck(m.from, board.stored + 1)
      /\ UNCHANGED <<readable, option, rrq, pc, block_num, retry, late>>
  BY DEF BoardData
<1>2. /\ board \in BoardT /\ rrq \in 0 .. Cap /\ late \in [Threads -> 0 .. Tries] /\ Blocks \in Nat
      /\ Blocks > 0 /\ 0 \notin Threads /\ block_num \in [Threads -> 0 .. Blocks]
  BY Types DEF SafeInv
<1>3. /\ m.from \in Threads /\ pc[m.from] # "new" /\ m.idx <= block_num[m.from]
      /\ m.idx = board.stored + 1
      /\ board.peer = 0 \/ board.peer = m.from
      /\ \A x \in In(Tail(toBoard)) : x \in DataOf(m.from) => m.idx <= x.idx
  <2>1. m.op = "DATA" /\ Listens(m.from)
    BY <1>1 DEF NextBlock
  <2> QED BY <1>1, <2>1, HeadData
<1> HIDE DEF m
<1>4. board.stored \in Nat /\ ~board.misplaced /\ board.stored + 1 \in 0 .. Blocks
  <2>1. block_num[m.from] \in 0 .. Blocks
    BY <1>2, <1>3
  <2> QED BY <1>2, <1>3, <2>1, BoardTypes
<1>5. /\ board'.state = (IF board.stored + 1 = Blocks THEN "done" ELSE "data")
      /\ board'.peer = m.from /\ board'.stored = board.stored + 1
      /\ board'.misplaced = (board.misplaced \/ m.idx # board.stored + 1)
  BY <1>1
<1>6. ~board'.misplaced
  BY <1>3, <1>4, <1>5
<1>7. board' \in BoardT
  BY <1>1, <1>3, <1>4 DEF BoardT
<1>8. BoardInv'
  BY <1>2, <1>3, <1>5, <1>6 DEF BoardInv
<1>9. \E ch \in Sent(ack[board'.peer], AckPacket(board'.stored)) :
        board'.peer \in Threads /\ ack' = [ack EXCEPT ![board'.peer] = ch]
  BY <1>1, <1>3, <1>5, BoardAckFacts
<1>10. board'.peer \in Threads /\ board'.stored <= block_num[board'.peer]
       /\ \A x \in In(toBoard') : x \in DataOf(board'.peer) => board'.stored <= x.idx
  BY <1>1, <1>3, <1>5
<1>11. board'.peer = board.peer
         \/ (board.peer = 0 /\ board'.peer \in Threads /\ pc[board'.peer] # "new")
  BY <1>3, <1>5
<1> QED BY <1>1, <1>2, <1>5, <1>7, <1>8, <1>9, <1>10, <1>11, BoardMoves

LEMMA BoardOldDataSafe ==
  ASSUME SafeInv, BoardOldData
  PROVE  SafeInv' /\ board.peer = Head(toBoard).from /\ Head(toBoard).idx = board.stored
<1> DEFINE m == Head(toBoard)
<1>1. /\ toBoard # <<>> /\ m.op = "DATA" /\ Listens(m.from) /\ ~NextBlock(m)
      /\ toBoard' = Tail(toBoard) /\ BoardAck(m.from, m.idx)
      /\ UNCHANGED <<readable, option, rrq, pc, block_num, retry, board, late>>
  BY DEF BoardOldData
<1>2. board \in BoardT /\ rrq \in 0 .. Cap /\ late \in [Threads -> 0 .. Tries]
  BY Types DEF SafeInv
<1>3. m.from \in Threads /\ m.idx = board.stored /\ board.peer = m.from
  BY <1>1, HeadData
<1>4. BoardInv'
  BY <1>1 DEF SafeInv, BoardInv
<1> HIDE DEF m
<1>5. board'.peer = board.peer /\ board'.stored = board.stored /\ board' \in BoardT
  BY <1>1, <1>2
<1>6. \E ch \in Sent(ack[board'.peer], AckPacket(board'.stored)) :
        board'.peer \in Threads /\ ack' = [ack EXCEPT ![board'.peer] = ch]
  BY <1>1, <1>3, <1>5, BoardAckFacts
<1>7. SafeInv'
  BY <1>1, <1>2, <1>4, <1>5, <1>6, BoardMoves
<1> QED BY <1>3, <1>7 DEF m

LEMMA BoardIgnoresSafe ==
  ASSUME SafeInv, BoardIgnores
  PROVE  SafeInv'
<1>1. /\ toBoard # <<>> /\ toBoard' = Tail(toBoard)
      /\ board' = board \/ (board.state = "rrq" /\ board' = [board EXCEPT !.state = "error"])
      /\ UNCHANGED <<readable, option, rrq, pc, block_num, retry, ack, late>>
  BY DEF BoardIgnores
<1>2. board \in BoardT /\ rrq \in 0 .. Cap /\ late \in [Threads -> 0 .. Tries] /\ Blocks \in Nat
      /\ Blocks > 0
  BY Types DEF SafeInv
<1>3. /\ board' \in BoardT /\ board'.peer = board.peer
      /\ board'.stored = board.stored /\ board'.misplaced = board.misplaced
      /\ board'.state = board.state \/ (board.state = "rrq" /\ board'.state = "error")
  BY <1>1, <1>2 DEF BoardT
<1>4. BoardInv'
  BY <1>2, <1>3 DEF SafeInv, BoardInv
<1> QED BY <1>1, <1>2, <1>3, <1>4, BoardMoves

-----------------------------------------------------------------------------
(* Tries.                                                                   *)

LEMMA WayTypes ==
  ASSUME TypeOK, NEW t \in Threads
  PROVE  /\ OnTheWay(t) \in Nat /\ Behind(t) \in Nat /\ late[t] \in 0 .. Tries /\ retry[t] \in 0 .. Tries
         /\ Tries \in Nat /\ Tries > 0
         /\ Count(toBoard, FromThread(t)) \in Nat /\ Len(ack[t]) \in Nat
<1>1. toBoard \in Seq(Packet) /\ ack[t] \in Seq(Packet)
  BY Types
<1> QED BY <1>1, CountBounds, Types DEF OnTheWay, Behind

LEMMA WayTypesNext ==
  ASSUME TypeOK', NEW t \in Threads
  PROVE  OnTheWay(t)' \in Nat /\ Behind(t)' \in Nat
<1>1. toBoard' \in Seq(Packet) /\ ack'[t] \in Seq(Packet)
  BY DEF TypeOK
<1>2. /\ Count(toBoard', FromThread(t)) \in Nat /\ Len(ack'[t]) \in Nat
      /\ Count(toBoard', {DataPacket(t, block_num'[t] - 1)}) \in Nat
      /\ Count(ack'[t], {AckPacket(block_num'[t] - 1)}) \in Nat
  BY <1>1, CountBounds
<1> QED BY <1>2 DEF OnTheWay, Behind, FromThread, DataPacket, AckPacket

(* A step with d timeouts that adds no more than d packets.                 *)
LEMMA TriesKept ==
  ASSUME TypeOK, TypeOK', NEW t \in Threads, TriesOf(t), NEW d \in {0, 1},
         late'[t] = (IF d = 1 /\ late[t] < Tries THEN late[t] + 1 ELSE late[t]),
         pc'[t] = pc[t], retry'[t] = retry[t],
         OnTheWay(t)' <= OnTheWay(t) + d, pc[t] = "data" => Behind(t)' <= Behind(t) + d
  PROVE  TriesOf(t)'
<1>1. /\ OnTheWay(t) \in Nat /\ Behind(t) \in Nat /\ late[t] \in 0 .. Tries /\ retry[t] \in 0 .. Tries
      /\ Tries \in Nat /\ OnTheWay(t)' \in Nat /\ Behind(t)' \in Nat
  BY WayTypes, WayTypesNext
<1> SUFFICES ASSUME late'[t] < Tries
             PROVE  /\ OnTheWay(t)' <= 1 + late'[t]
                    /\ pc'[t] = "data" => retry'[t] + Behind(t)' <= 1 + late'[t]
                    /\ pc'[t] # "failed"
  BY DEF TriesOf
<1>2. late[t] < Tries /\ late'[t] = late[t] + d
  BY <1>1
<1>3. /\ OnTheWay(t) <= 1 + late[t]
      /\ pc[t] = "data" => retry[t] + Behind(t) <= 1 + late[t]
      /\ pc[t] # "failed"
  BY <1>2 DEF TriesOf
<1> QED BY <1>1, <1>2, <1>3

LEMMA TailCounts ==
  ASSUME NEW q \in Seq(Packet), q # <<>>, NEW S
  PROVE  /\ Count(Tail(q), S) \in Nat /\ Count(q, S) \in Nat /\ Count(Tail(q), S) <= Count(q, S)
         /\ Head(q) \in S => Count(Tail(q), S) = Count(q, S) - 1
<1>1. Tail(q) \in Seq(Packet)
  BY TailFacts
<1>2. Count(Tail(q), S) \in Nat /\ Count(q, S) \in Nat
  BY <1>1, CountBounds
<1> QED BY <1>2, CountTail

(* What a thread sends does not count for others.                           *)
LEMMA SentCounts ==
  ASSUME TypeOK, NEW m \in Packet, toBoard' = toBoard \/ toBoard' \in Sent(toBoard, m), NEW S
  PROVE  /\ Count(toBoard', S) <= Count(toBoard, S) + 1
         /\ m \notin S => Count(toBoard', S) <= Count(toBoard, S)
         /\ Count(toBoard', S) \in Nat /\ Count(toBoard, S) \in Nat
<1>1. toBoard \in Seq(Packet) /\ Len(toBoard) <= Cap
  BY Types
<1>2. toBoard' \in Seq(Packet)
  BY <1>1, SentFacts
<1>3. Count(toBoard', S) \in Nat /\ Count(toBoard, S) \in Nat
  BY <1>1, <1>2, CountBounds
<1>4. CASE toBoard' = toBoard
  BY <1>3, <1>4
<1>5. CASE toBoard' \in Sent(toBoard, m)
  <2>1. Count(toBoard', S) <= Count(toBoard, S) + (IF m \in S THEN 1 ELSE 0)
    BY <1>1, <1>5, CountSent
  <2> QED BY <1>3, <2>1
<1> QED BY <1>4, <1>5

LEMMA OtherThreads ==
  ASSUME TypeOK, TypeOK', TriesInv, NEW t \in Threads, NEW m \in Packet, m.from = t,
         toBoard' = toBoard \/ toBoard' \in Sent(toBoard, m),
         \A u \in Threads : u # t => /\ pc'[u] = pc[u] /\ block_num'[u] = block_num[u]
                                     /\ retry'[u] = retry[u] /\ late'[u] = late[u] /\ ack'[u] = ack[u],
         TriesOf(t)'
  PROVE  TriesInv'
<1> SUFFICES ASSUME NEW u \in Threads, u # t PROVE TriesOf(u)'
  BY DEF TriesInv
<1>1. m \notin FromThread(u) /\ m # DataPacket(u, block_num[u] - 1)
  BY DEF FromThread, DataPacket
<1>2. Count(toBoard', FromThread(u)) <= Count(toBoard, FromThread(u))
  BY <1>1, SentCounts
<1>3. Count(toBoard', {DataPacket(u, block_num[u] - 1)})
        <= Count(toBoard, {DataPacket(u, block_num[u] - 1)})
  BY <1>1, SentCounts
<1>4. ack[u] \in Seq(Packet) /\ Len(ack[u]) \in Nat /\ Count(ack[u], {AckPacket(block_num[u] - 1)}) \in Nat
  BY Types, CountBounds
<1>5. /\ Count(toBoard', FromThread(u)) \in Nat /\ Count(toBoard, FromThread(u)) \in Nat
      /\ Count(toBoard', {DataPacket(u, block_num[u] - 1)}) \in Nat
      /\ Count(toBoard, {DataPacket(u, block_num[u] - 1)}) \in Nat
  BY SentCounts
<1>6. OnTheWay(u)' <= OnTheWay(u) + 0
  <2>1. OnTheWay(u)' = Count(toBoard', FromThread(u)) + Len(ack[u])
    BY DEF OnTheWay, FromThread
  <2> QED BY <1>2, <1>4, <1>5, <2>1 DEF OnTheWay
<1>7. Behind(u)' <= Behind(u) + 0
  <2>1. Behind(u)' = Count(toBoard', {DataPacket(u, block_num[u] - 1)})
                       + Count(ack[u], {AckPacket(block_num[u] - 1)})
    BY DEF Behind, DataPacket, AckPacket
  <2> QED BY <1>3, <1>4, <1>5, <2>1 DEF Behind
<1>8. TriesOf(u)
  BY DEF TriesInv
<1>9. late'[u] = (IF 0 = 1 /\ late[u] < Tries THEN late[u] + 1 ELSE late[u])
      /\ pc'[u] = pc[u] /\ retry'[u] = retry[u]
  OBVIOUS
<1> QED BY <1>6, <1>7, <1>8, <1>9, TriesKept


LEMMA CountsNext ==
  ASSUME NEW t \in Threads
  PROVE  /\ OnTheWay(t)' = Count(toBoard', FromThread(t)) + Len(ack'[t])
         /\ Behind(t)' = Count(toBoard', {DataPacket(t, block_num'[t] - 1)})
                           + Count(ack'[t], {AckPacket(block_num'[t] - 1)})
  BY DEF OnTheWay, Behind, FromThread, DataPacket, AckPacket

LEMMA DataAmong ==
  ASSUME TypeOK, NEW t \in Threads, NEW n
  PROVE  Count(toBoard, {DataPacket(t, n)}) <= Count(toBoard, FromThread(t))
<1>1. toBoard \in Seq(Packet) /\ In(toBoard) \subseteq Packet
  BY Types
<1>2. \A m \in In(toBoard) : m \in {DataPacket(t, n)} => m \in FromThread(t)
  BY <1>1 DEF FromThread, DataPacket
<1> QED BY <1>1, <1>2, CountFewer

(* An answer taken and a new block sent for it: whatever is on the way now  *)
(* is of the block before.                                                  *)
LEMMA NewBlock ==
  ASSUME TypeOK, TypeOK', NEW t \in Threads, TriesOf(t), NEW n \in 0 .. Blocks,
         ack[t] # <<>>, ack'[t] = Tail(ack[t]), late'[t] = late[t],
         toBoard' = toBoard \/ toBoard' \in Sent(toBoard, DataPacket(t, n)),
         pc'[t] # "failed",
         pc'[t] = "data" => retry'[t] = 1 /\ n = block_num'[t]
  PROVE  TriesOf(t)'
<1> DEFINE p == DataPacket(t, n - 1)
           a == AckPacket(n - 1)
<1>1. DataPacket(t, n) \in Packet /\ DataPacket(t, n) # p
  BY DataType, FileAssumption DEF DataPacket
<1>2. /\ Count(toBoard', FromThread(t)) <= Count(toBoard, FromThread(t)) + 1
      /\ Count(toBoard', FromThread(t)) \in Nat /\ Count(toBoard, FromThread(t)) \in Nat
  BY <1>1, SentCounts
<1>3. /\ Count(toBoard', {p}) <= Count(toBoard, {p})
      /\ Count(toBoard', {p}) \in Nat /\ Count(toBoard, {p}) \in Nat
  <2> HIDE DEF p
  <2> QED BY <1>1, SentCounts
<1>4. Count(toBoard, {p}) <= Count(toBoard, FromThread(t))
  BY DataAmong
<1>5. /\ ack[t] \in Seq(Packet) /\ Tail(ack[t]) \in Seq(Packet)
      /\ Len(ack[t]) \in Nat /\ Len(ack[t]) > 0 /\ Len(Tail(ack[t])) = Len(ack[t]) - 1
  BY Types, TailFacts
<1>6. Count(ack'[t], {a}) \in Nat /\ Count(ack'[t], {a}) <= Len(ack[t]) - 1
  <2> HIDE DEF a
  <2> QED BY <1>5, CountBounds
<1>7. OnTheWay(t) = Count(toBoard, FromThread(t)) + Len(ack[t])
  BY DEF OnTheWay
<1>8. OnTheWay(t)' = Count(toBoard', FromThread(t)) + Len(ack[t]) - 1
  BY <1>2, <1>5, CountsNext
<1>9. pc'[t] = "data" => Behind(t)' = Count(toBoard', {p}) + Count(ack'[t], {a})
  BY CountsNext
<1>10. late[t] \in 0 .. Tries /\ Tries \in Nat
  BY WayTypes
<1> HIDE DEF p, a
<1> SUFFICES ASSUME late'[t] < Tries
             PROVE  /\ OnTheWay(t)' <= 1 + late'[t]
                    /\ pc'[t] = "data" => retry'[t] + Behind(t)' <= 1 + late'[t]
                    /\ pc'[t] # "failed"
  BY DEF TriesOf
<1>11. OnTheWay(t) <= 1 + late[t]
  BY DEF TriesOf
<1>12. OnTheWay(t)' <= 1 + late'[t]
  BY <1>2, <1>5, <1>7, <1>8, <1>10, <1>11
<1>13. ASSUME pc'[t] = "data" PROVE retry'[t] + Behind(t)' <= 1 + late'[t]
  <2>1. retry'[t] = 1 /\ Behind(t)' = Count(toBoard', {p}) + Count(ack'[t], {a})
    BY <1>9, <1>13
  <2> QED BY <1>2, <1>3, <1>4, <1>5, <1>6, <1>7, <1>10, <1>11, <2>1
<1> QED BY <1>12, <1>13

(* The block again. An answer for the block before it made room for it, or  *)
(* a timeout.                                                               *)
LEMMA SameBlock ==
  ASSUME SafeInv, TypeOK', NEW t \in Threads, TriesOf(t), pc[t] = "data", SendAgain(t),
         block_num'[t] = block_num[t],
         \/ /\ ack[t] # <<>> /\ ack'[t] = Tail(ack[t]) /\ Head(ack[t]) = AckPacket(block_num[t] - 1)
            /\ late'[t] = late[t]
         \/ /\ ack'[t] = ack[t]
            /\ late'[t] = IF late[t] < Tries THEN late[t] + 1 ELSE late[t]
  PROVE  TriesOf(t)'
<1> DEFINE n == block_num[t]
           p == DataPacket(t, n - 1)
           a == AckPacket(n - 1)
<1>1. TypeOK /\ n \in 0 .. Blocks /\ ack[t] \in Seq(Packet) /\ pc \in [Threads -> States]
      /\ retry \in [Threads -> 0 .. Tries]
  BY Types DEF SafeInv
<1>2. DataPacket(t, n) \in Packet /\ DataPacket(t, n) # p
  BY <1>1, DataType, FileAssumption DEF DataPacket
<1>3. \/ retry[t] < Tries /\ retry'[t] = retry[t] + 1 /\ pc'[t] = pc[t]
      \/ retry[t] = Tries /\ pc'[t] = "failed"
  BY <1>1, TriesAssumption DEF SendAgain
<1>4. toBoard' = toBoard \/ toBoard' \in Sent(toBoard, DataPacket(t, n))
  BY DEF SendAgain
<1>5. /\ Count(toBoard', FromThread(t)) <= Count(toBoard, FromThread(t)) + 1
      /\ Count(toBoard', FromThread(t)) \in Nat /\ Count(toBoard, FromThread(t)) \in Nat
  BY <1>1, <1>2, <1>4, SentCounts
<1>6. /\ Count(toBoard', {p}) <= Count(toBoard, {p})
      /\ Count(toBoard', {p}) \in Nat /\ Count(toBoard, {p}) \in Nat
  <2> HIDE DEF p
  <2> QED BY <1>1, <1>2, <1>4, SentCounts
<1>7. /\ Len(ack[t]) \in Nat /\ Count(ack[t], {a}) \in Nat
      /\ OnTheWay(t) = Count(toBoard, FromThread(t)) + Len(ack[t])
      /\ Behind(t) = Count(toBoard, {p}) + Count(ack[t], {a})
  BY <1>1, CountBounds DEF OnTheWay, Behind
<1>8. /\ OnTheWay(t)' = Count(toBoard', FromThread(t)) + Len(ack'[t])
      /\ Behind(t)' = Count(toBoard', {p}) + Count(ack'[t], {a})
  BY CountsNext
<1>9. late[t] \in 0 .. Tries /\ Tries \in Nat /\ retry[t] \in 0 .. Tries
  BY <1>1, WayTypes
<1> SUFFICES ASSUME late'[t] < Tries
             PROVE  /\ OnTheWay(t)' <= 1 + late'[t]
                    /\ pc'[t] = "data" => retry'[t] + Behind(t)' <= 1 + late'[t]
                    /\ pc'[t] # "failed"
  BY DEF TriesOf
<1>10. late[t] < Tries
  BY <1>9
<1>11. OnTheWay(t) <= 1 + late[t] /\ retry[t] + Behind(t) <= 1 + late[t]
  BY <1>10 DEF TriesOf
<1>12. CASE ack[t] # <<>> /\ ack'[t] = Tail(ack[t]) /\ Head(ack[t]) = a /\ late'[t] = late[t]
  <2>1. Len(ack'[t]) = Len(ack[t]) - 1
    BY <1>1, <1>12, TailFacts
  <2>2. Count(ack'[t], {a}) = Count(ack[t], {a}) - 1 /\ Count(ack'[t], {a}) \in Nat
    <3> HIDE DEF a
    <3> QED BY <1>1, <1>12, TailCounts
  <2> HIDE DEF a, p, n
  <2>3. OnTheWay(t)' <= OnTheWay(t) /\ OnTheWay(t)' \in Nat /\ OnTheWay(t) \in Nat
    BY <1>5, <1>7, <1>8, <2>1
  <2>4. Behind(t)' <= Behind(t) - 1 /\ Behind(t)' \in Nat /\ Behind(t) \in Nat
    BY <1>6, <1>7, <1>8, <2>2
  <2>5. retry[t] < Tries
    BY <1>9, <1>10, <1>11, <2>4
  <2>6. retry'[t] = retry[t] + 1 /\ pc'[t] = "data" /\ late'[t] = late[t]
    BY <1>3, <1>9, <1>12, <2>5
  <2>7. OnTheWay(t)' <= 1 + late'[t]
    BY <1>9, <1>11, <2>3, <2>6
  <2>8. retry'[t] + Behind(t)' <= 1 + late'[t]
    BY <1>9, <1>11, <2>4, <2>6
  <2> QED BY <2>6, <2>7, <2>8
<1>13. CASE ack'[t] = ack[t] /\ late'[t] = late[t] + 1
  <2> HIDE DEF a, p, n
  <2>1. OnTheWay(t)' <= OnTheWay(t) + 1 /\ OnTheWay(t)' \in Nat /\ OnTheWay(t) \in Nat
    BY <1>5, <1>7, <1>8, <1>13
  <2>2. Behind(t)' <= Behind(t) /\ Behind(t)' \in Nat /\ Behind(t) \in Nat
    BY <1>6, <1>7, <1>8, <1>13
  <2>3. retry[t] < Tries
    BY <1>9, <1>11, <1>13, <2>2
  <2>4. retry'[t] = retry[t] + 1 /\ pc'[t] = "data" /\ late'[t] = late[t] + 1
    BY <1>3, <1>9, <1>13, <2>3
  <2>5. OnTheWay(t)' <= 1 + late'[t]
    BY <1>9, <1>11, <2>1, <2>4
  <2>6. retry'[t] + Behind(t)' <= 1 + late'[t]
    BY <1>9, <1>11, <2>2, <2>4
  <2> QED BY <2>4, <2>5, <2>6
<1> QED BY <1>10, <1>12, <1>13

LEMMA ServeTries ==
  ASSUME IInv, SafeInv', NEW t \in Threads, Serve(t)
  PROVE  TriesInv'
<1> DEFINE oack  == [op |-> "OACK", from |-> t, idx |-> 0]
           m     == IF ~readable THEN ErrorPacket(t) ELSE IF option THEN oack ELSE DataPacket(t, 1)
           first == DataPacket(t, 0)
<1>1. /\ pc[t] = "new" /\ toBoard' \in Sent(toBoard, m) /\ ack' = ack /\ late' = late
      /\ pc' = [pc EXCEPT ![t] = IF ~readable THEN "closed" ELSE IF option THEN "oack" ELSE "data"]
      /\ block_num' = [block_num EXCEPT ![t] = IF readable /\ ~option THEN 1 ELSE 0]
      /\ retry' = [retry EXCEPT ![t] = IF readable /\ ~option THEN 1 ELSE 0]
  BY DEF Serve, ErrorPacket
<1>2. /\ SafeInv /\ TypeOK /\ TypeOK' /\ TriesInv /\ TriesOf(t) /\ toBoard \in Seq(Packet)
      /\ pc \in [Threads -> States] /\ block_num \in [Threads -> 0 .. Blocks]
      /\ retry \in [Threads -> 0 .. Tries] /\ Blocks \in Nat /\ Blocks > 0
  BY Types DEF IInv, SafeInv, TriesInv
<1>3. m \in Packet /\ m.from = t /\ m # first
  <2>1. DataPacket(t, 1) \in Packet /\ DataPacket(t, 1).from = t /\ DataPacket(t, 1).idx = 1
    BY <1>2, DataType
  <2>2. oack \in Packet /\ oack.from = t /\ oack.op = "OACK"
    BY <1>2 DEF Packet
  <2>3. ErrorPacket(t) \in Packet /\ ErrorPacket(t).from = t /\ ErrorPacket(t).op = "ERROR"
    BY ErrorType
  <2>4. first.op = "DATA" /\ first.idx = 0
    BY DEF DataPacket
  <2> HIDE DEF oack, first
  <2> QED BY <2>1, <2>2, <2>3, <2>4
<1>4. \A x \in In(toBoard) : x \notin FromThread(t) /\ x \notin {first}
  <2> SUFFICES ASSUME NEW x \in In(toBoard) PROVE x.from # t
    BY DEF FromThread, DataPacket
  <2> QED BY <1>1, <1>2 DEF SafeInv, QueueInv
<1>5. ack[t] = <<>>
  BY <1>1, <1>2 DEF SafeInv, ThreadInv, PeerInv
<1>6. Count(toBoard', FromThread(t)) <= 1 /\ Count(toBoard', FromThread(t)) \in Nat
  <2>1. Count(toBoard, FromThread(t)) = 0
    BY <1>2, <1>4, CountNone
  <2> HIDE DEF m
  <2> QED BY <1>1, <1>2, <1>3, <2>1, SentCounts
<1>7. Count(toBoard', {first}) = 0
  <2>1. Count(toBoard, {first}) = 0
    BY <1>2, <1>4, CountNone
  <2> HIDE DEF m, first
  <2>2. m \notin {first}
    BY <1>3
  <2>3. /\ Count(toBoard', {first}) <= Count(toBoard, {first})
        /\ Count(toBoard', {first}) \in Nat
    BY <1>1, <1>2, <1>3, <2>2, SentCounts
  <2> QED BY <2>1, <2>3
<1>8. Len(ack'[t]) = 0 /\ Count(ack'[t], {AckPacket(0)}) = 0
  <2> DEFINE a == AckPacket(0)
  <2>1. ack'[t] = <<>> /\ <<>> \in Seq(Packet) /\ Len(<<>>) = 0
    BY <1>1, <1>5
  <2> HIDE DEF a
  <2>2. Count(<<>>, {a}) \in Nat /\ Count(<<>>, {a}) <= Len(<<>>)
    BY <2>1, CountBounds
  <2>3. Count(ack'[t], {a}) = 0
    BY <2>1, <2>2
  <2> QED BY <2>1, <2>3 DEF a
<1>9. OnTheWay(t)' <= 1
  <2>1. OnTheWay(t)' = Count(toBoard', FromThread(t)) + 0
    BY <1>8, CountsNext
  <2> QED BY <1>6, <2>1
<1>10. ASSUME pc'[t] = "data" PROVE retry'[t] = 1 /\ Behind(t)' = 0
  <2>1. readable /\ ~option
    BY <1>1, <1>2, <1>10
  <2>2. retry'[t] = 1 /\ block_num'[t] = 1
    BY <1>1, <1>2, <2>1
  <2>3. Behind(t)' = Count(toBoard', {DataPacket(t, 1 - 1)}) + Count(ack'[t], {AckPacket(1 - 1)})
    BY <2>2, CountsNext
  <2> QED BY <1>7, <1>8, <2>2, <2>3
<1>11. TriesOf(t)'
  <2>1. late'[t] \in Nat /\ OnTheWay(t)' \in Nat
    BY <1>1, <1>2, WayTypes, WayTypesNext
  <2>2. pc'[t] # "failed"
    BY <1>1, <1>2
  <2> QED BY <1>9, <1>10, <2>1, <2>2 DEF TriesOf
<1>12. \A u \in Threads : u # t => /\ pc'[u] = pc[u] /\ block_num'[u] = block_num[u]
                                   /\ retry'[u] = retry[u] /\ late'[u] = late[u] /\ ack'[u] = ack[u]
  BY <1>1, <1>2
<1> HIDE DEF m
<1> QED BY <1>1, <1>2, <1>3, <1>11, <1>12, OtherThreads

LEMMA OackTries ==
  ASSUME IInv, SafeInv', NEW t \in Threads, OackAnswered(t) \/ OackTimeout(t)
  PROVE  TriesInv'
<1>1. /\ SafeInv /\ TypeOK /\ TypeOK' /\ TriesInv /\ TriesOf(t)
      /\ pc \in [Threads -> States] /\ block_num \in [Threads -> 0 .. Blocks]
      /\ retry \in [Threads -> 0 .. Tries] /\ late \in [Threads -> 0 .. Tries]
      /\ ack \in [Threads -> Seq(Packet)]
      /\ 1 \in 0 .. Blocks
  BY Types DEF IInv, SafeInv, TriesInv
<1>2. DataPacket(t, 1) \in Packet /\ DataPacket(t, 1).from = t
  BY <1>1, DataType
<1>3. toBoard' = toBoard \/ toBoard' \in Sent(toBoard, DataPacket(t, 1))
  BY DEF OackAnswered, OackTimeout
<1>4. \A u \in Threads : u # t => /\ pc'[u] = pc[u] /\ block_num'[u] = block_num[u]
                                  /\ retry'[u] = retry[u] /\ late'[u] = late[u] /\ ack'[u] = ack[u]
  <2>1. CASE OackAnswered(t)
    BY <1>1, <2>1 DEF OackAnswered
  <2>2. CASE OackTimeout(t)
    BY <1>1, <2>2, LaterType DEF OackTimeout
  <2> QED BY <2>1, <2>2
<1>5. CASE OackAnswered(t)
  <2>1. ack[t] # <<>> /\ ack'[t] = Tail(ack[t]) /\ late'[t] = late[t]
    BY <1>1, <1>5 DEF OackAnswered
  <2>2. pc'[t] # "failed" /\ (pc'[t] = "data" => retry'[t] = 1 /\ 1 = block_num'[t])
    BY <1>1, <1>5 DEF OackAnswered
  <2>3. TriesOf(t)'
    BY <1>1, <1>3, <2>1, <2>2, NewBlock
  <2> QED BY <1>1, <1>2, <1>3, <1>4, <2>3, OtherThreads
<1>6. CASE OackTimeout(t)
  <2>1. /\ pc'[t] = "closed" /\ toBoard' = toBoard /\ ack' = ack
        /\ late'[t] = IF late[t] < Tries THEN late[t] + 1 ELSE late[t]
    BY <1>1, <1>6, LaterType DEF OackTimeout
  <2>2. OnTheWay(t)' = OnTheWay(t) /\ OnTheWay(t) \in Nat /\ late[t] \in 0 .. Tries /\ Tries \in Nat
    BY <1>1, <2>1, CountsNext, WayTypes DEF OnTheWay
  <2>3. late[t] < Tries => OnTheWay(t) <= 1 + late[t]
    BY <1>1 DEF TriesOf
  <2>4. TriesOf(t)'
    BY <2>1, <2>2, <2>3 DEF TriesOf
  <2> QED BY <1>1, <1>2, <1>3, <1>4, <2>4, OtherThreads
<1> QED BY <1>5, <1>6

LEMMA BlockAckedTries ==
  ASSUME IInv, SafeInv', NEW t \in Threads, BlockAcked(t)
  PROVE  TriesInv'
<1>1. /\ SafeInv /\ TypeOK /\ TypeOK' /\ TriesInv /\ TriesOf(t)
      /\ pc \in [Threads -> States] /\ block_num \in [Threads -> 0 .. Blocks]
      /\ retry \in [Threads -> 0 .. Tries] /\ ack \in [Threads -> Seq(Packet)] /\ Blocks \in Nat
  BY Types DEF IInv, SafeInv, TriesInv
<1>2. ack[t] # <<>> /\ ack'[t] = Tail(ack[t]) /\ late' = late /\ pc[t] = "data"
  BY <1>1 DEF BlockAcked
<1>3. \A u \in Threads : u # t => /\ pc'[u] = pc[u] /\ block_num'[u] = block_num[u]
                                  /\ retry'[u] = retry[u] /\ late'[u] = late[u] /\ ack'[u] = ack[u]
  BY <1>1 DEF BlockAcked
<1>4. PICK n \in 0 .. Blocks :
        /\ toBoard' = toBoard \/ toBoard' \in Sent(toBoard, DataPacket(t, n))
        /\ pc'[t] # "failed" /\ (pc'[t] = "data" => retry'[t] = 1 /\ n = block_num'[t])
  <2>1. CASE LastBlock(block_num[t])
    <3>1. toBoard' = toBoard /\ pc'[t] = "complete"
      BY <1>1, <2>1 DEF BlockAcked
    <3> QED BY <1>1, <3>1
  <2>2. CASE ~LastBlock(block_num[t])
    <3>1. /\ toBoard' \in Sent(toBoard, DataPacket(t, block_num[t] + 1)) /\ pc'[t] = "data"
          /\ retry'[t] = 1 /\ block_num'[t] = block_num[t] + 1
      BY <1>1, <1>2, <2>2 DEF BlockAcked, FirstTry
    <3>2. block_num[t] + 1 \in 0 .. Blocks
      BY <1>1, <2>2 DEF LastBlock
    <3> QED BY <3>1, <3>2
  <2> QED BY <2>1, <2>2
<1>5. DataPacket(t, n) \in Packet /\ DataPacket(t, n).from = t
  BY DataType
<1>6. TriesOf(t)'
  BY <1>1, <1>2, <1>4, NewBlock
<1> QED BY <1>1, <1>3, <1>4, <1>5, <1>6, OtherThreads

LEMMA AgainTries ==
  ASSUME IInv, SafeInv', NEW t \in Threads, OtherPacket(t) \/ DataTimeout(t)
  PROVE  TriesInv'
<1>1. /\ SafeInv /\ TypeOK /\ TypeOK' /\ TriesInv /\ TriesOf(t)
      /\ pc \in [Threads -> States] /\ block_num \in [Threads -> 0 .. Blocks]
      /\ retry \in [Threads -> 0 .. Tries] /\ ack \in [Threads -> Seq(Packet)]
  BY Types DEF IInv, SafeInv, TriesInv
<1>2. pc[t] = "data" /\ SendAgain(t) /\ block_num' = block_num
  BY DEF OtherPacket, DataTimeout
<1>3. toBoard' = toBoard \/ toBoard' \in Sent(toBoard, DataPacket(t, block_num[t]))
  BY <1>2 DEF SendAgain
<1>4. \A u \in Threads : u # t => pc'[u] = pc[u] /\ retry'[u] = retry[u]
  BY <1>1, <1>2 DEF SendAgain
<1>5. DataPacket(t, block_num[t]) \in Packet /\ DataPacket(t, block_num[t]).from = t
  BY <1>1, DataType
<1>6. CASE OtherPacket(t)
  <2>1. /\ ack[t] # <<>> /\ ~Acknowledges(t, Head(ack[t])) /\ late' = late
        /\ ack' = [ack EXCEPT ![t] = Tail(@)]
    BY <1>6 DEF OtherPacket
  <2>2. Head(ack[t]) = AckPacket(block_num[t] - 1)
    BY <1>1, <1>2, <2>1, AckMeansStored
  <2>3. ack'[t] = Tail(ack[t]) /\ \A u \in Threads : u # t => ack'[u] = ack[u]
    BY <1>1, <2>1
  <2>4. TriesOf(t)'
    BY <1>1, <1>2, <2>1, <2>2, <2>3, SameBlock
  <2> QED BY <1>1, <1>2, <1>3, <1>4, <1>5, <2>1, <2>3, <2>4, OtherThreads
<1>7. CASE DataTimeout(t)
  <2>1. ack' = ack /\ late' = Later(t)
    BY <1>7 DEF DataTimeout
  <2>2. /\ late'[t] = IF late[t] < Tries THEN late[t] + 1 ELSE late[t]
        /\ \A u \in Threads : u # t => late'[u] = late[u]
    BY <1>1, <2>1, LaterType
  <2>3. TriesOf(t)'
    BY <1>1, <1>2, <2>1, <2>2, SameBlock
  <2> QED BY <1>1, <1>2, <1>3, <1>4, <1>5, <2>1, <2>2, <2>3, OtherThreads
<1> QED BY <1>6, <1>7

(* A step of the client leaves alone the threads it does not answer.        *)
LEMMA Unanswered ==
  ASSUME TypeOK, TypeOK', UNCHANGED <<pc, block_num, retry>>, NEW u \in Threads, TriesOf(u),
         toBoard' = toBoard \/ (toBoard # <<>> /\ toBoard' = Tail(toBoard)),
         ack'[u] = ack[u], late'[u] = late[u]
  PROVE  TriesOf(u)'
<1> DEFINE p == DataPacket(u, block_num[u] - 1)
           a == AckPacket(block_num[u] - 1)
<1>1. \A S : /\ Count(toBoard', S) <= Count(toBoard, S)
             /\ Count(toBoard', S) \in Nat /\ Count(toBoard, S) \in Nat
  <2> SUFFICES ASSUME NEW S
               PROVE  /\ Count(toBoard', S) <= Count(toBoard, S)
                      /\ Count(toBoard', S) \in Nat /\ Count(toBoard, S) \in Nat
    OBVIOUS
  <2>1. toBoard \in Seq(Packet) /\ Count(toBoard, S) \in Nat
    BY Types, CountBounds
  <2>2. CASE toBoard' = toBoard
    BY <2>1, <2>2
  <2>3. CASE toBoard # <<>> /\ toBoard' = Tail(toBoard)
    BY <2>1, <2>3, TailCounts
  <2> QED BY <2>2, <2>3
<1>2. Len(ack[u]) \in Nat /\ Count(ack[u], {a}) \in Nat
  BY Types, CountBounds
<1>3. /\ OnTheWay(u) = Count(toBoard, FromThread(u)) + Len(ack[u])
      /\ Behind(u) = Count(toBoard, {p}) + Count(ack[u], {a})
  BY DEF OnTheWay, Behind
<1>4. /\ OnTheWay(u)' = Count(toBoard', FromThread(u)) + Len(ack[u])
      /\ Behind(u)' = Count(toBoard', {p}) + Count(ack[u], {a})
  BY CountsNext
<1> HIDE DEF p, a
<1>5. OnTheWay(u)' <= OnTheWay(u) + 0
  <2>1. /\ Count(toBoard', FromThread(u)) <= Count(toBoard, FromThread(u))
        /\ Count(toBoard', FromThread(u)) \in Nat /\ Count(toBoard, FromThread(u)) \in Nat
    BY <1>1
  <2> QED BY <1>2, <1>3, <1>4, <2>1
<1>6. Behind(u)' <= Behind(u) + 0
  <2>1. /\ Count(toBoard', {p}) <= Count(toBoard, {p})
        /\ Count(toBoard', {p}) \in Nat /\ Count(toBoard, {p}) \in Nat
    BY <1>1
  <2> QED BY <1>2, <1>3, <1>4, <2>1
<1>7. late'[u] = (IF 0 = 1 /\ late[u] < Tries THEN late[u] + 1 ELSE late[u])
      /\ pc'[u] = pc[u] /\ retry'[u] = retry[u]
  OBVIOUS
<1> QED BY <1>5, <1>6, <1>7, TriesKept

LEMMA AckCounts ==
  ASSUME TypeOK, NEW t \in Threads, NEW n \in 0 .. Blocks, BoardAck(t, n)
  PROVE  /\ \A u \in Threads : u # t => ack'[u] = ack[u]
         /\ Len(ack'[t]) <= Len(ack[t]) + 1 /\ Len(ack'[t]) \in Nat /\ Len(ack[t]) \in Nat
         /\ \A S : /\ Count(ack'[t], S) <= Count(ack[t], S) + 1
                   /\ AckPacket(n) \notin S => Count(ack'[t], S) <= Count(ack[t], S)
                   /\ Count(ack'[t], S) \in Nat /\ Count(ack[t], S) \in Nat
<1>1. PICK ch \in Sent(ack[t], AckPacket(n)) : ack' = [ack EXCEPT ![t] = ch]
  BY BoardAckFacts
<1>2. /\ ack \in [Threads -> Seq(Packet)] /\ ack[t] \in Seq(Packet) /\ Len(ack[t]) <= Cap
      /\ AckPacket(n) \in Packet
  BY Types, PacketTypes
<1>3. ack'[t] = ch /\ \A u \in Threads : u # t => ack'[u] = ack[u]
  BY <1>1, <1>2
<1>4. ch \in Seq(Packet) /\ (ch = ack[t] \/ ch = Append(ack[t], AckPacket(n)))
  BY <1>2, SentFacts
<1>5. Len(ch) <= Len(ack[t]) + 1 /\ Len(ch) \in Nat /\ Len(ack[t]) \in Nat
  BY <1>2, <1>4
<1>6. ASSUME NEW S
      PROVE  /\ Count(ch, S) <= Count(ack[t], S) + 1
             /\ AckPacket(n) \notin S => Count(ch, S) <= Count(ack[t], S)
             /\ Count(ch, S) \in Nat /\ Count(ack[t], S) \in Nat
  <2>1. Count(ch, S) \in Nat /\ Count(ack[t], S) \in Nat
    BY <1>2, <1>4, CountBounds
  <2>2. Count(ch, S) <= Count(ack[t], S) + (IF AckPacket(n) \in S THEN 1 ELSE 0)
    BY <1>2, CountSent
  <2> QED BY <2>1, <2>2
<1> QED BY <1>3, <1>5, <1>6

(* A packet of thread t is taken and answered, if it is not a repeated one  *)
(* with an answer for an earlier block.                                     *)
LEMMA Answered ==
  ASSUME TypeOK, TypeOK', TriesInv, UNCHANGED <<pc, block_num, retry, late>>,
         NEW t \in Threads, NEW n \in 0 .. Blocks, BoardAck(t, n),
         toBoard # <<>>, toBoard' = Tail(toBoard), Head(toBoard).from = t,
         pc[t] = "data" => n # block_num[t] - 1 \/ Head(toBoard) = DataPacket(t, n)
  PROVE  TriesInv'
<1> DEFINE p == DataPacket(t, block_num[t] - 1)
           a == AckPacket(block_num[t] - 1)
<1>1. toBoard \in Seq(Packet) /\ Head(toBoard) \in FromThread(t)
  BY Types, TailFacts DEF FromThread
<1>2. /\ Count(toBoard', FromThread(t)) = Count(toBoard, FromThread(t)) - 1
      /\ Count(toBoard, FromThread(t)) \in Nat
  BY <1>1, TailCounts
<1>3. /\ Count(toBoard', {p}) <= Count(toBoard, {p})
      /\ Head(toBoard) = p => Count(toBoard', {p}) = Count(toBoard, {p}) - 1
      /\ Count(toBoard', {p}) \in Nat /\ Count(toBoard, {p}) \in Nat
  <2> HIDE DEF p
  <2> QED BY <1>1, TailCounts
<1>4. /\ Len(ack'[t]) <= Len(ack[t]) + 1 /\ Len(ack'[t]) \in Nat /\ Len(ack[t]) \in Nat
      /\ \A u \in Threads : u # t => ack'[u] = ack[u]
  BY AckCounts
<1>5. /\ Count(ack'[t], {a}) <= Count(ack[t], {a}) + 1
      /\ AckPacket(n) # a => Count(ack'[t], {a}) <= Count(ack[t], {a})
      /\ Count(ack'[t], {a}) \in Nat /\ Count(ack[t], {a}) \in Nat
  <2> HIDE DEF a
  <2> QED BY AckCounts
<1>6. /\ OnTheWay(t) = Count(toBoard, FromThread(t)) + Len(ack[t])
      /\ Behind(t) = Count(toBoard, {p}) + Count(ack[t], {a})
  BY DEF OnTheWay, Behind
<1>7. /\ OnTheWay(t)' = Count(toBoard', FromThread(t)) + Len(ack'[t])
      /\ Behind(t)' = Count(toBoard', {p}) + Count(ack'[t], {a})
  BY CountsNext
<1>8. pc[t] = "data" => AckPacket(n) # a \/ Head(toBoard) = p
  <2>1. n # block_num[t] - 1 => AckPacket(n) # a
    BY DEF AckPacket
  <2> QED BY <2>1
<1> HIDE DEF p, a
<1>9. OnTheWay(t)' <= OnTheWay(t) + 0
  BY <1>2, <1>4, <1>6, <1>7
<1>10. pc[t] = "data" => Behind(t)' <= Behind(t) + 0
  BY <1>3, <1>5, <1>6, <1>7, <1>8
<1>11. late'[t] = (IF 0 = 1 /\ late[t] < Tries THEN late[t] + 1 ELSE late[t])
       /\ pc'[t] = pc[t] /\ retry'[t] = retry[t]
  OBVIOUS
<1>12. TriesOf(t)'
  BY <1>9, <1>10, <1>11, TriesKept DEF TriesInv
<1>13. ASSUME NEW u \in Threads, u # t PROVE TriesOf(u)'
  BY <1>4, <1>13, Unanswered DEF TriesInv
<1> QED BY <1>12, <1>13 DEF TriesInv

LEMMA BoardTries ==
  ASSUME IInv, SafeInv', Request \/ BoardReceives \/ BoardTimeout
  PROVE  TriesInv'
<1> DEFINE m == Head(toBoard)
           s == board.stored
<1>1. /\ SafeInv /\ TypeOK /\ TypeOK' /\ TriesInv /\ Blocks \in Nat /\ 0 \notin Threads
      /\ block_num \in [Threads -> 0 .. Blocks] /\ s \in 0 .. Blocks /\ 0 \in 0 .. Blocks
  BY Types, BoardTypes DEF IInv, SafeInv
<1>2. CASE Request
  <2>1. UNCHANGED <<pc, block_num, retry, toBoard, ack, late>>
    BY <1>2 DEF Request
  <2>2. ASSUME NEW u \in Threads PROVE TriesOf(u)'
    BY <1>1, <2>1, Unanswered DEF TriesInv
  <2> QED BY <2>2 DEF TriesInv
<1>3. CASE BoardIgnores
  <2>1. UNCHANGED <<pc, block_num, retry, ack, late>> /\ toBoard # <<>> /\ toBoard' = Tail(toBoard)
    BY <1>3 DEF BoardIgnores
  <2>2. ASSUME NEW u \in Threads PROVE TriesOf(u)'
    BY <1>1, <2>1, Unanswered DEF TriesInv
  <2> QED BY <2>2 DEF TriesInv
<1>4. CASE BoardOack
  <2>1. /\ UNCHANGED <<pc, block_num, retry, late>> /\ toBoard # <<>> /\ toBoard' = Tail(toBoard)
        /\ BoardAck(m.from, 0) /\ m.op = "OACK" /\ board.state = "rrq"
    BY <1>4 DEF BoardOack
  <2>2. m \in In(toBoard) /\ board.peer = 0
    BY <1>1, <2>1, Types, TailFacts, BoardTypes
  <2>3. m.from \in Threads /\ pc[m.from] # "data"
    BY <1>1, <2>1, <2>2 DEF SafeInv, QueueInv
  <2> DEFINE n == 0
             t == m.from
  <2>4. n \in 0 .. Blocks /\ BoardAck(t, n) /\ t \in Threads /\ pc[t] # "data"
    BY <1>1, <2>1, <2>3
  <2> HIDE DEF n
  <2> QED BY <1>1, <2>1, <2>4, Answered
<1>5. CASE BoardData
  <2>1. /\ UNCHANGED <<pc, block_num, retry, late>> /\ toBoard # <<>> /\ toBoard' = Tail(toBoard)
        /\ BoardAck(m.from, s + 1) /\ m.op = "DATA" /\ Listens(m.from) /\ NextBlock(m)
    BY <1>5 DEF BoardData, NextBlock
  <2> DEFINE n == s + 1
             t == m.from
  <2>2. t \in Threads /\ n <= block_num[t] /\ (board.peer = 0 \/ board.peer = t)
    BY <1>1, <2>1, HeadData
  <2>3. block_num[t] <= n
    <3>1. board.peer = t => block_num[t] <= n
      BY <1>1, <2>2 DEF SafeInv, ThreadInv, PeerInv
    <3>2. board.peer = 0 => block_num[t] <= 1
      BY <1>1, <2>2 DEF SafeInv, ThreadInv
    <3> QED BY <1>1, <2>2, <3>1, <3>2
  <2>4. n \in 0 .. Blocks /\ n # block_num[t] - 1
    BY <1>1, <2>2, <2>3
  <2> HIDE DEF n
  <2>5. BoardAck(t, n)
    BY <2>1 DEF n
  <2> QED BY <1>1, <2>1, <2>2, <2>4, <2>5, Answered
<1>6. CASE BoardOldData
  <2>1. /\ UNCHANGED <<pc, block_num, retry, late>> /\ toBoard # <<>> /\ toBoard' = Tail(toBoard)
        /\ BoardAck(m.from, m.idx) /\ m.op = "DATA" /\ Listens(m.from)
    BY <1>6 DEF BoardOldData
  <2> DEFINE t == m.from
  <2>2. t \in Threads /\ m.idx = s
    BY <1>1, <1>6, <2>1, HeadData, BoardOldDataSafe
  <2>3. m = DataPacket(t, s)
    <3>1. m \in Packet
      BY <1>1, <2>1, Types, TailFacts
    <3> HIDE DEF m
    <3> QED BY <2>1, <2>2, <3>1 DEF Packet, DataPacket
  <2>4. BoardAck(t, s)
    BY <2>1, <2>2
  <2> HIDE DEF s
  <2> QED BY <1>1, <2>1, <2>2, <2>3, <2>4, Answered
<1>7. CASE BoardTimeout
  <2>1. /\ board.state = "data" /\ BoardAck(board.peer, s) /\ late' = Later(board.peer)
        /\ UNCHANGED <<pc, block_num, retry, toBoard>>
    BY <1>7 DEF BoardTimeout
  <2>2. PICK t \in Threads : t = board.peer
    BY <1>1, <2>1, BoardTypes
  <2> DEFINE p == DataPacket(t, block_num[t] - 1)
             a == AckPacket(block_num[t] - 1)
  <2>3. /\ late'[t] = (IF 1 = 1 /\ late[t] < Tries THEN late[t] + 1 ELSE late[t])
        /\ \A u \in Threads : u # t => late'[u] = late[u]
    BY <1>1, <2>1, <2>2, LaterType
  <2>4. BoardAck(t, s)
    BY <2>1, <2>2
  <2>5. /\ Len(ack'[t]) <= Len(ack[t]) + 1 /\ Len(ack'[t]) \in Nat /\ Len(ack[t]) \in Nat
        /\ \A u \in Threads : u # t => ack'[u] = ack[u]
    <3> HIDE DEF s
    <3> QED BY <1>1, <2>4, AckCounts
  <2>6. /\ Count(ack'[t], {a}) <= Count(ack[t], {a}) + 1
        /\ Count(ack'[t], {a}) \in Nat /\ Count(ack[t], {a}) \in Nat
    <3> HIDE DEF a, s
    <3> QED BY <1>1, <2>4, AckCounts
  <2>7. Count(toBoard, FromThread(t)) \in Nat /\ Count(toBoard, {p}) \in Nat
    BY <1>1, Types, CountBounds
  <2>8. /\ OnTheWay(t)' = Count(toBoard, FromThread(t)) + Len(ack'[t])
        /\ Behind(t)' = Count(toBoard, {p}) + Count(ack'[t], {a})
    BY <2>1, CountsNext
  <2>9. /\ OnTheWay(t) = Count(toBoard, FromThread(t)) + Len(ack[t])
        /\ Behind(t) = Count(toBoard, {p}) + Count(ack[t], {a})
    BY DEF OnTheWay, Behind
  <2> HIDE DEF p, a
  <2>10. OnTheWay(t)' <= OnTheWay(t) + 1 /\ Behind(t)' <= Behind(t) + 1
    BY <2>5, <2>6, <2>7, <2>8, <2>9
  <2>11. pc'[t] = pc[t] /\ retry'[t] = retry[t]
    BY <2>1
  <2>12. TriesOf(t)'
    BY <1>1, <2>3, <2>10, <2>11, TriesKept DEF TriesInv
  <2>13. ASSUME NEW u \in Threads, u # t PROVE TriesOf(u)'
    BY <1>1, <2>1, <2>3, <2>5, <2>13, Unanswered DEF TriesInv
  <2> QED BY <2>12, <2>13 DEF TriesInv
<1> QED BY <1>2, <1>3, <1>4, <1>5, <1>6, <1>7 DEF BoardReceives

-----------------------------------------------------------------------------
LEMMA InitIInv == Init => IInv
<1> SUFFICES ASSUME Init PROVE IInv
  OBVIOUS
<1>1. /\ toBoard = <<>> /\ ack = [t \in Threads |-> <<>>] /\ pc = [t \in Threads |-> "new"]
      /\ block_num = [t \in Threads |-> 0] /\ retry = [t \in Threads |-> 0]
      /\ late = [t \in Threads |-> 0] /\ rrq = 0
      /\ board = [state |-> "off", peer |-> 0, stored |-> 0, misplaced |-> FALSE]
      /\ readable \in BOOLEAN /\ option \in BOOLEAN
  BY DEF Init
<1>2. /\ <<>> \in Seq(Packet) /\ Len(<<>>) = 0 /\ In(<<>>) = {}
      /\ Blocks \in Nat /\ Blocks > 0 /\ Tries \in Nat /\ Tries > 0 /\ Cap \in Nat /\ 0 \notin Threads
  BY FileAssumption, TriesAssumption, ThreadAssumption DEF In, Threads
<1>3. TypeOK
  BY <1>1, <1>2 DEF TypeOK
<1>4. BoardInv
  BY <1>1, <1>2 DEF BoardInv
<1>5. QueueInv /\ AckInv
  BY <1>1, <1>2 DEF QueueInv, AckInv
<1>6. OrderInv
  BY <1>1, <1>2 DEF OrderInv, Rising
<1>7. ThreadInv
  BY <1>1, <1>2 DEF ThreadInv
<1>8. TriesInv
  <2> SUFFICES ASSUME NEW t \in Threads PROVE TriesOf(t)
    BY DEF TriesInv
  <2>1. toBoard \in Seq(Packet) /\ \A x \in In(toBoard) : x \notin FromThread(t)
    BY <1>1, <1>2
  <2>2. Count(toBoard, FromThread(t)) = 0
    BY <2>1, CountNone
  <2>3. OnTheWay(t) = 0
    BY <1>1, <1>2, <2>2 DEF OnTheWay
  <2> QED BY <1>1, <2>3 DEF TriesOf
<1> QED BY <1>3, <1>4, <1>5, <1>6, <1>7, <1>8 DEF IInv, SafeInv

LEMMA StepIInv == IInv /\ [Next]_vars => IInv'
<1> SUFFICES ASSUME IInv, [Next]_vars PROVE IInv'
  OBVIOUS
<1>1. SafeInv
  BY DEF IInv
<1>2. ASSUME NEW t \in Threads, Serve(t) PROVE IInv'
  BY <1>1, <1>2, ServeSafe, ServeTries DEF IInv
<1>3. ASSUME NEW t \in Threads, OackAnswered(t) \/ OackTimeout(t) PROVE IInv'
  BY <1>1, <1>3, OackSafe, OackTries DEF IInv
<1>4. ASSUME NEW t \in Threads, BlockAcked(t) PROVE IInv'
  BY <1>1, <1>4, BlockAckedSafe, BlockAckedTries DEF IInv
<1>5. ASSUME NEW t \in Threads, OtherPacket(t) \/ DataTimeout(t) PROVE IInv'
  BY <1>1, <1>5, AgainSafe, AgainTries DEF IInv
<1>6. CASE Request \/ BoardReceives \/ BoardTimeout
  <2>1. SafeInv'
    BY <1>1, <1>6, RequestSafe, BoardOackSafe, BoardDataSafe, BoardOldDataSafe, BoardIgnoresSafe,
       BoardTimeoutSafe DEF BoardReceives
  <2> QED BY <1>6, <2>1, BoardTries DEF IInv
<1>7. CASE UNCHANGED vars
  BY <1>7 DEF vars, IInv, SafeInv, TypeOK, BoardInv, QueueInv, AckInv, OrderInv, ThreadInv, PeerInv,
     TriesInv, TriesOf, OnTheWay, Behind, DataPacket, AckPacket, FromThread, DataOf
<1> QED BY <1>2, <1>3, <1>4, <1>5, <1>6, <1>7 DEF Next, ServerStep

-----------------------------------------------------------------------------
(* The inductive invariant, for every length of the file, number of tries,  *)
(* width of the block number, and number of threads and packets.            *)
THEOREM Invariance == Spec => []IInv
  BY InitIInv, StepIInv, PTL DEF Spec

(* The variables of the server's threads, the client and the channels keep  *)
(* their types; in particular no counter runs past its bound.               *)
THEOREM TypeCorrect == Spec => []TypeOK
<1>1. IInv => TypeOK
  BY DEF IInv, SafeInv
<1> QED BY <1>1, Invariance, PTL

(* "Transfer complete" in handle_client() is said only after the board has  *)
(* stored the whole file from this very thread.                             *)
THEOREM CompleteMeansDelivered == Spec => []CompleteIsTrue
<1>1. IInv => CompleteIsTrue
  <2> SUFFICES ASSUME IInv, NEW t \in Threads, pc[t] = "complete"
               PROVE  board.peer = t /\ board.stored = Blocks /\ board.state = "done"
    BY DEF CompleteIsTrue
  <2>1. t = board.peer
    BY DEF IInv, SafeInv, ThreadInv
  <2>2. board.stored = Blocks
    BY <2>1 DEF IInv, SafeInv, ThreadInv, PeerInv
  <2> QED BY <2>1, <2>2 DEF IInv, SafeInv, BoardInv
<1> QED BY <1>1, Invariance, PTL

(* Two neighbouring blocks are all that can be confused, so a number of two *)
(* values on the wire is enough: each block is stored where it belongs.     *)
THEOREM BlocksInPlace == Spec => []StoredInPlace
<1>1. IInv => StoredInPlace
  BY DEF IInv, SafeInv, BoardInv, StoredInPlace
<1> QED BY <1>1, Invariance, PTL

(* A thread gives up after no fewer than Tries timeouts of the transfer:    *)
(* the answers that cost a try without a timeout cannot add up.             *)
THEOREM FailureExplained == Spec => []FailureHasCauses
<1>1. IInv => FailureHasCauses
  <2> SUFFICES ASSUME IInv, NEW t \in Threads, pc[t] = "failed" PROVE late[t] = Tries
    BY DEF FailureHasCauses
  <2>1. late[t] \in 0 .. Tries /\ Tries \in Nat
    BY WayTypes DEF IInv, SafeInv
  <2>2. ~(late[t] < Tries)
    BY DEF IInv, TriesInv, TriesOf
  <2> QED BY <2>1, <2>2
<1> QED BY <1>1, Invariance, PTL
=============================================================================
