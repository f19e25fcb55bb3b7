---------------------------- MODULE EthSramProofs ----------------------------
(***************************************************************************)
(* The SRAM that open() and close() leave behind, for every ring and frame *)
(* size.                                                                   *)
(***************************************************************************)
EXTENDS EthSram, TLAPS

\* Sizes are integers.
LEMMA SizesAreIntegers ==
  /\ ProbedPointer \in Nat
  /\ AllocSize \in Int
  /\ total_alloc_size \in Int
  /\ Leak \in Int
<1>1. \A n \in Nat : ALIGN4(n) \in Nat
  BY DEF ALIGN4
<1>2. \A n \in Nat : sram_alloc(n) \in Nat
  BY <1>1 DEF sram_alloc
<1>3. SkbSize \in Nat
  BY SramAssumption DEF SkbSize, FAKE_SKB
<1>4. /\ BD_SIZE * RX_BUF_NUM \in Nat
      /\ BD_SIZE * TX_BUF_NUM \in Nat
      /\ RX_BUF_NUM + TX_BUF_NUM \in Nat
      /\ BD_SIZE + SkbSize \in Nat
  BY <1>3, SramAssumption DEF BD_SIZE
<1>5. AllocSize \in Int
  BY <1>2, <1>3, <1>4 DEF AllocSize
<1>6. total_alloc_size \in Int
  BY <1>4 DEF total_alloc_size
<1>7. ProbedPointer \in Nat
  <2>1. POINTER * RX_BUF_NUM \in Nat /\ POINTER * TX_BUF_NUM \in Nat
    BY SramAssumption DEF POINTER
  <2>2. SkbArrays \in Nat
    BY <1>2, <2>1 DEF SkbArrays
  <2>. QED  BY <1>1, <2>2, SramAssumption DEF ProbedPointer
<1>. QED  BY <1>5, <1>6, <1>7 DEF Leak

\* What stays behind is one word for each of the two rings and for each buffer
\* (the "+ 4" of stm32_sram_alloc(), which buffers_free() does not count), when
\* frame_max_size is a multiple of four.
THEOREM LeakIsTheGuardWords ==
  FRAME_MAX_SIZE % 4 = 0 => Leak = 4 * (RX_BUF_NUM + TX_BUF_NUM + 2)
<1>. SUFFICES ASSUME FRAME_MAX_SIZE % 4 = 0
              PROVE  Leak = 4 * (RX_BUF_NUM + TX_BUF_NUM + 2)
  OBVIOUS
<1>1. \A n \in Nat : n % 4 = 0 => ALIGN4(n) = n
  BY DEF ALIGN4
<1>2. SkbSize \in Nat /\ SkbSize % 4 = 0
  BY SramAssumption DEF SkbSize, FAKE_SKB
<1>3. sram_alloc(SkbSize) = SkbSize + 4
  BY <1>1, <1>2 DEF sram_alloc
<1>4. sram_alloc(BD_SIZE * RX_BUF_NUM) = BD_SIZE * RX_BUF_NUM + 4
  BY <1>1, SramAssumption DEF sram_alloc, BD_SIZE
<1>5. sram_alloc(BD_SIZE * TX_BUF_NUM) = BD_SIZE * TX_BUF_NUM + 4
  BY <1>1, SramAssumption DEF sram_alloc, BD_SIZE
<1>6. PICK n \in Nat : n = RX_BUF_NUM + TX_BUF_NUM
  BY SramAssumption
<1>7. AllocSize = 16 * n + 8 + n * (SkbSize + 4)
  BY <1>3, <1>4, <1>5, <1>6, SramAssumption DEF AllocSize, BD_SIZE
<1>8. total_alloc_size = (16 + SkbSize) * n
  BY <1>6 DEF total_alloc_size, BD_SIZE
<1>. HIDE DEF SkbSize
<1>9. /\ n * (SkbSize + 4) = n * SkbSize + 4 * n
      /\ (16 + SkbSize) * n = 16 * n + n * SkbSize
      /\ n * SkbSize \in Int
  BY <1>2
<1>. QED  BY <1>6, <1>7, <1>8, <1>9 DEF Leak

\* The inductive invariant: LeakPerOpen and the types.
SramInv ==
  /\ opens \in Nat
  /\ sram_pointer \in Int
  /\ LeakPerOpen

\* The BUG_ON() fires in the open() that passes the end of SRAM, and nothing
\* happens after it.
BugInv ==
  /\ bug => held
  /\ held => (bug <=> sram_pointer >= SRAM_PHYS_SIZE)

LEMMA SramInvariance == Spec => [](SramInv /\ BugInv)
<1>. USE SizesAreIntegers
<1>1. Init => SramInv
  <2>. SUFFICES ASSUME Init PROVE SramInv
    OBVIOUS
  <2>1. opens * Leak = 0
    BY DEF Init
  <2>. QED  BY <2>1 DEF Init, SramInv, LeakPerOpen
<1>2. SramInv /\ [Next]_vars => SramInv'
  <2>. SUFFICES ASSUME SramInv, [Next]_vars PROVE SramInv'
    OBVIOUS
  <2>. opens \in Nat /\ sram_pointer \in Int
    BY DEF SramInv
  <2>0. opens * Leak \in Int
    OBVIOUS
  <2>1. CASE buffers_alloc
    <3>1. (opens + 1) * Leak = opens * Leak + Leak
      OBVIOUS
    <3>2. sram_pointer = ProbedPointer + opens * Leak
      BY <2>0, <2>1 DEF buffers_alloc, SramInv, LeakPerOpen
    <3>3. sram_pointer' = ProbedPointer + (opens + 1) * Leak + total_alloc_size
      BY <2>0, <2>1, <3>1, <3>2 DEF buffers_alloc, Leak
    <3>. QED  BY <2>1, <3>3 DEF buffers_alloc, SramInv, LeakPerOpen
  <2>2. CASE buffers_free
    BY <2>0, <2>2 DEF buffers_free, SramInv, LeakPerOpen
  <2>3. CASE UNCHANGED vars
    BY <2>3 DEF vars, SramInv, LeakPerOpen
  <2>. QED  BY <2>1, <2>2, <2>3 DEF Next
<1>3. Init => BugInv
  BY DEF Init, BugInv
<1>4. BugInv /\ [Next]_vars => BugInv'
  <2>. SUFFICES ASSUME BugInv, [Next]_vars PROVE BugInv'
    OBVIOUS
  <2>1. CASE buffers_alloc
    <3>1. held' /\ bug' = (sram_pointer' >= SRAM_PHYS_SIZE)
      BY <2>1 DEF buffers_alloc
    <3>. QED  BY <3>1, Zenon DEF BugInv
  <2>2. CASE buffers_free
    BY <2>2 DEF buffers_free, BugInv
  <2>3. CASE UNCHANGED vars
    BY <2>3 DEF vars, BugInv
  <2>. QED  BY <2>1, <2>2, <2>3 DEF Next
<1>. QED  BY <1>1, <1>2, <1>3, <1>4, PTL DEF Spec

\* Every open() raises the pointer by AllocSize and the matching free lowers it
\* by total_alloc_size: open() and close() leave exactly Leak bytes behind each
\* time, for every size of the rings and frames.
THEOREM EveryOpenLeaks == Spec => []LeakPerOpen
<1>1. SramInv => LeakPerOpen
  BY DEF SramInv
<1>. QED  BY <1>1, SramInvariance, PTL

\* Where the rings and buffers of the n-th open() end.
EndAfter(n) == ProbedPointer + n * Leak + total_alloc_size

\* Later ones end higher.
LEMMA EndGrows ==
  ASSUME NEW m \in Nat, NEW n \in Nat, m <= n, Leak >= 0
  PROVE  EndAfter(m) \in Int /\ EndAfter(n) \in Int /\ EndAfter(m) <= EndAfter(n)
<1>1. PICK d \in Nat : n = m + d
  <2>1. n - m \in Nat /\ n = m + (n - m)
    OBVIOUS
  <2>. QED  BY <2>1
<1>2. m * Leak \in Int /\ d * Leak \in Int /\ 0 <= d * Leak
  BY SizesAreIntegers
<1>3. n * Leak = m * Leak + d * Leak
  BY <1>1, SizesAreIntegers
<1>. QED  BY <1>2, <1>3, SizesAreIntegers DEF EndAfter

\* DtcmOpens and SramOpens are the last calls of open() whose rings end inside
\* the DTCM and inside SRAM.
LastOpens ==
  /\ EndAfter(DtcmOpens) <= DTCM_SIZE /\ DTCM_SIZE < EndAfter(DtcmOpens + 1)
  /\ EndAfter(SramOpens) < SRAM_PHYS_SIZE /\ SRAM_PHYS_SIZE <= EndAfter(SramOpens + 1)

\* On every board with frame buffers of a multiple of four bytes the rings stay
\* in the DTCM, and stm32_sram_alloc() works, for exactly as many calls of open()
\* as the guard words of those calls leave room for, whatever close() and failing
\* calls come between them: nothing is ever won back.
THEOREM SramIsUsedUp ==
  ASSUME FRAME_MAX_SIZE % 4 = 0, LastOpens
  PROVE  Spec => []SramLasts
<1>1. Leak >= 0
  <2>1. Leak = 4 * (RX_BUF_NUM + TX_BUF_NUM + 2)
    BY LeakIsTheGuardWords
  <2>. QED  BY <2>1, SramAssumption
<1>2. SramInv /\ BugInv => SramLasts
  <2>. SUFFICES ASSUME SramInv, BugInv, held
                PROVE  /\ sram_pointer <= DTCM_SIZE <=> opens <= DtcmOpens
                       /\ bug <=> opens > SramOpens
    BY DEF SramLasts
  <2>1. opens \in Nat /\ sram_pointer = EndAfter(opens)
    BY DEF SramInv, LeakPerOpen, EndAfter
  <2>2. /\ DtcmOpens \in Nat /\ DtcmOpens + 1 \in Nat /\ DTCM_SIZE \in Nat
        /\ SramOpens \in Nat /\ SramOpens + 1 \in Nat /\ SRAM_PHYS_SIZE \in Nat
    BY SramAssumption
  <2>3. /\ opens <= DtcmOpens \/ DtcmOpens + 1 <= opens
        /\ opens <= SramOpens \/ SramOpens + 1 <= opens
    BY <2>1, <2>2
  <2>4. opens <= DtcmOpens => EndAfter(opens) <= DTCM_SIZE
    BY <1>1, <2>1, <2>2, EndGrows DEF LastOpens
  <2>5. DtcmOpens + 1 <= opens => DTCM_SIZE < EndAfter(opens)
    BY <1>1, <2>1, <2>2, EndGrows DEF LastOpens
  <2>6. opens <= SramOpens => EndAfter(opens) < SRAM_PHYS_SIZE
    BY <1>1, <2>1, <2>2, EndGrows DEF LastOpens
  <2>7. SramOpens + 1 <= opens => SRAM_PHYS_SIZE <= EndAfter(opens)
    BY <1>1, <2>1, <2>2, EndGrows DEF LastOpens
  <2>8. EndAfter(opens) \in Int
    BY <1>1, <2>1, EndGrows
  <2>9. sram_pointer <= DTCM_SIZE <=> opens <= DtcmOpens
    BY <2>1, <2>2, <2>3, <2>4, <2>5, <2>8
  <2>10. bug <=> opens > SramOpens
    <3>1. bug <=> EndAfter(opens) >= SRAM_PHYS_SIZE
      BY <2>1 DEF BugInv
    <3>2. EndAfter(opens) >= SRAM_PHYS_SIZE <=> opens > SramOpens
      BY <2>1, <2>2, <2>3, <2>6, <2>7, <2>8
    <3>. QED  BY <3>1, <3>2
  <2>. QED  BY <2>9, <2>10
<1>. QED  BY <1>2, SramInvariance, PTL
=============================================================================
