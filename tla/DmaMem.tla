-------------------------------- MODULE DmaMem --------------------------------
(***************************************************************************)
(* The allocator behind dma_alloc_coherent() on this board (mm/dmamem.c):  *)
(* first fit over a linked list of free blocks, with alignment, and a list *)
(* of allocated blocks. Addresses and sizes are counted in pages.          *)
(*                                                                         *)
(* Descriptors live in a heap; the locals of an allocation in progress are *)
(* dm (a descriptor) and pdm (the link that leads to it). Between the      *)
(* search and the update of the lists the code calls kmalloc(), which may  *)
(* fail. The code takes no lock: callers are assumed not to interrupt each *)
(* other.                                                                  *)
(***************************************************************************)
EXTENDS Integers, FiniteSets

CONSTANTS
  BasePage,   \* first page of the general area: dm_base + dm_sz_fb
  Pages,      \* its size: dm_sz_all - dm_sz_fb
  Counts,     \* requested sizes, in pages
  Aligns      \* requested alignments, in pages

ASSUME RegionAssumption == BasePage \in Nat /\ Pages \in Nat \ {0}
ASSUME RequestAssumption == Counts \subseteq Nat \ {0} /\ Aligns \subseteq Nat \ {0}

VARIABLES
  heap,    \* the descriptors that exist, and the two list heads
  call     \* the dmamem_alloc() in progress: its locals, or Idle

vars == <<heap, call>>

FREE == 0      \* dm_lst_free
USED == -1     \* dm_lst_used
NIL  == -2
Ids  == 1 .. Pages + 2

Idle == [pc |-> "idle"]

-----------------------------------------------------------------------------
(* Lists.                                                                   *)

\* Nth(h, l)[k]: the k-th element of list l, NIL beyond its end.
Nth(h, l) ==
  LET nth[k \in 0 .. Pages + 2] ==
        IF k = 0 THEN h[l].next
        ELSE IF nth[k-1] = NIL THEN NIL ELSE h[nth[k-1]].next
  IN  nth

Elements(h, l) ==
  LET nth == Nth(h, l) IN {nth[k] : k \in 0 .. Pages + 2} \ {NIL}

\* How many elements come before the first one that is in found, or before NIL.
Before(nth, found) ==
  CHOOSE k \in 0 .. Pages + 2 :
    /\ nth[k] \in {NIL} \cup found
    /\ \A j \in 0 .. k - 1 : nth[j] \notin {NIL} \cup found

\* The link (a list head or a descriptor) that leads to that element or NIL.
LinkTo(h, l, found) ==
  LET k == Before(Nth(h, l), found) IN IF k = 0 THEN l ELSE Nth(h, l)[k-1]

\* kmalloc() gives a descriptor that is not in use.
NewId(h) == CHOOSE i \in Ids \ DOMAIN h : \A j \in Ids \ DOMAIN h : i <= j
Dsc(b, s, n) == [base |-> b, size |-> s, next |-> n]
With(h, i, d) == [j \in DOMAIN h \cup {i} |-> IF j = i THEN d ELSE h[j]]
kfree(h, d) == [i \in DOMAIN h \ {d} |-> h[i]]

-----------------------------------------------------------------------------
Init ==
  /\ heap = [i \in {FREE, USED, 1} |-> CASE i = FREE -> Dsc(0, 0, 1)
                                          [] i = USED -> Dsc(0, 0, NIL)
                                          [] i = 1    -> Dsc(BasePage, Pages, NIL)]
  /\ call = Idle

\* The first aligned page of a block.
AlignUp(base, align) == ((base + align - 1) \div align) * align

\* Mutant: a perfect fit is refused.
FitsStrictly(d, count, align) ==
  AlignUp(d.base, align) + count < d.base + d.size

FitsIn(d, count, align) ==
  AlignUp(d.base, align) + count <= d.base + d.size

SearchLink(h, count, align) ==
  LinkTo(h, FREE, {d \in DOMAIN h : FitsIn(h[d], count, align)})

\* dmamem_alloc() up to its first kmalloc(): search a free block that is large
\* enough, even with alignment.
AllocSearch(count, align) ==
  LET pdm == SearchLink(heap, count, align)
      dm  == heap[pdm].next
  IN  /\ call.pc = "idle"
      /\ dm # NIL
      /\ LET abase == AlignUp(heap[dm].base, align)
         IN  call' = [pc |-> "found", pdm |-> pdm, dm |-> dm, abase |-> abase, count |-> count,
                      ndm |-> abase - heap[dm].base + count < heap[dm].size]
      /\ UNCHANGED heap

\* No block is large enough: NULL.
AllocNoSpace(count, align) ==
  /\ call.pc = "idle"
  /\ heap[SearchLink(heap, count, align)].next = NIL
  /\ UNCHANGED vars

\* A kmalloc() failed: what was allocated is given back, NULL.
AllocNoMemory ==
  /\ call.pc = "found"
  /\ call.ndm \/ call.abase # heap[call.dm].base
  /\ call' = Idle
  /\ UNCHANGED heap

\* Mutant: the block keeps the size of the pages cut off in front.
CutFrontKeepsSize(h, pdm, dm, abase) ==
  LET adm == NewId(h)
  IN  With([h EXCEPT ![dm].base = abase, ![pdm].next = adm],
           adm, Dsc(h[dm].base, abase - h[dm].base, dm))

\* The pages below an aligned base go back to the free list as a block of
\* their own (adm).
CutFront(h, pdm, dm, abase) ==
  LET adm == NewId(h)
  IN  With([h EXCEPT ![dm].base = abase, ![dm].size = @ - (abase - h[dm].base), ![pdm].next = adm],
           adm, Dsc(h[dm].base, abase - h[dm].base, dm))

\* The rest of dmamem_alloc(): front and tail are cut off, the block moves to
\* the used list. When no tail is left the descriptor itself moves.
Carve(h, c) ==
  LET cut == c.abase # h[c.dm].base
      h1  == IF cut THEN CutFront(h, c.pdm, c.dm, c.abase) ELSE h
      pdm == IF cut THEN NewId(h) ELSE c.pdm
      ndm == NewId(h1)
      h2  == IF c.ndm
             THEN With([h1 EXCEPT ![c.dm].base = @ + c.count, ![c.dm].size = @ - c.count,
                                  ![USED].next = ndm],
                       ndm, Dsc(h1[c.dm].base, c.count, h1[USED].next))
             ELSE LET out == [h1 EXCEPT ![pdm].next = h1[c.dm].next]
                  IN  [out EXCEPT ![c.dm].next = out[USED].next, ![USED].next = c.dm]
  IN  h2

AllocFinish ==
  /\ call.pc = "found"
  /\ heap' = Carve(heap, call)
  /\ call' = Idle

\* Block d takes over the pages of block e, its successor in the free list.
Join(h, d, e) ==
  kfree([h EXCEPT ![d].size = @ + h[e].size, ![d].next = h[e].next], e)

\* The freed block dm is joined with the next block if they touch, and then the
\* block before, if there is one, with dm.
JoinUpper(h, dm) ==
  LET next == h[dm].next
  IN  IF next # NIL /\ h[dm].base + h[dm].size = h[next].base THEN Join(h, dm, next) ELSE h

\* Mutant: no merge with the lower neighbour.
JoinLowerNever(h, prev, dm) == h

JoinLower(h, prev, dm) ==
  IF prev # FREE /\ h[prev].base + h[prev].size = h[dm].base THEN Join(h, prev, dm) ELSE h

\* dmamem_free() after its search: from the used list into the sorted free list,
\* and merge with the upper and then with the lower neighbour.
Release(h, dm) ==
  LET used == LinkTo(h, USED, {d \in DOMAIN h : h[d].base = h[dm].base})
      h1   == [h EXCEPT ![used].next = h[dm].next]
      pdm  == LinkTo(h1, FREE, {d \in DOMAIN h : h1[d].base >= h[dm].base})
      h2   == [h1 EXCEPT ![dm].next = h1[pdm].next, ![pdm].next = dm]
  IN  JoinLower(JoinUpper(h2, dm), pdm, dm)

Free(base) ==
  LET dm == heap[LinkTo(heap, USED, {d \in DOMAIN heap : heap[d].base = base})].next
  IN  /\ call.pc = "idle"
      /\ dm # NIL
      /\ heap' = Release(heap, dm)
      /\ UNCHANGED call

\* "not allocated!"
FreeUnknown(base) ==
  /\ call.pc = "idle"
  /\ heap[LinkTo(heap, USED, {d \in DOMAIN heap : heap[d].base = base})].next = NIL
  /\ UNCHANGED vars

Region == BasePage .. BasePage + Pages - 1

Next ==
  \/ \E count \in Counts, align \in Aligns :
        AllocSearch(count, align) \/ AllocNoSpace(count, align)
  \/ AllocNoMemory
  \/ AllocFinish
  \/ \E base \in Region : Free(base) \/ FreeUnknown(base)

Spec == Init /\ [][Next]_vars

-----------------------------------------------------------------------------
Block(h, d) == h[d].base .. h[d].base + h[d].size - 1
FreePages == UNION {Block(heap, d) : d \in Elements(heap, FREE)}

TypeOK ==
  /\ {FREE, USED} \subseteq DOMAIN heap /\ DOMAIN heap \subseteq Ids \cup {FREE, USED}
  /\ \A d \in DOMAIN heap : heap[d] \in [base : Nat, size : Nat, next : Ids \cup {NIL}]
  /\ call.pc \in {"idle", "found"}

\* Every page of the area is in exactly one block of exactly one list: no two
\* allocations overlap, and no page is lost by the cutting and merging in
\* dmamem_alloc() and dmamem_free().
Partition ==
  LET f == Elements(heap, FREE)
      u == Elements(heap, USED)
  IN  /\ f \cap u = {} /\ DOMAIN heap = f \cup u \cup {FREE, USED}
      /\ \A d, e \in f \cup u : d # e => Block(heap, d) \cap Block(heap, e) = {}
      /\ UNION {Block(heap, d) : d \in f \cup u} = Region

\* The free list is sorted by address and two neighbours never touch: what
\* dmamem_free()'s search and its two merges have to keep up.
FreeListCoalesced ==
  LET nth == Nth(heap, FREE)
  IN  \A k \in 0 .. Pages + 1 :
        nth[k+1] # NIL => heap[nth[k]].base + heap[nth[k]].size < heap[nth[k+1]].base

\* dmamem_alloc() finds a block whenever the free pages hold one: an aligned
\* run of count pages, wherever the blocks that were freed came from.
FirstFitComplete ==
  \A count \in Counts, align \in Aligns :
    heap[SearchLink(heap, count, align)].next # NIL
      <=> \E p \in Region : p % align = 0 /\ p .. p + count - 1 \subseteq FreePages

\* Refinement: the lists behave like the page map of DmaMemAbs. A page's owner
\* is the base of the used block it lies in.
PageOwner ==
  LET used == Elements(heap, USED)
      Of(p) == {d \in used : p \in Block(heap, d)}
  IN  [p \in Region |-> IF Of(p) = {} THEN NIL ELSE heap[CHOOSE d \in Of(p) : TRUE].base]

Abs == INSTANCE DmaMemAbs WITH owner <- PageOwner, Unowned <- NIL

\* dmamem_alloc() and dmamem_free() implement the abstract allocator: the block
\* returned is the lowest aligned free run, nobody else's block changes, and a
\* free gives back the whole block and nothing more.
ImplementsAbs == Abs!Spec
=============================================================================
