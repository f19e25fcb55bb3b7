------------------------------ MODULE DmaMemAbs ------------------------------
(***************************************************************************)
(* What callers of dma_alloc_coherent() may rely on: a page is free or     *)
(* belongs to one allocation, an allocation is the lowest aligned run of   *)
(* free pages, and freeing gives back exactly the pages that were handed   *)
(* out under that address.                                                 *)
(***************************************************************************)
EXTENDS Integers

CONSTANTS
  BasePage, Pages,   \* the area
  Counts, Aligns,    \* requested sizes and alignments, in pages
  Unowned            \* marks a free page

Region == BasePage .. BasePage + Pages - 1

VARIABLE owner       \* owner[p]: the first page of the allocation p is in

Run(p, count) == p .. p + count - 1

\* The first pages of the aligned runs of count pages inside free.
FreeRuns(free, count, align) ==
  {p \in free : p % align = 0 /\ Run(p, count) \subseteq free}

Init == owner = [p \in Region |-> Unowned]

Alloc(count, align) ==
  LET now  == owner
      runs == FreeRuns({p \in Region : now[p] = Unowned}, count, align)
  IN  \E p \in runs :
        /\ \A q \in runs : p <= q
        /\ owner' = [q \in Region |-> IF q \in Run(p, count) THEN p ELSE now[q]]

Free(base) ==
  LET now == owner
  IN  /\ \E p \in Region : now[p] = base
      /\ owner' = [q \in Region |-> IF now[q] = base THEN Unowned ELSE now[q]]

Next ==
  \/ \E count \in Counts, align \in Aligns : Alloc(count, align)
  \/ \E base \in Region : Free(base)

Spec == Init /\ [][Next]_owner
=============================================================================
