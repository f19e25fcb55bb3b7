---------------------------- MODULE DmaMemProofs ----------------------------
(***************************************************************************)
(* Proofs about the allocator in DmaMem: for every area, and every set of  *)
(* sizes and alignments that callers ask for.                              *)
(***************************************************************************)
EXTENDS DmaMem, FiniteSetTheorems, WellFoundedInduction, TLAPS

Heads == {FREE, USED}
Node  == [base : Nat, size : Nat, next : Ids \cup {NIL}]

HeapType(h) ==
  /\ Heads \subseteq DOMAIN h /\ DOMAIN h \subseteq Ids \cup Heads
  /\ h \in [DOMAIN h -> Node]

Blocks(h) == DOMAIN h \ Heads
End(h, d) == h[d].base + h[d].size

(* The blocks, in whatever list they are, cover the area without overlap.   *)
Apart(h, d, e) == End(h, d) <= h[e].base \/ End(h, e) <= h[d].base

Tiling(h) ==
  /\ \A d \in Blocks(h) :
       h[d].size > 0 /\ BasePage <= h[d].base /\ End(h, d) <= BasePage + Pages
  /\ \A d, e \in Blocks(h) : d # e => Apart(h, d, e)
  /\ \A p \in Region : \E d \in Blocks(h) : h[d].base <= p /\ p < End(h, d)

(* List l is p[0] = l, p[1], ..., p[n], p[n + 1] = NIL.                     *)
Path(h, l, n, p) ==
  /\ n \in Nat /\ p \in [0 .. n + 1 -> Ids \cup Heads \cup {NIL}]
  /\ p[0] = l /\ p[n + 1] = NIL
  /\ \A i \in 1 .. n : p[i] \in Ids \cap DOMAIN h
  /\ \A i, j \in 1 .. n : p[i] = p[j] => i = j
  /\ \A i \in 0 .. n : h[p[i]].next = p[i + 1]

Members(n, p) == {p[i] : i \in 1 .. n}

Below(h, d, e)   == End(h, d) < h[e].base
Touches(h, d, e) == End(h, d) = h[e].base

(* The free list is sorted, with a gap between any two blocks.              *)
Sorted(h, n, f) == \A i, j \in 1 .. n : i < j => Below(h, f[i], f[j])

-----------------------------------------------------------------------------
(* A set of numbers has a least one.                                        *)

LEMMA LeastNumber ==
  ASSUME NEW T \in SUBSET Nat, T # {}
  PROVE  \E x \in T : \A y \in T : x <= y
<1> DEFINE R == OpToRel(<, Nat)
<1>1. IsWellFoundedOn(R, Nat)
  BY NatLessThanWellFounded, Zenon
<1>2. \A x, y \in Nat : x < y => <<x, y>> \in R
  BY SMT DEF OpToRel
<1> HIDE DEF R
<1>3. PICK x \in T : \A y \in T : ~(<<y, x>> \in R)
  BY <1>1, WFMin, Zenon
<1>4. \A y \in T : ~(y < x)
  BY <1>2, <1>3, Zenon
<1> QED BY <1>4, SMT

(* The heads, NIL and the descriptors are different things.                 *)
LEMMA Constants ==
  /\ BasePage \in Nat /\ Pages \in Nat /\ Pages > 0 /\ NIL \notin Ids /\ NIL \notin Heads
  /\ FREE \notin Ids /\ USED \notin Ids /\ FREE # USED /\ Heads \cap Ids = {}
  /\ NIL \notin Nat /\ Ids \subseteq Nat
  BY RegionAssumption DEF Ids, FREE, USED, NIL, Heads

(* A step of the walk.                                                      *)
Steps == 0 .. Pages + 2
Walk(h, l, w) ==
  w = [k \in Steps |-> IF k = 0 THEN h[l].next
                       ELSE IF w[k-1] = NIL THEN NIL ELSE h[w[k-1]].next]

(* What Nth computes on a list that is short enough.                        *)
LEMMA NthIs ==
  ASSUME NEW h, NEW l, NEW n, NEW p, Path(h, l, n, p), n <= Pages + 2
  PROVE  Nth(h, l) = [k \in Steps |-> IF k <= n THEN p[k + 1] ELSE NIL]
<1> DEFINE v == [k \in Steps |-> IF k <= n THEN p[k + 1] ELSE NIL]
<1>1. /\ n \in Nat /\ p[0] = l /\ p[n + 1] = NIL /\ \A i \in 0 .. n : h[p[i]].next = p[i + 1]
      /\ \A i \in 1 .. n : p[i] # NIL
  BY Constants DEF Path
<1>2. Walk(h, l, v)
  <2> SUFFICES ASSUME NEW k \in Steps
               PROVE  v[k] = IF k = 0 THEN h[l].next
                             ELSE IF v[k-1] = NIL THEN NIL ELSE h[v[k-1]].next
    BY DEF Walk
  <2>1. CASE k = 0
    BY <1>1, <2>1, Constants DEF Steps
  <2>2. CASE k # 0
    <3>1. k - 1 \in Steps /\ k \in Nat
      BY <2>2, Constants DEF Steps
    <3>2. CASE k <= n
      <4>1. v[k - 1] = p[k] /\ p[k] # NIL /\ v[k] = p[k + 1] /\ h[p[k]].next = p[k + 1]
        BY <1>1, <2>2, <3>1, <3>2
      <4> QED BY <2>2, <4>1
    <3>3. CASE ~(k <= n)
      <4>1. v[k] = NIL /\ v[k - 1] = NIL
        BY <1>1, <2>2, <3>1, <3>3
      <4> QED BY <2>2, <4>1
    <3> QED BY <3>2, <3>3
  <2> QED BY <2>1, <2>2
<1>3. \A w : Walk(h, l, w) => w = v
  <2> SUFFICES ASSUME NEW w, Walk(h, l, w), w # v PROVE FALSE
    OBVIOUS
  <2> DEFINE T == {k \in Steps : w[k] # v[k]}
  <2>1. T # {}
    BY Zenon DEF Walk
  <2>2. T \in SUBSET Nat
    BY Constants DEF Steps
  <2> HIDE DEF T
  <2>3. PICK k \in T : \A j \in T : k <= j
    BY <2>1, <2>2, LeastNumber
  <2>4. k \in Steps /\ w[k] # v[k] /\ k \in Nat
    BY <2>2, <2>3 DEF T
  <2>5. k # 0 => k - 1 \in Steps /\ w[k - 1] = v[k - 1]
    BY <2>3, <2>4, Constants DEF T, Steps
  <2>6. w[k] = IF k = 0 THEN h[l].next ELSE IF w[k-1] = NIL THEN NIL ELSE h[w[k-1]].next
    BY <2>4, Zenon DEF Walk
  <2>7. v[k] = IF k = 0 THEN h[l].next ELSE IF v[k-1] = NIL THEN NIL ELSE h[v[k-1]].next
    <3> HIDE DEF v
    <3> QED BY <1>2, <2>4, Zenon DEF Walk
  <2> QED BY <2>4, <2>5, <2>6, <2>7
<1> HIDE DEF v
<1>4. (CHOOSE w : Walk(h, l, w)) = v
  BY <1>2, <1>3
<1>5. Nth(h, l) = CHOOSE w : Walk(h, l, w)
  BY DEF Nth, Walk, Steps
<1> QED BY <1>4, <1>5 DEF v

(* Elements collects the descriptors on the path.                           *)
LEMMA ElementsAre ==
  ASSUME NEW h, NEW l, NEW n, NEW p, Path(h, l, n, p), n <= Pages + 2
  PROVE  Elements(h, l) = Members(n, p)
<1> DEFINE v == [k \in Steps |-> IF k <= n THEN p[k + 1] ELSE NIL]
<1>1. Elements(h, l) = {v[k] : k \in Steps} \ {NIL}
  <2>1. Nth(h, l) = v
    BY NthIs
  <2> HIDE DEF v
  <2> QED BY <2>1 DEF Elements, Steps
<1>2. n \in Nat /\ p[n + 1] = NIL /\ \A i \in 1 .. n : p[i] # NIL
  BY Constants DEF Path
<1>3. \A k \in Steps : v[k] # NIL => v[k] \in Members(n, p)
  BY <1>2, Constants DEF Steps, Members
<1>4. \A i \in 1 .. n : \E k \in Steps : v[k] = p[i]
  <2> SUFFICES ASSUME NEW i \in 1 .. n PROVE i - 1 \in Steps /\ v[i - 1] = p[i]
    BY Zenon
  <2> QED BY <1>2, Constants DEF Steps
<1> HIDE DEF v
<1> QED BY <1>1, <1>2, <1>3, <1>4 DEF Members

(* Where a search stops: at the first element it looks for, or at the end.  *)
Stops(n, p, found, k) ==
  /\ k \in 0 .. n
  /\ k < n => p[k + 1] \in found
  /\ \A i \in 1 .. k : p[i] \notin found

(* LinkTo gives the link before the place where the search stops.           *)
LEMMA LinkIs ==
  ASSUME NEW h, NEW l, NEW n, NEW p, Path(h, l, n, p), n <= Pages + 2, NEW found
  PROVE  \E k \in 0 .. n : Stops(n, p, found, k) /\ LinkTo(h, l, found) = p[k]
<1> DEFINE nth   == Nth(h, l)
           At(k) == /\ nth[k] \in {NIL} \cup found
                    /\ \A j \in 0 .. k - 1 : nth[j] \notin {NIL} \cup found
           T     == {k \in Steps : nth[k] \in {NIL} \cup found}
<1>1. n \in Nat /\ p[0] = l /\ p[n + 1] = NIL /\ \A i \in 1 .. n : p[i] # NIL
  BY Constants DEF Path
<1>2. nth = [k \in Steps |-> IF k <= n THEN p[k + 1] ELSE NIL]
  BY NthIs
<1> HIDE DEF nth
<1>3. n \in Steps /\ nth[n] = NIL /\ Steps \subseteq Nat /\ \A k \in 0 .. n : k \in Steps /\ nth[k] = p[k + 1]
  BY <1>1, <1>2, Constants DEF Steps
<1>4. PICK m \in Steps : At(m)
  <2>1. n \in T /\ T \in SUBSET Nat
    BY <1>3, Zenon
  <2> HIDE DEF T
  <2>2. PICK m \in T : \A j \in T : m <= j
    BY <2>1, LeastNumber
  <2>3. m \in Steps /\ nth[m] \in {NIL} \cup found
    BY <2>2 DEF T
  <2>4. ASSUME NEW j \in 0 .. m - 1 PROVE nth[j] \notin {NIL} \cup found
    <3>1. j \in Steps /\ ~(m <= j)
      BY <2>3, Constants DEF Steps
    <3> QED BY <2>2, <3>1 DEF T
  <2> QED BY <2>3, <2>4
<1>5. \A k \in Steps : At(k) => k = m
  <2> SUFFICES ASSUME NEW k \in Steps, At(k), k # m PROVE FALSE
    OBVIOUS
  <2>1. k \in 0 .. m - 1 \/ m \in 0 .. k - 1
    BY <1>3
  <2> QED BY <1>4, <2>1
<1>6. LinkTo(h, l, found) = IF m = 0 THEN l ELSE nth[m - 1]
  <2>1. Before(nth, found) = m
    BY <1>4, <1>5 DEF Before, Steps
  <2> QED BY <2>1 DEF LinkTo, nth
<1>7. m \in 0 .. n
  <2>1. n \in 0 .. m - 1 => FALSE
    BY <1>3, <1>4
  <2> QED BY <1>1, <1>3, <1>4, <2>1
<1>8. LinkTo(h, l, found) = p[m]
  <2>1. CASE m = 0
    BY <1>1, <1>6, <2>1
  <2>2. CASE m # 0
    <3>1. m - 1 \in 0 .. n /\ (m - 1) + 1 = m
      BY <1>1, <1>7, <2>2
    <3>2. nth[m - 1] = p[(m - 1) + 1]
      BY <1>3, <3>1
    <3> QED BY <1>6, <2>2, <3>1, <3>2
  <2> QED BY <2>1, <2>2
<1>9. m < n => p[m + 1] \in found
  <2> SUFFICES ASSUME m < n PROVE p[m + 1] \in found
    OBVIOUS
  <2>1. m + 1 \in 1 .. n /\ nth[m] = p[m + 1]
    BY <1>1, <1>3, <1>7
  <2> QED BY <1>1, <1>4, <2>1
<1>10. ASSUME NEW i \in 1 .. m PROVE p[i] \notin found
  <2>1. i - 1 \in 0 .. m - 1 /\ i - 1 \in 0 .. n /\ (i - 1) + 1 = i
    BY <1>1, <1>7
  <2>2. nth[i - 1] = p[(i - 1) + 1]
    BY <1>3, <2>1
  <2> QED BY <1>4, <2>1, <2>2
<1> QED BY <1>7, <1>8, <1>9, <1>10 DEF Stops

(* There are no more blocks than pages.                                     *)
LEMMA FewBlocks ==
  ASSUME NEW h, HeapType(h), Tiling(h)
  PROVE  IsFiniteSet(Blocks(h)) /\ Cardinality(Blocks(h)) \in Nat /\ Cardinality(Blocks(h)) <= Pages
<1> DEFINE b == [d \in Blocks(h) |-> h[d].base]
<1>1. \A d \in Blocks(h) : h[d].base \in Nat /\ h[d].size \in Nat
  BY DEF HeapType, Blocks, Node
<1>2. b \in [Blocks(h) -> Region]
  BY <1>1, Constants DEF Tiling, Region, End
<1>3. \A d, e \in Blocks(h) : b[d] = b[e] => d = e
  BY <1>1 DEF Tiling, Apart, End
<1>4. b \in Injection(Blocks(h), Region)
  BY <1>2, <1>3 DEF Injection, IsInjective
<1>5. IsFiniteSet(Region) /\ Cardinality(Region) = Pages
  <2>1. BasePage \in Int /\ BasePage + Pages - 1 \in Int /\ ~(BasePage > BasePage + Pages - 1)
        /\ (BasePage + Pages - 1) - BasePage + 1 = Pages
    BY Constants
  <2> QED BY <2>1, FS_Interval DEF Region
<1> HIDE DEF b
<1>6. IsFiniteSet(Blocks(h)) /\ Cardinality(Blocks(h)) <= Cardinality(Region)
  BY <1>4, <1>5, FS_Injection
<1>7. Cardinality(Blocks(h)) \in Nat
  BY <1>6, FS_CardinalityType
<1> QED BY <1>5, <1>6, <1>7

(* So no list is too long for the walk.                                     *)
LEMMA ShortList ==
  ASSUME NEW h, HeapType(h), Tiling(h), NEW l, NEW n, NEW p, Path(h, l, n, p)
  PROVE  n \in Nat /\ n <= Pages
<1> DEFINE q == [i \in 1 .. n |-> p[i]]
<1>1. n \in Nat /\ \A i \in 1 .. n : p[i] \in Blocks(h)
  BY Constants DEF Path, Blocks
<1>2. q \in Injection(1 .. n, Blocks(h))
  BY <1>1 DEF Path, Injection, IsInjective
<1>3. IsFiniteSet(Blocks(h)) /\ Cardinality(Blocks(h)) \in Nat /\ Cardinality(Blocks(h)) <= Pages
  BY FewBlocks
<1> HIDE DEF q
<1>4. Cardinality(1 .. n) <= Cardinality(Blocks(h))
  BY <1>2, <1>3, FS_Injection
<1>5. Cardinality(1 .. n) = n
  <2>1. 1 \in Int /\ n \in Int
    BY <1>1
  <2>2. Cardinality(1 .. n) = IF 1 > n THEN 0 ELSE n - 1 + 1
    BY <2>1, FS_Interval
  <2> QED BY <1>1, <2>2
<1> QED BY <1>1, <1>3, <1>4, <1>5, Constants

(* kmalloc() finds a descriptor.                                            *)
LEMMA NewIdIs ==
  ASSUME NEW h, HeapType(h), Tiling(h)
  PROVE  NewId(h) \in Ids /\ NewId(h) \notin DOMAIN h
<1>1. Blocks(h) \subseteq Ids
  BY DEF HeapType, Blocks
<1>2. Ids \ DOMAIN h # {}
  <2> SUFFICES ASSUME Ids \subseteq DOMAIN h PROVE FALSE
    OBVIOUS
  <2>1. Blocks(h) = Ids
    BY <1>1, Constants DEF Blocks
  <2>2. Cardinality(Ids) = Pages + 2
    <3>1. 1 \in Int /\ Pages + 2 \in Int /\ ~(1 > Pages + 2) /\ Pages + 2 - 1 + 1 = Pages + 2
      BY Constants
    <3> QED BY <3>1, FS_Interval DEF Ids
  <2> QED BY <2>1, <2>2, FewBlocks, Constants
<1>3. Ids \ DOMAIN h \in SUBSET Nat
  BY Constants, Zenon
<1> DEFINE S == Ids \ DOMAIN h
<1>4. \E i \in S : \A j \in S : i <= j
  <2> HIDE DEF S
  <2> QED BY <1>2, <1>3, LeastNumber, Zenon DEF S
<1>5. NewId(h) \in S
  BY <1>4 DEF NewId
<1> QED BY <1>5

-----------------------------------------------------------------------------
(* Putting a descriptor into a list behind place k, and taking the one      *)
(* behind place k out of it.                                                *)

Inserted(n, p, k, d) ==
  [i \in 0 .. n + 2 |-> IF i <= k THEN p[i] ELSE IF i = k + 1 THEN d ELSE p[i - 1]]

Removed(n, p, k) == [i \in 0 .. n |-> IF i <= k THEN p[i] ELSE p[i + 1]]

(* The path, put in the form the proofs below use.                          *)
LEMMA PathFacts ==
  ASSUME NEW h, NEW l, NEW n, NEW p, Path(h, l, n, p)
  PROVE  /\ n \in Nat /\ p[0] = l /\ p[n + 1] = NIL
         /\ \A i \in 1 .. n : p[i] \in Ids /\ p[i] \in DOMAIN h /\ p[i] \in Members(n, p)
                /\ p[i] \in Blocks(h)
         /\ \A i \in 0 .. n : h[p[i]].next = p[i + 1]
         /\ \A i, j \in 1 .. n : p[i] = p[j] => i = j
         /\ \A i \in 0 .. n + 1 : p[i] \in Ids \cup Heads \cup {NIL}
         /\ \A d \in Members(n, p) : \E i \in 1 .. n : d = p[i]
  BY Constants DEF Path, Members, Blocks

(* A change that leaves the links of a list alone leaves the list alone.    *)
LEMMA PathKept ==
  ASSUME NEW h, NEW l, NEW n, NEW p, Path(h, l, n, p), NEW g, Members(n, p) \subseteq DOMAIN g,
         \A i \in 0 .. n : g[p[i]].next = p[i + 1]
  PROVE  Path(g, l, n, p)
  BY DEF Path, Members

(* Two links written: the list has d behind place k.                        *)
LEMMA PathInsert ==
  ASSUME NEW h, NEW l, NEW n, NEW p, Path(h, l, n, p), NEW g,
         NEW d \in Ids, d \in DOMAIN g, d \notin Members(n, p), Members(n, p) \subseteq DOMAIN g,
         NEW k \in 0 .. n, g[p[k]].next = d, g[d].next = p[k + 1],
         \A i \in 0 .. n : i # k => g[p[i]].next = p[i + 1]
  PROVE  /\ Path(g, l, n + 1, Inserted(n, p, k, d))
         /\ Members(n + 1, Inserted(n, p, k, d)) = Members(n, p) \cup {d}
<1> DEFINE q == Inserted(n, p, k, d)
<1>1. /\ n \in Nat /\ p[0] = l /\ p[n + 1] = NIL
      /\ \A i \in 1 .. n : p[i] \in Ids /\ p[i] \in DOMAIN g /\ p[i] \in Members(n, p)
      /\ \A i \in 0 .. n + 1 : p[i] \in Ids \cup Heads \cup {NIL}
      /\ \A i, j \in 1 .. n : p[i] = p[j] => i = j
      /\ \A x \in Members(n, p) : \E i \in 1 .. n : x = p[i]
  BY PathFacts
<1>2. /\ \A i \in 0 .. k : q[i] = p[i]
      /\ q[k + 1] = d
      /\ \A i \in k + 2 .. n + 2 : q[i] = p[i - 1] /\ i - 1 \in 1 .. n + 1
      /\ DOMAIN q = 0 .. n + 2
  BY <1>1 DEF Inserted
<1>3. q \in [0 .. n + 2 -> Ids \cup Heads \cup {NIL}]
  BY <1>1 DEF Inserted
<1>4. q[0] = l /\ q[n + 2] = NIL
  BY <1>1, <1>2
<1> HIDE DEF q
<1>5. ASSUME NEW i \in 1 .. n + 1, i # k + 1
      PROVE  \E a \in 1 .. n : q[i] = p[a] /\ a = IF i <= k THEN i ELSE i - 1
  <2>1. CASE i <= k
    <3>1. i \in 0 .. k /\ i \in 1 .. n
      BY <1>1, <2>1
    <3> QED BY <1>2, <2>1, <3>1
  <2>2. CASE ~(i <= k)
    <3>1. i \in k + 2 .. n + 2 /\ i - 1 \in 1 .. n
      BY <1>1, <1>5, <2>2
    <3> QED BY <1>2, <2>2, <3>1
  <2> QED BY <2>1, <2>2
<1>6. ASSUME NEW i \in 1 .. n + 1
      PROVE  /\ q[i] \in Ids \cap DOMAIN g
             /\ i # k + 1 => q[i] \in Members(n, p)
  <2>1. CASE i = k + 1
    BY <1>2, <2>1
  <2>2. CASE i # k + 1
    <3>1. PICK a \in 1 .. n : q[i] = p[a]
      BY <1>5, <2>2
    <3> QED BY <1>1, <2>2, <3>1
  <2> QED BY <2>1, <2>2
<1>7. ASSUME NEW i \in 1 .. n + 1, NEW j \in 1 .. n + 1, q[i] = q[j] PROVE i = j
  <2>1. i = k + 1 <=> j = k + 1
    BY <1>2, <1>6, <1>7
  <2>2. CASE i # k + 1
    <3>1. PICK a \in 1 .. n : q[i] = p[a] /\ a = IF i <= k THEN i ELSE i - 1
      BY <1>5, <2>2
    <3>2. PICK b \in 1 .. n : q[j] = p[b] /\ b = IF j <= k THEN j ELSE j - 1
      BY <1>5, <2>1, <2>2
    <3>3. a = b
      BY <1>1, <1>7, <3>1, <3>2, Zenon
    <3> QED BY <1>1, <2>1, <2>2, <3>1, <3>2, <3>3
  <2> QED BY <2>1, <2>2
<1>8. ASSUME NEW i \in 0 .. n + 1 PROVE g[q[i]].next = q[i + 1]
  <2>1. CASE i \in 0 .. k - 1
    <3>1. i \in 0 .. k /\ i + 1 \in 0 .. k /\ i \in 0 .. n /\ i # k
      BY <1>1, <2>1
    <3> QED BY <1>2, <3>1
  <2>2. CASE i = k
    BY <1>2, <2>2
  <2>3. CASE i = k + 1
    <3>1. k + 2 \in k + 2 .. n + 2 /\ (k + 2) - 1 = k + 1 /\ (k + 1) + 1 = k + 2
      BY <1>1
    <3> QED BY <1>2, <2>3, <3>1
  <2>4. CASE i \in k + 2 .. n + 1
    <3>1. /\ i \in k + 2 .. n + 2 /\ i + 1 \in k + 2 .. n + 2 /\ (i + 1) - 1 = i
          /\ i - 1 \in 0 .. n /\ i - 1 # k /\ (i - 1) + 1 = i
      BY <1>1, <2>4
    <3>2. q[i] = p[i - 1] /\ q[i + 1] = p[i]
      BY <1>2, <3>1
    <3>3. g[p[i - 1]].next = p[(i - 1) + 1]
      BY <3>1
    <3> QED BY <3>1, <3>2, <3>3
  <2> QED BY <1>1, <2>1, <2>2, <2>3, <2>4
<1>9. Path(g, l, n + 1, q)
  <2>1. n + 1 \in Nat /\ (n + 1) + 1 = n + 2
    BY <1>1
  <2> QED BY <1>3, <1>4, <1>6, <1>7, <1>8, <2>1 DEF Path
<1>10. Members(n + 1, q) = Members(n, p) \cup {d}
  <2>1. ASSUME NEW i \in 1 .. n + 1 PROVE q[i] \in Members(n, p) \cup {d}
    BY <1>2, <1>6
  <2>2. k + 1 \in 1 .. n + 1 /\ d = q[k + 1]
    BY <1>1, <1>2
  <2>3. ASSUME NEW i \in 1 .. n PROVE \E j \in 1 .. n + 1 : p[i] = q[j]
    <3>1. CASE i <= k
      <4>1. i \in 0 .. k /\ i \in 1 .. n + 1
        BY <1>1, <3>1
      <4> QED BY <1>2, <4>1
    <3>2. CASE ~(i <= k)
      <4>1. i + 1 \in k + 2 .. n + 2 /\ i + 1 \in 1 .. n + 1 /\ (i + 1) - 1 = i
        BY <1>1, <3>2
      <4>2. q[i + 1] = p[(i + 1) - 1]
        BY <1>2, <4>1
      <4> QED BY <4>1, <4>2
    <3> QED BY <3>1, <3>2
  <2> QED BY <2>1, <2>2, <2>3 DEF Members
<1> QED BY <1>9, <1>10 DEF q

(* One link written: the descriptor behind place k has left the list.       *)
LEMMA PathRemove ==
  ASSUME NEW h, NEW l, NEW n, NEW p, Path(h, l, n, p), NEW g,
         NEW k \in 0 .. n - 1, Members(n, p) \ {p[k + 1]} \subseteq DOMAIN g,
         g[p[k]].next = p[k + 2],
         \A i \in 0 .. n : i # k /\ i # k + 1 => g[p[i]].next = p[i + 1]
  PROVE  /\ Path(g, l, n - 1, Removed(n, p, k))
         /\ Members(n - 1, Removed(n, p, k)) = Members(n, p) \ {p[k + 1]}
<1> DEFINE q == Removed(n, p, k)
<1>1. /\ n \in Nat /\ p[0] = l /\ p[n + 1] = NIL
      /\ \A i \in 1 .. n : p[i] \in Ids /\ p[i] \in Members(n, p)
      /\ \A i \in 0 .. n + 1 : p[i] \in Ids \cup Heads \cup {NIL}
      /\ \A i, j \in 1 .. n : p[i] = p[j] => i = j
      /\ \A x \in Members(n, p) : \E i \in 1 .. n : x = p[i]
  BY PathFacts
<1>2. /\ \A i \in 0 .. k : q[i] = p[i]
      /\ \A i \in k + 1 .. n : q[i] = p[i + 1]
      /\ DOMAIN q = 0 .. n /\ k + 1 \in 1 .. n /\ n - 1 \in Nat /\ (n - 1) + 1 = n
  BY <1>1 DEF Removed
<1>3. q \in [0 .. n -> Ids \cup Heads \cup {NIL}]
  BY <1>1 DEF Removed
<1>4. q[0] = l /\ q[n] = NIL
  BY <1>1, <1>2
<1> HIDE DEF q
<1>5. ASSUME NEW i \in 1 .. n - 1
      PROVE  \E a \in 1 .. n : a # k + 1 /\ q[i] = p[a] /\ a = IF i <= k THEN i ELSE i + 1
  <2>1. CASE i <= k
    <3>1. i \in 0 .. k /\ i \in 1 .. n /\ i # k + 1
      BY <1>1, <2>1
    <3> QED BY <1>2, <2>1, <3>1
  <2>2. CASE ~(i <= k)
    <3>1. i \in k + 1 .. n /\ i + 1 \in 1 .. n /\ i + 1 # k + 1
      BY <1>1, <2>2
    <3> QED BY <1>2, <2>2, <3>1
  <2> QED BY <2>1, <2>2
<1>6. ASSUME NEW i \in 1 .. n - 1 PROVE q[i] \in Ids \cap DOMAIN g /\ q[i] \in Members(n, p) \ {p[k + 1]}
  <2>1. PICK a \in 1 .. n : a # k + 1 /\ q[i] = p[a]
    BY <1>5
  <2>2. p[a] \in Ids /\ p[a] \in Members(n, p)
    BY <1>1
  <2>3. p[a] # p[k + 1]
    BY <1>1, <1>2, <2>1
  <2> QED BY <2>1, <2>2, <2>3
<1>7. ASSUME NEW i \in 1 .. n - 1, NEW j \in 1 .. n - 1, q[i] = q[j] PROVE i = j
  <2>1. PICK a \in 1 .. n : q[i] = p[a] /\ a = IF i <= k THEN i ELSE i + 1
    BY <1>5
  <2>2. PICK b \in 1 .. n : q[j] = p[b] /\ b = IF j <= k THEN j ELSE j + 1
    BY <1>5
  <2>3. a = b
    BY <1>1, <1>7, <2>1, <2>2, Zenon
  <2> QED BY <1>1, <2>1, <2>2, <2>3
<1>8. ASSUME NEW i \in 0 .. n - 1 PROVE g[q[i]].next = q[i + 1]
  <2>1. CASE i \in 0 .. k - 1
    <3>1. i \in 0 .. k /\ i + 1 \in 0 .. k /\ i \in 0 .. n /\ i # k /\ i # k + 1
      BY <1>1, <2>1
    <3>2. q[i] = p[i] /\ q[i + 1] = p[i + 1]
      BY <1>2, <3>1
    <3> QED BY <3>1, <3>2
  <2>2. CASE i = k
    <3>1. q[k] = p[k] /\ k + 1 \in k + 1 .. n /\ (k + 1) + 1 = k + 2
      BY <1>1, <1>2
    <3>2. q[k + 1] = p[(k + 1) + 1]
      BY <1>2, <3>1
    <3> QED BY <2>2, <3>1, <3>2
  <2>3. CASE i \in k + 1 .. n - 1
    <3>1. i \in k + 1 .. n /\ i + 1 \in k + 1 .. n /\ i + 1 \in 0 .. n /\ i + 1 # k /\ i + 1 # k + 1
      BY <1>1, <2>3
    <3>2. q[i] = p[i + 1] /\ q[i + 1] = p[(i + 1) + 1]
      BY <1>2, <3>1
    <3>3. g[p[i + 1]].next = p[(i + 1) + 1]
      BY <3>1
    <3> QED BY <3>2, <3>3
  <2> QED BY <1>1, <2>1, <2>2, <2>3
<1>9. Path(g, l, n - 1, q)
  BY <1>2, <1>3, <1>4, <1>6, <1>7, <1>8 DEF Path
<1>10. Members(n - 1, q) = Members(n, p) \ {p[k + 1]}
  <2>1. ASSUME NEW a \in 1 .. n, a # k + 1 PROVE \E i \in 1 .. n - 1 : q[i] = p[a]
    <3>1. CASE a <= k
      <4>1. a \in 0 .. k /\ a \in 1 .. n - 1
        BY <1>1, <3>1
      <4> QED BY <1>2, <4>1
    <3>2. CASE ~(a <= k)
      <4>1. a - 1 \in k + 1 .. n /\ a - 1 \in 1 .. n - 1 /\ (a - 1) + 1 = a
        BY <1>1, <2>1, <3>2
      <4>2. q[a - 1] = p[(a - 1) + 1]
        BY <1>2, <4>1
      <4> QED BY <4>1, <4>2
    <3> QED BY <3>1, <3>2
  <2>2. ASSUME NEW x \in Members(n, p), x # p[k + 1] PROVE x \in Members(n - 1, q)
    <3>1. PICK a \in 1 .. n : x = p[a] /\ a # k + 1
      BY <1>1, <2>2
    <3> QED BY <2>1, <3>1 DEF Members
  <2>3. Members(n - 1, q) \subseteq Members(n, p) \ {p[k + 1]}
    BY <1>6 DEF Members
  <2> QED BY <2>2, <2>3
<1> QED BY <1>9, <1>10 DEF q

-----------------------------------------------------------------------------
(* AlignUp gives the lowest aligned page from base on.                      *)

(* Division with remainder.                                                 *)
LEMMA DivMod ==
  ASSUME NEW x \in Nat, NEW a \in Nat \ {0}
  PROVE  x \div a \in Nat /\ x % a \in 0 .. a - 1 /\ x = a * (x \div a) + (x % a)
  BY SMT

(* Different multiples of a are at least a apart.                           *)
LEMMA Multiples ==
  ASSUME NEW x \in Nat, NEW y \in Nat, NEW a \in Nat \ {0}
  PROVE  /\ a * x \in Nat /\ (x * a) % a = 0 /\ x * a = a * x
         /\ x < y => a * x + a <= a * y
  BY SMT

(* The rounding in dmamem_alloc() gives the lowest aligned page.            *)
LEMMA AlignUpIs ==
  ASSUME NEW b \in Nat, NEW a \in Nat \ {0}
  PROVE  /\ AlignUp(b, a) \in Nat /\ AlignUp(b, a) >= b /\ AlignUp(b, a) % a = 0
         /\ \A p \in Nat : p >= b /\ p % a = 0 => AlignUp(b, a) <= p
<1> DEFINE x == b + a - 1
           q == x \div a
<1>1. x \in Nat /\ x = b + a - 1
  OBVIOUS
<1>2. AlignUp(b, a) = q * a
  BY DEF AlignUp
<1> HIDE DEF x
<1>3. q \in Nat /\ x % a \in 0 .. a - 1 /\ x = a * q + (x % a)
  BY <1>1, DivMod, Zenon
<1> HIDE DEF q
<1>4. a * q \in Nat /\ (q * a) % a = 0 /\ q * a = a * q
  BY <1>3, Multiples
<1>5. AlignUp(b, a) >= b
  BY <1>1, <1>2, <1>3, <1>4
<1>6. ASSUME NEW p \in Nat, p >= b, p % a = 0 PROVE a * q <= p
  <2> DEFINE s == p \div a
  <2>1. s \in Nat /\ p = a * s + 0
    BY <1>6, DivMod
  <2> HIDE DEF s
  <2>2. a * s \in Nat /\ (s < q => a * s + a <= a * q)
    BY <1>3, <2>1, Multiples
  <2>3. ~(s < q)
    BY <1>1, <1>3, <1>4, <1>6, <2>1, <2>2
  <2>4. q < s => a * q + a <= a * s
    BY <1>3, <2>1, Multiples
  <2>5. CASE q = s
    BY <1>4, <2>1, <2>5
  <2>6. CASE q < s
    BY <1>4, <2>1, <2>2, <2>4, <2>6
  <2> QED BY <1>3, <2>1, <2>3, <2>5, <2>6
<1> QED BY <1>2, <1>4, <1>5, <1>6

-----------------------------------------------------------------------------
(* The three changes that dmamem_alloc() and dmamem_free() put together: a  *)
(* new descriptor e takes the first k pages of block d and goes behind l;   *)
(* block d moves from behind l to behind m; block d absorbs block e.        *)

Split(h, d, k, l, e, next) ==
  With([h EXCEPT ![d].base = h[d].base + k, ![d].size = @ - k, ![l].next = e],
       e, Dsc(h[d].base, k, next))

Move(h, l, d, m) ==
  LET out == [h EXCEPT ![l].next = h[d].next]
  IN  [out EXCEPT ![d].next = out[m].next, ![m].next = d]

SamePages(h, g, x) == g[x].base = h[x].base /\ g[x].size = h[x].size

(* What they do, field by field.                                            *)
SplitOf(h, d, k, l, e, next, g) ==
  /\ HeapType(g) /\ DOMAIN g = DOMAIN h \cup {e}
  /\ g[e].base = h[d].base /\ g[e].size = k /\ g[e].next = next
  /\ g[d].base = h[d].base + k /\ g[d].size = h[d].size - k
  /\ \A x \in DOMAIN h : x # d => SamePages(h, g, x)
  /\ g[l].next = e /\ \A x \in DOMAIN h : x # l => g[x].next = h[x].next

MoveOf(h, l, d, m, g) ==
  /\ HeapType(g) /\ DOMAIN g = DOMAIN h /\ \A x \in DOMAIN h : SamePages(h, g, x)
  /\ g[l].next = h[d].next /\ g[d].next = h[m].next /\ g[m].next = d
  /\ \A x \in DOMAIN h : x \notin {l, d, m} => g[x].next = h[x].next

JoinOf(h, d, e, g) ==
  /\ HeapType(g) /\ DOMAIN g = DOMAIN h \ {e}
  /\ g[d].base = h[d].base /\ g[d].size = h[d].size + h[e].size /\ g[d].next = h[e].next
  /\ \A x \in DOMAIN h : x # d /\ x # e => SamePages(h, g, x) /\ g[x].next = h[x].next

(* The fields of a descriptor.                                              *)
LEMMA NodeIs ==
  ASSUME NEW h, HeapType(h), NEW x \in DOMAIN h
  PROVE  h[x] \in Node /\ h[x].base \in Nat /\ h[x].size \in Nat /\ h[x].next \in Ids \cup {NIL}
  BY DEF HeapType, Node

(* Split has the fields of SplitOf.                                         *)
LEMMA SplitIs ==
  ASSUME NEW h, HeapType(h), NEW d \in DOMAIN h, NEW k \in Nat, k <= h[d].size,
         NEW l \in DOMAIN h, NEW e \in Ids, e \notin DOMAIN h, NEW next \in Ids \cup {NIL}
  PROVE  SplitOf(h, d, k, l, e, next, Split(h, d, k, l, e, next))
<1> DEFINE g == Split(h, d, k, l, e, next)
<1> HIDE DEF g
<1> DEFINE c == [h EXCEPT ![d].base = h[d].base + k, ![d].size = @ - k, ![l].next = e]
<1>1. \A x \in DOMAIN h : h[x] \in Node
  BY NodeIs
<1>2. DOMAIN c = DOMAIN h
  OBVIOUS
<1> DEFINE b(x) == IF x = d THEN h[d].base + k ELSE h[x].base
           s(x) == IF x = d THEN h[d].size - k ELSE h[x].size
           n(x) == IF x = l THEN e ELSE h[x].next
<1>3. ASSUME NEW x \in DOMAIN h PROVE c[x] = [base |-> b(x), size |-> s(x), next |-> n(x)]
  BY <1>1, Zenon DEF Node
<1>4. ASSUME NEW x \in DOMAIN h PROVE b(x) \in Nat /\ s(x) \in Nat /\ n(x) \in Ids \cup {NIL}
  BY NodeIs
<1> HIDE DEF c, b, s, n
<1>5. /\ DOMAIN g = DOMAIN h \cup {e} /\ g[e] = Dsc(h[d].base, k, next)
      /\ \A x \in DOMAIN h : g[x] = c[x]
      /\ g = [x \in DOMAIN h \cup {e} |-> g[x]]
  BY <1>2 DEF Split, With, c, g
<1>6. ASSUME NEW x \in DOMAIN h
      PROVE  g[x] \in Node /\ g[x].base = b(x) /\ g[x].size = s(x) /\ g[x].next = n(x)
  <2>1. g[x] = [base |-> b(x), size |-> s(x), next |-> n(x)]
    BY <1>3, <1>5, Zenon
  <2> QED BY <1>4, <2>1 DEF Node
<1>7. HeapType(g)
  <2>1. g[e] \in Node
    BY <1>1, <1>5 DEF Node, Dsc
  <2>2. \A x \in DOMAIN g : g[x] \in Node
    BY <1>5, <1>6, <2>1
  <2>3. g \in [DOMAIN g -> Node]
    BY <1>5, <2>2
  <2> QED BY <1>5, <2>3 DEF HeapType
<1>8. g[e].base = h[d].base /\ g[e].size = k /\ g[e].next = next
  BY <1>5 DEF Dsc
<1>9. g[d].base = h[d].base + k /\ g[d].size = h[d].size - k /\ g[l].next = e
  BY <1>6 DEF b, s, n
<1>10. ASSUME NEW x \in DOMAIN h
       PROVE  (x # d => SamePages(h, g, x)) /\ (x # l => g[x].next = h[x].next)
  BY <1>6 DEF SamePages, b, s, n
<1> QED BY <1>5, <1>7, <1>8, <1>9, <1>10 DEF SplitOf, g

(* Move has the fields of MoveOf.                                           *)
LEMMA MoveIs ==
  ASSUME NEW h, HeapType(h), NEW l \in DOMAIN h, NEW d \in Ids, d \in DOMAIN h, NEW m \in DOMAIN h,
         l # m, l # d, m # d
  PROVE  MoveOf(h, l, d, m, Move(h, l, d, m))
<1> DEFINE g == Move(h, l, d, m)
<1> HIDE DEF g
<1>1. \A x \in DOMAIN h : h[x] \in Node
  BY NodeIs
<1> DEFINE o == [h EXCEPT ![l].next = h[d].next]
<1>2. DOMAIN o = DOMAIN h /\ \A x \in DOMAIN h :
        o[x] = [base |-> h[x].base, size |-> h[x].size, next |-> IF x = l THEN h[d].next ELSE h[x].next]
  BY <1>1 DEF Node
<1> HIDE DEF o
<1>3. g = [o EXCEPT ![d].next = o[m].next, ![m].next = d]
  BY DEF Move, o, g
<1>4. \A x \in DOMAIN h : o[x] \in Node
  BY <1>1, <1>2 DEF Node
<1>5. DOMAIN g = DOMAIN h /\ \A x \in DOMAIN h :
        g[x] = [base |-> o[x].base, size |-> o[x].size,
                next |-> IF x = m THEN d ELSE IF x = d THEN o[m].next ELSE o[x].next]
  BY <1>2, <1>3, <1>4 DEF Node
<1>6. g = [x \in DOMAIN h |-> g[x]]
  BY <1>2, <1>3, Zenon
<1>7. HeapType(g)
  <2>1. \A x \in DOMAIN g : g[x] \in Node
    BY <1>4, <1>5 DEF Node
  <2> QED BY <1>5, <1>6, <2>1 DEF HeapType
<1> QED BY <1>2, <1>5, <1>7 DEF SamePages, MoveOf, g

(* Join has the fields of JoinOf.                                           *)
LEMMA JoinIs ==
  ASSUME NEW h, HeapType(h), NEW d \in DOMAIN h, NEW e \in DOMAIN h \ Heads, d # e
  PROVE  JoinOf(h, d, e, Join(h, d, e))
<1> DEFINE g == Join(h, d, e)
<1> HIDE DEF g
<1>1. \A x \in DOMAIN h : h[x] \in Node
  BY NodeIs
<1> DEFINE o == [h EXCEPT ![d].size = @ + h[e].size, ![d].next = h[e].next]
<1>2. DOMAIN o = DOMAIN h /\ \A x \in DOMAIN h :
        o[x] = [base |-> h[x].base, size |-> IF x = d THEN h[d].size + h[e].size ELSE h[x].size,
                next |-> IF x = d THEN h[e].next ELSE h[x].next]
  BY <1>1, Zenon DEF Node
<1> HIDE DEF o
<1>3. g = [x \in DOMAIN h \ {e} |-> o[x]]
  BY <1>2 DEF Join, kfree, o, g
<1>4. \A x \in DOMAIN h : o[x] \in Node
  BY <1>1, <1>2 DEF Node
<1>5. HeapType(g)
  BY <1>3, <1>4 DEF HeapType, Heads
<1> QED BY <1>2, <1>3, <1>5 DEF SamePages, JoinOf, g

-----------------------------------------------------------------------------
(* The area stays covered, without overlap.                                 *)

(* Tiling with its definitions expanded.                                    *)
LEMMA TilingFacts ==
  ASSUME NEW h, HeapType(h), Tiling(h)
  PROVE  /\ \A d \in Blocks(h) :
              /\ h[d].base \in Nat /\ h[d].size \in Nat /\ h[d].size > 0
              /\ BasePage <= h[d].base /\ h[d].base + h[d].size <= BasePage + Pages
         /\ \A d, e \in Blocks(h) : d # e =>
              h[d].base + h[d].size <= h[e].base \/ h[e].base + h[e].size <= h[d].base
         /\ \A p \in Region : \E d \in Blocks(h) : h[d].base <= p /\ p < h[d].base + h[d].size
  BY NodeIs DEF Tiling, Apart, End, Blocks

(* Blocks with the same pages tile the same area.                           *)
LEMMA TilingSame ==
  ASSUME NEW h, HeapType(h), Tiling(h), NEW g, DOMAIN g = DOMAIN h,
         \A x \in DOMAIN h : SamePages(h, g, x)
  PROVE  Tiling(g)
  BY DEF Tiling, Apart, End, Blocks, SamePages

(* Cutting a block in two keeps the tiling.                                 *)
LEMMA TilingSplit ==
  ASSUME NEW h, HeapType(h), Tiling(h), NEW d \in Blocks(h), NEW k \in Nat, 0 < k, k < h[d].size,
         NEW e \in Ids, e \notin DOMAIN h, NEW g, DOMAIN g = DOMAIN h \cup {e},
         g[e].base = h[d].base, g[e].size = k,
         g[d].base = h[d].base + k, g[d].size = h[d].size - k,
         \A x \in DOMAIN h : x # d => SamePages(h, g, x)
  PROVE  Tiling(g)
<1>1. Blocks(g) = Blocks(h) \cup {e} /\ e \notin Blocks(h) /\ Blocks(h) \subseteq DOMAIN h
  BY Constants DEF Blocks
<1>2. \A x \in Blocks(h) : x # d => g[x].base = h[x].base /\ g[x].size = h[x].size
  BY <1>1 DEF SamePages
<1>3. /\ \A x \in Blocks(h) :
           /\ h[x].base \in Nat /\ h[x].size \in Nat /\ h[x].size > 0
           /\ BasePage <= h[x].base /\ h[x].base + h[x].size <= BasePage + Pages
      /\ \A x, y \in Blocks(h) : x # y =>
           h[x].base + h[x].size <= h[y].base \/ h[y].base + h[y].size <= h[x].base
      /\ \A p \in Region : \E x \in Blocks(h) : h[x].base <= p /\ p < h[x].base + h[x].size
  BY TilingFacts
<1>4. ASSUME NEW x \in Blocks(g)
      PROVE  g[x].size > 0 /\ BasePage <= g[x].base /\ g[x].base + g[x].size <= BasePage + Pages
  <2>1. CASE x = e
    BY <1>3, <2>1, Constants
  <2>2. CASE x = d
    BY <1>3, <2>2, Constants
  <2>3. CASE x # d /\ x # e
    <3>1. x \in Blocks(h)
      BY <1>1, <2>3
    <3> QED BY <1>2, <1>3, <2>3, <3>1
  <2> QED BY <2>1, <2>2, <2>3
<1>5. ASSUME NEW x \in Blocks(h), x # d PROVE Apart(g, x, d) /\ Apart(g, x, e)
  <2>1. h[x].base + h[x].size <= h[d].base \/ h[d].base + h[d].size <= h[x].base
    BY <1>3, <1>5
  <2>2. g[x].base = h[x].base /\ g[x].size = h[x].size /\ h[x].base \in Nat /\ h[x].size \in Nat
        /\ h[d].base \in Nat /\ h[d].size \in Nat
    BY <1>2, <1>3, <1>5
  <2> QED BY <2>1, <2>2 DEF Apart, End
<1>6. Apart(g, e, d)
  BY <1>3 DEF Apart, End
<1>7. ASSUME NEW x \in Blocks(g), NEW y \in Blocks(g), x # y PROVE Apart(g, x, y)
  <2>1. CASE x \in Blocks(h) \ {d} /\ y \in Blocks(h) \ {d}
    BY <1>2, <1>3, <1>7, <2>1 DEF Apart, End
  <2>2. CASE x \in Blocks(h) \ {d} /\ y \in {d, e}
    BY <1>5, <2>2
  <2>3. CASE x \in {d, e} /\ y \in Blocks(h) \ {d}
    BY <1>5, <2>3 DEF Apart
  <2>4. CASE x \in {d, e} /\ y \in {d, e}
    BY <1>6, <1>7, <2>4 DEF Apart
  <2> QED BY <1>1, <2>1, <2>2, <2>3, <2>4
<1>8. ASSUME NEW p \in Region PROVE \E x \in Blocks(g) : g[x].base <= p /\ p < End(g, x)
  <2>1. PICK x \in Blocks(h) : h[x].base <= p /\ p < h[x].base + h[x].size
    BY <1>3
  <2>2. CASE x # d
    BY <1>1, <1>2, <2>1, <2>2 DEF End
  <2>3. CASE x = d /\ p < h[d].base + k
    BY <1>1, <2>1, <2>3 DEF End
  <2>4. CASE x = d /\ ~(p < h[d].base + k)
    <3>1. p \in Int /\ h[d].base \in Nat /\ h[d].size \in Nat
      BY <1>3, Constants DEF Region
    <3>2. g[d].base <= p /\ p < g[d].base + g[d].size
      BY <2>1, <2>4, <3>1
    <3> QED BY <1>1, <3>2 DEF End
  <2> QED BY <2>2, <2>3, <2>4
<1> QED BY <1>4, <1>7, <1>8 DEF Tiling, End

(* Joining two blocks that touch keeps the tiling.                          *)
LEMMA TilingJoin ==
  ASSUME NEW h, HeapType(h), Tiling(h), NEW d \in Blocks(h), NEW e \in Blocks(h), d # e,
         Touches(h, d, e), NEW g, DOMAIN g = DOMAIN h \ {e},
         g[d].base = h[d].base, g[d].size = h[d].size + h[e].size,
         \A x \in DOMAIN h : x # d /\ x # e => SamePages(h, g, x)
  PROVE  Tiling(g)
<1>1. Blocks(g) = Blocks(h) \ {e} /\ Blocks(h) \subseteq DOMAIN h
  BY Constants DEF Blocks
<1>2. \A x \in Blocks(h) : x # d /\ x # e => g[x].base = h[x].base /\ g[x].size = h[x].size
  BY <1>1 DEF SamePages
<1>3. /\ \A x \in Blocks(h) :
           /\ h[x].base \in Nat /\ h[x].size \in Nat /\ h[x].size > 0
           /\ BasePage <= h[x].base /\ h[x].base + h[x].size <= BasePage + Pages
      /\ \A x, y \in Blocks(h) : x # y =>
           h[x].base + h[x].size <= h[y].base \/ h[y].base + h[y].size <= h[x].base
      /\ \A p \in Region : \E x \in Blocks(h) : h[x].base <= p /\ p < h[x].base + h[x].size
  BY TilingFacts
<1>4. h[d].base + h[d].size = h[e].base
  BY DEF Touches, End
<1>5. ASSUME NEW x \in Blocks(g)
      PROVE  g[x].size > 0 /\ BasePage <= g[x].base /\ g[x].base + g[x].size <= BasePage + Pages
  <2>1. CASE x = d
    BY <1>3, <1>4, <2>1, Constants
  <2>2. CASE x # d
    <3>1. x \in Blocks(h) /\ x # e
      BY <1>1
    <3> QED BY <1>2, <1>3, <2>2, <3>1
  <2> QED BY <2>1, <2>2
<1>6. ASSUME NEW x \in Blocks(h), x # d, x # e PROVE Apart(g, x, d)
  <2>1. /\ h[x].base + h[x].size <= h[d].base \/ h[d].base + h[d].size <= h[x].base
        /\ h[x].base + h[x].size <= h[e].base \/ h[e].base + h[e].size <= h[x].base
    BY <1>3, <1>6
  <2>2. /\ g[x].base = h[x].base /\ g[x].size = h[x].size /\ h[x].base \in Nat /\ h[x].size \in Nat
        /\ h[d].base \in Nat /\ h[d].size \in Nat /\ h[e].base \in Nat /\ h[e].size \in Nat
        /\ h[x].size > 0
    BY <1>2, <1>3, <1>6
  <2> QED BY <1>4, <2>1, <2>2 DEF Apart, End
<1>7. ASSUME NEW x \in Blocks(g), NEW y \in Blocks(g), x # y PROVE Apart(g, x, y)
  <2>1. CASE x # d /\ y # d
    <3>1. x \in Blocks(h) /\ x # e /\ y \in Blocks(h) /\ y # e
      BY <1>1
    <3> QED BY <1>2, <1>3, <1>7, <2>1, <3>1 DEF Apart, End
  <2>2. CASE y = d
    BY <1>1, <1>6, <1>7, <2>2
  <2>3. CASE x = d
    BY <1>1, <1>6, <1>7, <2>3 DEF Apart
  <2> QED BY <2>1, <2>2, <2>3
<1>8. ASSUME NEW p \in Region PROVE \E x \in Blocks(g) : g[x].base <= p /\ p < End(g, x)
  <2>1. PICK x \in Blocks(h) : h[x].base <= p /\ p < h[x].base + h[x].size
    BY <1>3
  <2>2. CASE x # d /\ x # e
    BY <1>1, <1>2, <2>1, <2>2 DEF End
  <2>3. CASE x \in {d, e}
    <3>1. /\ p \in Int /\ h[d].base \in Nat /\ h[d].size \in Nat /\ h[e].size \in Nat
      BY <1>3, Constants DEF Region
    <3>2. g[d].base <= p /\ p < g[d].base + g[d].size
      BY <1>4, <2>1, <2>3, <3>1
    <3> QED BY <1>1, <3>2 DEF End
  <2> QED BY <2>2, <2>3
<1> QED BY <1>5, <1>7, <1>8 DEF Tiling, End

-----------------------------------------------------------------------------
(* The two lists, in either order, under the three changes.                 *)

TwoLists(h, l, n, p, m, r, q) ==
  /\ l \in Heads /\ m \in Heads /\ l # m
  /\ Path(h, l, n, p) /\ Path(h, m, r, q)
  /\ Members(n, p) \cap Members(r, q) = {}
  /\ Blocks(h) = Members(n, p) \cup Members(r, q)

(* The two lists share nothing, not even their heads.                       *)
LEMMA TwoListsFacts ==
  ASSUME NEW h, HeapType(h), NEW l, NEW n, NEW p, NEW m, NEW r, NEW q, TwoLists(h, l, n, p, m, r, q)
  PROVE  /\ n \in Nat /\ r \in Nat
         /\ \A i \in 0 .. n : p[i] \in DOMAIN h /\ h[p[i]].next = p[i + 1]
         /\ \A i \in 0 .. r : q[i] \in DOMAIN h /\ h[q[i]].next = q[i + 1]
         /\ \A i \in 1 .. n : p[i] \in Ids /\ p[i] \in Blocks(h) /\ p[i] \in Members(n, p)
                /\ p[i] \in DOMAIN h
         /\ \A i \in 1 .. r : q[i] \in Ids /\ q[i] \in Blocks(h) /\ q[i] \in Members(r, q)
                /\ q[i] \in DOMAIN h
         /\ \A i \in 1 .. n + 1 : p[i] \in Ids \cup {NIL}
         /\ \A i \in 1 .. r + 1 : q[i] \in Ids \cup {NIL}
         /\ \A i, j \in 0 .. n : p[i] = p[j] => i = j
         /\ \A i, j \in 0 .. r : q[i] = q[j] => i = j
         /\ \A i \in 0 .. n, j \in 0 .. r : p[i] # q[j]
<1>1. Path(h, l, n, p) /\ Path(h, m, r, q) /\ l \in DOMAIN h /\ m \in DOMAIN h
  BY DEF TwoLists, HeapType
<1>2. /\ n \in Nat /\ p[0] = l /\ p[n + 1] = NIL
      /\ \A i \in 1 .. n : p[i] \in Ids /\ p[i] \in DOMAIN h /\ p[i] \in Members(n, p) /\ p[i] \in Blocks(h)
      /\ \A i \in 0 .. n : h[p[i]].next = p[i + 1]
      /\ \A i, j \in 1 .. n : p[i] = p[j] => i = j
  BY <1>1, PathFacts
<1>3. /\ r \in Nat /\ q[0] = m /\ q[r + 1] = NIL
      /\ \A i \in 1 .. r : q[i] \in Ids /\ q[i] \in DOMAIN h /\ q[i] \in Members(r, q) /\ q[i] \in Blocks(h)
      /\ \A i \in 0 .. r : h[q[i]].next = q[i + 1]
      /\ \A i, j \in 1 .. r : q[i] = q[j] => i = j
  BY <1>1, PathFacts
<1>4. /\ \A i \in 0 .. n : i = 0 \/ i \in 1 .. n
      /\ \A i \in 0 .. r : i = 0 \/ i \in 1 .. r
      /\ \A i \in 1 .. n + 1 : i = n + 1 \/ i \in 1 .. n
      /\ \A i \in 1 .. r + 1 : i = r + 1 \/ i \in 1 .. r
  BY <1>2, <1>3
<1>5. l \notin Ids /\ m \notin Ids /\ l # m
  BY Constants DEF TwoLists
<1>6. Members(n, p) \cap Members(r, q) = {}
  BY DEF TwoLists
<1>7. \A i, j \in 0 .. n : p[i] = p[j] => i = j
  BY <1>2, <1>4, <1>5
<1>8. \A i, j \in 0 .. r : q[i] = q[j] => i = j
  BY <1>3, <1>4, <1>5
<1>9. \A i \in 0 .. n, j \in 0 .. r : p[i] # q[j]
  BY <1>2, <1>3, <1>4, <1>5, <1>6
<1>10. \A i \in 0 .. n : p[i] \in DOMAIN h
  BY <1>1, <1>2, <1>4
<1>11. \A i \in 0 .. r : q[i] \in DOMAIN h
  BY <1>1, <1>3, <1>4
<1>12. \A i \in 1 .. n + 1 : p[i] \in Ids \cup {NIL}
  BY <1>2, <1>4
<1>13. \A i \in 1 .. r + 1 : q[i] \in Ids \cup {NIL}
  BY <1>3, <1>4
<1> QED BY <1>2, <1>3, <1>7, <1>8, <1>9, <1>10, <1>11, <1>12, <1>13

(* After Split, the new descriptor is on the list it was linked into.       *)
LEMMA SplitLists ==
  ASSUME NEW h, HeapType(h), Tiling(h),
         NEW l, NEW n, NEW p, NEW m, NEW r, NEW q, TwoLists(h, l, n, p, m, r, q),
         NEW d \in Blocks(h), NEW k \in Nat, 0 < k, k < h[d].size, NEW j \in 0 .. r,
         NEW e \in Ids, e \notin DOMAIN h, NEW g, SplitOf(h, d, k, q[j], e, q[j + 1], g)
  PROVE  /\ HeapType(g) /\ Tiling(g)
         /\ TwoLists(g, l, n, p, m, r + 1, Inserted(r, q, j, e))
         /\ Members(r + 1, Inserted(r, q, j, e)) = Members(r, q) \cup {e}
         /\ g[e].base = h[d].base /\ g[e].size = k
         /\ g[d].base = h[d].base + k /\ g[d].size = h[d].size - k
         /\ \A x \in Blocks(h) : x # d => SamePages(h, g, x)
<1> DEFINE w == Inserted(r, q, j, e)
<1>1. /\ n \in Nat /\ r \in Nat
      /\ \A i \in 0 .. n : p[i] \in DOMAIN h /\ h[p[i]].next = p[i + 1]
      /\ \A i \in 0 .. r : q[i] \in DOMAIN h /\ h[q[i]].next = q[i + 1]
      /\ \A i \in 1 .. r + 1 : q[i] \in Ids \cup {NIL}
      /\ \A i, k1 \in 0 .. r : q[i] = q[k1] => i = k1
      /\ \A i \in 0 .. n, k1 \in 0 .. r : p[i] # q[k1]
  BY TwoListsFacts
<1>2. q[j] \in DOMAIN h /\ q[j + 1] \in Ids \cup {NIL} /\ d \in DOMAIN h
  BY <1>1 DEF Blocks
<1>3. /\ HeapType(g) /\ DOMAIN g = DOMAIN h \cup {e}
      /\ g[e].base = h[d].base /\ g[e].size = k /\ g[e].next = q[j + 1]
      /\ g[d].base = h[d].base + k /\ g[d].size = h[d].size - k
      /\ \A x \in DOMAIN h : x # d => SamePages(h, g, x)
      /\ g[q[j]].next = e /\ \A x \in DOMAIN h : x # q[j] => g[x].next = h[x].next
  BY DEF SplitOf
<1>4. Tiling(g)
  BY <1>3, TilingSplit
<1>5. /\ Path(h, l, n, p) /\ Path(h, m, r, q) /\ Members(n, p) \cap Members(r, q) = {}
      /\ Blocks(h) = Members(n, p) \cup Members(r, q) /\ l \in Heads /\ m \in Heads /\ l # m
      /\ e \notin Blocks(h) /\ Blocks(g) = Blocks(h) \cup {e} /\ Blocks(h) \subseteq DOMAIN g
  BY <1>3, Constants DEF TwoLists, Blocks
<1>6. Path(g, l, n, p)
  <2>1. \A i \in 0 .. n : g[p[i]].next = p[i + 1]
    BY <1>1, <1>3
  <2> QED BY <1>5, <2>1, PathKept
<1>7. Path(g, m, r + 1, w) /\ Members(r + 1, w) = Members(r, q) \cup {e}
  <2>1. \A i \in 0 .. r : i # j => g[q[i]].next = q[i + 1]
    BY <1>1, <1>3
  <2>2. e \in DOMAIN g /\ e \notin Members(r, q) /\ Members(r, q) \subseteq DOMAIN g
    BY <1>3, <1>5
  <2> QED BY <1>3, <1>5, <2>1, <2>2, PathInsert
<1> HIDE DEF w
<1>8. TwoLists(g, l, n, p, m, r + 1, w)
  BY <1>5, <1>6, <1>7 DEF TwoLists
<1>9. \A x \in Blocks(h) : x # d => SamePages(h, g, x)
  BY <1>3 DEF Blocks
<1> QED BY <1>3, <1>4, <1>7, <1>8, <1>9 DEF w

(* After Move, d is on the other list.                                      *)
LEMMA MoveLists ==
  ASSUME NEW h, HeapType(h), Tiling(h),
         NEW l, NEW n, NEW p, NEW m, NEW r, NEW q, TwoLists(h, l, n, p, m, r, q),
         NEW k \in 0 .. n - 1, NEW j \in 0 .. r, NEW d, d = p[k + 1],
         NEW g, MoveOf(h, p[k], d, q[j], g)
  PROVE  /\ HeapType(g) /\ Tiling(g) /\ DOMAIN g = DOMAIN h
         /\ TwoLists(g, l, n - 1, Removed(n, p, k), m, r + 1, Inserted(r, q, j, d))
         /\ Members(n - 1, Removed(n, p, k)) = Members(n, p) \ {d}
         /\ Members(r + 1, Inserted(r, q, j, d)) = Members(r, q) \cup {d}
         /\ \A x \in DOMAIN h : SamePages(h, g, x)
         /\ g[p[k]].next = h[d].next /\ g[d].next = h[q[j]].next /\ g[q[j]].next = d
<1> DEFINE v == Removed(n, p, k)
           w == Inserted(r, q, j, d)
<1>1. /\ n \in Nat /\ r \in Nat
      /\ \A i \in 0 .. n : p[i] \in DOMAIN h /\ h[p[i]].next = p[i + 1]
      /\ \A i \in 0 .. r : q[i] \in DOMAIN h /\ h[q[i]].next = q[i + 1]
      /\ \A i \in 1 .. n : p[i] \in Ids /\ p[i] \in Members(n, p)
      /\ \A i, k1 \in 0 .. n : p[i] = p[k1] => i = k1
      /\ \A i, k1 \in 0 .. r : q[i] = q[k1] => i = k1
      /\ \A i \in 0 .. n, k1 \in 0 .. r : p[i] # q[k1]
  BY TwoListsFacts
<1>2. /\ k \in 0 .. n /\ k + 1 \in 0 .. n /\ k + 1 \in 1 .. n /\ (k + 1) + 1 = k + 2 /\ k # k + 1
  BY <1>1
<1>3. /\ p[k] \in DOMAIN h /\ d \in DOMAIN h /\ d \in Ids /\ d \in Members(n, p) /\ q[j] \in DOMAIN h
      /\ p[k] # d /\ p[k] # q[j] /\ d # q[j]
  BY <1>1, <1>2
<1>4. /\ HeapType(g) /\ DOMAIN g = DOMAIN h /\ \A x \in DOMAIN h : SamePages(h, g, x)
      /\ g[p[k]].next = h[d].next /\ g[d].next = h[q[j]].next /\ g[q[j]].next = d
      /\ \A x \in DOMAIN h : x \notin {p[k], d, q[j]} => g[x].next = h[x].next
  BY DEF MoveOf
<1>5. Tiling(g)
  BY <1>4, TilingSame
<1>6. /\ Path(h, l, n, p) /\ Path(h, m, r, q) /\ Members(n, p) \cap Members(r, q) = {}
      /\ Blocks(h) = Members(n, p) \cup Members(r, q) /\ l \in Heads /\ m \in Heads /\ l # m
      /\ Blocks(g) = Blocks(h) /\ Blocks(h) \subseteq DOMAIN g
  BY <1>4 DEF TwoLists, Blocks
<1>7. Path(g, l, n - 1, v) /\ Members(n - 1, v) = Members(n, p) \ {d}
  <2>1. g[p[k]].next = p[k + 2]
    BY <1>1, <1>2, <1>4
  <2>2. ASSUME NEW i \in 0 .. n, i # k, i # k + 1 PROVE g[p[i]].next = p[i + 1]
    <3>1. p[i] \in DOMAIN h /\ p[i] # p[k] /\ p[i] # d /\ p[i] # q[j] /\ h[p[i]].next = p[i + 1]
      BY <1>1, <1>2, <2>2
    <3> QED BY <1>4, <3>1
  <2>3. Members(n, p) \ {p[k + 1]} \subseteq DOMAIN g
    BY <1>6
  <2> QED BY <1>6, <2>1, <2>2, <2>3, PathRemove
<1>8. Path(g, m, r + 1, w) /\ Members(r + 1, w) = Members(r, q) \cup {d}
  <2>1. g[d].next = q[j + 1] /\ d \in DOMAIN g /\ d \notin Members(r, q) /\ Members(r, q) \subseteq DOMAIN g
    BY <1>1, <1>3, <1>4, <1>6
  <2>2. ASSUME NEW i \in 0 .. r, i # j PROVE g[q[i]].next = q[i + 1]
    <3>1. q[i] \in DOMAIN h /\ q[i] # p[k] /\ q[i] # d /\ q[i] # q[j] /\ h[q[i]].next = q[i + 1]
      BY <1>1, <1>2, <2>2
    <3> QED BY <1>4, <3>1
  <2> QED BY <1>3, <1>4, <1>6, <2>1, <2>2, PathInsert
<1> HIDE DEF v, w
<1>9. TwoLists(g, l, n - 1, v, m, r + 1, w)
  BY <1>3, <1>6, <1>7, <1>8 DEF TwoLists
<1> QED BY <1>4, <1>5, <1>7, <1>8, <1>9 DEF v, w

(* After Join, e is gone and nothing else has moved.                        *)
LEMMA JoinLists ==
  ASSUME NEW h, HeapType(h), Tiling(h),
         NEW l, NEW n, NEW p, NEW m, NEW r, NEW q, TwoLists(h, l, n, p, m, r, q),
         NEW k \in 1 .. n - 1, NEW d, d = p[k], NEW e, e = p[k + 1], Touches(h, d, e),
         NEW g, JoinOf(h, d, e, g)
  PROVE  /\ HeapType(g) /\ Tiling(g) /\ DOMAIN g = DOMAIN h \ {e}
         /\ TwoLists(g, l, n - 1, Removed(n, p, k), m, r, q)
         /\ Members(n - 1, Removed(n, p, k)) = Members(n, p) \ {e}
         /\ g[d].base = h[d].base /\ g[d].size = h[d].size + h[e].size
         /\ \A x \in DOMAIN h : x # d /\ x # e => SamePages(h, g, x) /\ g[x].next = h[x].next
<1> DEFINE v == Removed(n, p, k)
<1>1. /\ n \in Nat /\ r \in Nat
      /\ \A i \in 0 .. n : p[i] \in DOMAIN h /\ h[p[i]].next = p[i + 1]
      /\ \A i \in 0 .. r : q[i] \in DOMAIN h /\ h[q[i]].next = q[i + 1]
      /\ \A i \in 1 .. n : p[i] \in Ids /\ p[i] \in Blocks(h) /\ p[i] \in Members(n, p)
      /\ \A i, k1 \in 0 .. n : p[i] = p[k1] => i = k1
      /\ \A i \in 0 .. n, k1 \in 0 .. r : p[i] # q[k1]
  BY TwoListsFacts
<1>2. /\ k \in 0 .. n /\ k \in 1 .. n /\ k + 1 \in 0 .. n /\ k + 1 \in 1 .. n /\ k \in 0 .. n - 1
      /\ (k + 1) + 1 = k + 2 /\ k # k + 1
  BY <1>1
<1>3. d \in Blocks(h) /\ e \in Blocks(h) /\ d # e /\ e \in Members(n, p)
  BY <1>1, <1>2
<1>4. /\ HeapType(g) /\ DOMAIN g = DOMAIN h \ {e}
      /\ g[d].base = h[d].base /\ g[d].size = h[d].size + h[e].size /\ g[d].next = h[e].next
      /\ \A x \in DOMAIN h : x # d /\ x # e => SamePages(h, g, x) /\ g[x].next = h[x].next
  BY DEF JoinOf
<1>5. Tiling(g)
  BY <1>3, <1>4, TilingJoin, Zenon
<1>6. /\ Path(h, l, n, p) /\ Path(h, m, r, q) /\ Members(n, p) \cap Members(r, q) = {}
      /\ Blocks(h) = Members(n, p) \cup Members(r, q) /\ l \in Heads /\ m \in Heads /\ l # m
      /\ Blocks(g) = Blocks(h) \ {e} /\ Blocks(h) \ {e} \subseteq DOMAIN g
  BY <1>4 DEF TwoLists, Blocks
<1>7. Path(g, l, n - 1, v) /\ Members(n - 1, v) = Members(n, p) \ {e}
  <2>1. g[p[k]].next = p[k + 2]
    BY <1>1, <1>2, <1>4
  <2>2. ASSUME NEW i \in 0 .. n, i # k, i # k + 1 PROVE g[p[i]].next = p[i + 1]
    <3>1. p[i] \in DOMAIN h /\ p[i] # d /\ p[i] # e /\ h[p[i]].next = p[i + 1]
      BY <1>1, <1>2, <2>2
    <3> QED BY <1>4, <3>1
  <2>3. Members(n, p) \ {p[k + 1]} \subseteq DOMAIN g
    BY <1>6
  <2> QED BY <1>2, <1>6, <2>1, <2>2, <2>3, PathRemove
<1>8. Path(g, m, r, q)
  <2>1. \A i \in 0 .. r : g[q[i]].next = q[i + 1]
    <3> SUFFICES ASSUME NEW i \in 0 .. r PROVE g[q[i]].next = q[i + 1]
      OBVIOUS
    <3>1. q[i] \in DOMAIN h /\ q[i] # d /\ q[i] # e /\ h[q[i]].next = q[i + 1]
      BY <1>1, <1>2
    <3> QED BY <1>4, <3>1
  <2>2. Members(r, q) \subseteq DOMAIN g
    BY <1>3, <1>6
  <2> QED BY <1>6, <2>1, <2>2, PathKept
<1> HIDE DEF v
<1>9. TwoLists(g, l, n - 1, v, m, r, q)
  BY <1>3, <1>6, <1>7, <1>8 DEF TwoLists
<1> QED BY <1>4, <1>5, <1>7, <1>9 DEF v

-----------------------------------------------------------------------------
(* The order of the free list under the three changes. In between, a block  *)
(* may touch the next one: only the pairs in X may.                         *)

SortedBut(h, n, f, X) ==
  \A i, j \in 1 .. n : i < j =>
    /\ End(h, f[i]) <= h[f[j]].base
    /\ End(h, f[i]) = h[f[j]].base => <<f[i], f[j]>> \in X

(* Every pair of list f in X ends in d.                                     *)
OnlyInto(n, f, X, d) == \A i, j \in 1 .. n : <<f[i], f[j]>> \in X => f[j] = d

(* The blocks of a list are different, and none is empty.                   *)
Proper(h, n, f) ==
  /\ n \in Nat
  /\ \A i \in 1 .. n : h[f[i]].base \in Nat /\ h[f[i]].size \in Nat /\ h[f[i]].size > 0
  /\ \A i, j \in 1 .. n : f[i] = f[j] => i = j

(* What the order needs to know of a list follows from the tiling.          *)
LEMMA ListProper ==
  ASSUME NEW h, HeapType(h), Tiling(h), NEW l, NEW n, NEW p, Path(h, l, n, p)
  PROVE  Proper(h, n, p)
  BY PathFacts, TilingFacts DEF Proper

(* Where the elements of the longer list come from.                         *)
Comes(n, p, k, d, q) ==
  \A i \in 1 .. n + 1 :
    \/ i = k + 1 /\ q[i] = d
    \/ \E a \in 1 .. n : q[i] = p[a] /\ ((i <= k /\ a = i) \/ (i > k + 1 /\ a = i - 1))

(* Putting d behind place k shifts the elements after it by one place.      *)
LEMMA InsertedIs ==
  ASSUME NEW n \in Nat, NEW p, NEW k \in 0 .. n, NEW d, NEW q, q = Inserted(n, p, k, d)
  PROVE  Comes(n, p, k, d, q)
<1> SUFFICES ASSUME NEW i \in 1 .. n + 1
             PROVE  \/ i = k + 1 /\ q[i] = d
                    \/ \E a \in 1 .. n : q[i] = p[a] /\ ((i <= k /\ a = i) \/ (i > k + 1 /\ a = i - 1))
  BY DEF Comes
<1>1. q[i] = IF i <= k THEN p[i] ELSE IF i = k + 1 THEN d ELSE p[i - 1]
  <2>1. i \in 0 .. n + 2
    OBVIOUS
  <2> QED BY <2>1 DEF Inserted
<1>2. CASE i = k + 1
  BY <1>1, <1>2
<1>3. CASE i <= k
  <2>1. i \in 1 .. n /\ q[i] = p[i]
    BY <1>1, <1>3
  <2> QED BY <1>3, <2>1
<1>4. CASE i > k + 1
  <2>1. i - 1 \in 1 .. n /\ q[i] = p[i - 1]
    BY <1>1, <1>4
  <2> QED BY <1>4, <2>1
<1> QED BY <1>2, <1>3, <1>4

(* Where the elements of the shorter list come from.                        *)
LEMMA RemovedIs ==
  ASSUME NEW n \in Nat, NEW p, NEW k \in 0 .. n - 1, NEW q, q = Removed(n, p, k)
  PROVE  \A i \in 1 .. n - 1 :
           \E a \in 1 .. n : q[i] = p[a] /\ a # k + 1 /\ ((i <= k /\ a = i) \/ (i > k /\ a = i + 1))
<1> SUFFICES ASSUME NEW i \in 1 .. n - 1
             PROVE  \E a \in 1 .. n : /\ q[i] = p[a] /\ a # k + 1
                                      /\ (i <= k /\ a = i) \/ (i > k /\ a = i + 1)
  OBVIOUS
<1>1. q[i] = IF i <= k THEN p[i] ELSE p[i + 1]
  BY DEF Removed
<1>2. CASE i <= k
  <2>1. i \in 1 .. n /\ i # k + 1 /\ q[i] = p[i]
    BY <1>1, <1>2
  <2> QED BY <1>2, <2>1
<1>3. CASE i > k
  <2>1. i + 1 \in 1 .. n /\ i + 1 # k + 1 /\ q[i] = p[i + 1]
    BY <1>1, <1>3
  <2> QED BY <1>3, <2>1
<1> QED BY <1>2, <1>3

(* Sorted is SortedBut with no exception used.                              *)
LEMMA SortedWeaker ==
  ASSUME NEW h, NEW n, NEW f, Proper(h, n, f), Sorted(h, n, f), NEW X
  PROVE  SortedBut(h, n, f, X)
<1> SUFFICES ASSUME NEW i \in 1 .. n, NEW j \in 1 .. n, i < j
             PROVE  End(h, f[i]) <= h[f[j]].base /\ End(h, f[i]) # h[f[j]].base
  BY DEF SortedBut
<1>1. End(h, f[i]) < h[f[j]].base
  BY DEF Sorted, Below
<1>2. End(h, f[i]) \in Nat /\ h[f[j]].base \in Nat
  BY DEF Proper, End
<1> QED BY <1>1, <1>2

(* If no pair in X touches, the list is sorted with gaps.                   *)
LEMMA SortedStrict ==
  ASSUME NEW h, NEW n, NEW f, Proper(h, n, f), NEW X, SortedBut(h, n, f, X),
         \A i, j \in 1 .. n : <<f[i], f[j]>> \in X => End(h, f[i]) # h[f[j]].base
  PROVE  Sorted(h, n, f)
<1> SUFFICES ASSUME NEW i \in 1 .. n, NEW j \in 1 .. n, i < j PROVE End(h, f[i]) < h[f[j]].base
  BY DEF Sorted, Below
<1>1. End(h, f[i]) <= h[f[j]].base /\ End(h, f[i]) # h[f[j]].base
  BY Zenon DEF SortedBut
<1>2. End(h, f[i]) \in Nat /\ h[f[j]].base \in Nat
  BY DEF Proper, End
<1> QED BY <1>1, <1>2

(* The cut-off front of d goes before d and touches it.                     *)
LEMMA SortedSplit ==
  ASSUME NEW h, NEW n, NEW f, Proper(h, n, f), Sorted(h, n, f), NEW k \in 0 .. n - 1,
         NEW d, d = f[k + 1], NEW e, NEW c \in Nat, 0 < c, c < h[d].size, NEW g,
         g[e].base = h[d].base, g[e].size = c,
         g[d].base = h[d].base + c, g[d].size = h[d].size - c,
         \A i \in 1 .. n : f[i] # d => SamePages(h, g, f[i])
  PROVE  SortedBut(g, n + 1, Inserted(n, f, k, e), {<<e, d>>})
<1> DEFINE q == Inserted(n, f, k, e)
<1>0. q = Inserted(n, f, k, e)
  OBVIOUS
<1> HIDE DEF q
<1>1. /\ n \in Nat /\ k \in 0 .. n /\ k + 1 \in 1 .. n
      /\ \A i \in 1 .. n : h[f[i]].base \in Nat /\ h[f[i]].size \in Nat /\ h[f[i]].size > 0
      /\ \A i, j \in 1 .. n : f[i] = f[j] => i = j
  BY DEF Proper
<1>2. \A i \in 1 .. n + 1 :
        \/ i = k + 1 /\ q[i] = e
        \/ \E a \in 1 .. n : q[i] = f[a] /\ ((i <= k /\ a = i) \/ (i > k + 1 /\ a = i - 1))
  <2>1. Comes(n, f, k, e, q)
    BY <1>0, <1>1, InsertedIs
  <2> QED BY <2>1 DEF Comes
<1>3. ASSUME NEW a \in 1 .. n
      PROVE  /\ End(g, f[a]) = End(h, f[a]) /\ h[f[a]].base <= g[f[a]].base
             /\ End(h, f[a]) \in Nat /\ h[f[a]].base \in Nat /\ g[f[a]].base \in Nat
  <2>1. CASE f[a] = d
    BY <1>1, <2>1 DEF End
  <2>2. CASE f[a] # d
    BY <1>1, <2>2 DEF End, SamePages
  <2> QED BY <2>1, <2>2
<1>4. End(g, e) = g[d].base /\ g[d].base < End(h, d) /\ g[d].base \in Nat /\ End(h, d) \in Nat
  BY <1>1 DEF End
<1>5. \A a, b \in 1 .. n : a < b => End(h, f[a]) < h[f[b]].base
  BY DEF Sorted, Below
<1>6. ASSUME NEW i \in 1 .. n + 1, NEW j \in 1 .. n + 1, i < j
      PROVE  \/ End(g, q[i]) < g[q[j]].base /\ End(g, q[i]) \in Nat /\ g[q[j]].base \in Nat
             \/ q[i] = e /\ q[j] = d
  <2>1. CASE i = k + 1
    <3>1. PICK b \in 1 .. n : q[j] = f[b] /\ b = j - 1
      BY <1>1, <1>2, <1>6, <2>1
    <3>2. q[i] = e
      BY <1>1, <1>2, <2>1
    <3>3. CASE b = k + 1
      BY <3>1, <3>2, <3>3
    <3>4. CASE b # k + 1
      <4>1. k + 1 < b
        BY <1>1, <1>6, <2>1, <3>1, <3>4
      <4>2. End(h, d) < h[f[b]].base
        BY <1>1, <1>5, <4>1
      <4> QED BY <1>3, <1>4, <3>1, <3>2, <4>2
    <3> QED BY <3>3, <3>4
  <2>2. CASE j = k + 1
    <3>1. PICK a \in 1 .. n : q[i] = f[a] /\ a = i /\ i <= k
      BY <1>1, <1>2, <1>6, <2>2
    <3>2. q[j] = e
      BY <1>1, <1>2, <2>2
    <3>3. a < k + 1
      BY <1>1, <3>1
    <3>4. End(h, f[a]) < h[d].base
      BY <1>1, <1>5, <3>3
    <3> QED BY <1>1, <1>3, <3>1, <3>2, <3>4
  <2>3. CASE i # k + 1 /\ j # k + 1
    <3>1. PICK a \in 1 .. n : q[i] = f[a] /\ ((i <= k /\ a = i) \/ (i > k + 1 /\ a = i - 1))
      BY <1>2, <2>3
    <3>2. PICK b \in 1 .. n : q[j] = f[b] /\ ((j <= k /\ b = j) \/ (j > k + 1 /\ b = j - 1))
      BY <1>2, <2>3
    <3>3. a < b
      BY <1>1, <1>6, <3>1, <3>2
    <3>4. End(h, f[a]) < h[f[b]].base
      BY <1>5, <3>3
    <3> QED BY <1>3, <3>1, <3>2, <3>4
  <2> QED BY <2>1, <2>2, <2>3
<1>7. ASSUME NEW i \in 1 .. n + 1, NEW j \in 1 .. n + 1, i < j
      PROVE  /\ End(g, q[i]) <= g[q[j]].base
             /\ End(g, q[i]) = g[q[j]].base => <<q[i], q[j]>> \in {<<e, d>>}
  BY <1>4, <1>6, <1>7
<1> QED BY <1>7 DEF SortedBut, q

(* Once the front of d is taken away, nothing touches d any more.           *)
LEMMA SortedTail ==
  ASSUME NEW h, NEW n, NEW f, Proper(h, n, f), NEW d, NEW X, SortedBut(h, n, f, X),
         OnlyInto(n, f, X, d),
         NEW c \in Nat, 0 < c, c < h[d].size, NEW g,
         g[d].base = h[d].base + c, g[d].size = h[d].size - c,
         \A i \in 1 .. n : f[i] # d => SamePages(h, g, f[i])
  PROVE  Sorted(g, n, f)
<1>1. \A i \in 1 .. n : h[f[i]].base \in Nat /\ h[f[i]].size \in Nat
  BY DEF Proper
<1>2. ASSUME NEW a \in 1 .. n
      PROVE  /\ End(g, f[a]) = End(h, f[a]) /\ h[f[a]].base <= g[f[a]].base
             /\ End(h, f[a]) \in Nat /\ h[f[a]].base \in Nat /\ g[f[a]].base \in Nat
             /\ f[a] = d => h[f[a]].base < g[f[a]].base
  <2>1. CASE f[a] = d
    BY <1>1, <2>1 DEF End
  <2>2. CASE f[a] # d
    BY <1>1, <2>2 DEF End, SamePages
  <2> QED BY <2>1, <2>2
<1>3. ASSUME NEW i \in 1 .. n, NEW j \in 1 .. n, i < j PROVE Below(g, f[i], f[j])
  <2>1. /\ End(h, f[i]) <= h[f[j]].base
        /\ End(h, f[i]) = h[f[j]].base => f[j] = d
    BY <1>3, Zenon DEF SortedBut, OnlyInto
  <2> QED BY <1>2, <2>1 DEF Below
<1> QED BY <1>3 DEF Sorted

(* Nor when d itself is taken out.                                          *)
LEMMA SortedRemove ==
  ASSUME NEW h, NEW n, NEW f, Proper(h, n, f), NEW k \in 0 .. n - 1, NEW X, SortedBut(h, n, f, X),
         OnlyInto(n, f, X, f[k + 1]),
         NEW g, \A i \in 1 .. n : SamePages(h, g, f[i])
  PROVE  Sorted(g, n - 1, Removed(n, f, k))
<1> DEFINE q == Removed(n, f, k)
<1>0. q = Removed(n, f, k)
  OBVIOUS
<1> HIDE DEF q
<1>1. /\ n \in Nat /\ k + 1 \in 1 .. n
      /\ \A i \in 1 .. n : h[f[i]].base \in Nat /\ h[f[i]].size \in Nat
      /\ \A i, j \in 1 .. n : f[i] = f[j] => i = j
  BY DEF Proper
<1>2. \A i \in 1 .. n - 1 :
        \E a \in 1 .. n : q[i] = f[a] /\ a # k + 1 /\ ((i <= k /\ a = i) \/ (i > k /\ a = i + 1))
  BY <1>0, <1>1, RemovedIs
<1>3. ASSUME NEW i \in 1 .. n - 1, NEW j \in 1 .. n - 1, i < j PROVE Below(g, q[i], q[j])
  <2>1. PICK a \in 1 .. n : q[i] = f[a] /\ a # k + 1 /\ ((i <= k /\ a = i) \/ (i > k /\ a = i + 1))
    BY <1>2
  <2>2. PICK b \in 1 .. n : q[j] = f[b] /\ b # k + 1 /\ ((j <= k /\ b = j) \/ (j > k /\ b = j + 1))
    BY <1>2
  <2>3. a < b
    BY <1>1, <1>3, <2>1, <2>2
  <2>4. End(h, f[a]) <= h[f[b]].base /\ End(h, f[a]) # h[f[b]].base
    BY <1>1, <2>2, <2>3, Zenon DEF SortedBut, OnlyInto
  <2>5. h[f[a]].base \in Nat /\ h[f[a]].size \in Nat /\ h[f[b]].base \in Nat
    BY <1>1
  <2> QED BY <2>1, <2>2, <2>4, <2>5 DEF Below, End, SamePages
<1> QED BY <1>3 DEF Sorted, q

(* Place k of the list is where block d belongs.                            *)
Place(h, n, f, k, d) ==
  /\ h[d].base \in Nat /\ h[d].size \in Nat /\ h[d].size > 0
  /\ \A i \in 1 .. n : Apart(h, d, f[i])
  /\ \A i \in 1 .. k : h[f[i]].base < h[d].base
  /\ k < n => h[f[k + 1]].base >= h[d].base

(* A freed block may touch the block before and the block behind it.        *)
LEMMA SortedInsert ==
  ASSUME NEW h, NEW n, NEW f, Proper(h, n, f), Sorted(h, n, f), NEW k \in 0 .. n, NEW d,
         Place(h, n, f, k, d),
         NEW g, SamePages(h, g, d), \A i \in 1 .. n : SamePages(h, g, f[i])
  PROVE  SortedBut(g, n + 1, Inserted(n, f, k, d), {<<f[k], d>>, <<d, f[k + 1]>>})
<1> DEFINE q == Inserted(n, f, k, d)
<1>0. q = Inserted(n, f, k, d)
  OBVIOUS
<1> HIDE DEF q
<1>1. /\ n \in Nat
      /\ \A i \in 1 .. n : h[f[i]].base \in Nat /\ h[f[i]].size \in Nat /\ h[f[i]].size > 0
  BY DEF Proper
<1>2. \A i \in 1 .. n + 1 :
        \/ i = k + 1 /\ q[i] = d
        \/ \E a \in 1 .. n : q[i] = f[a] /\ ((i <= k /\ a = i) \/ (i > k + 1 /\ a = i - 1))
  <2>1. n \in Nat /\ k \in 0 .. n
    BY <1>1
  <2>2. Comes(n, f, k, d, q)
    BY <1>0, <2>1, InsertedIs, Zenon
  <2> QED BY <2>2 DEF Comes
<1>3. /\ End(g, d) = End(h, d) /\ g[d].base = h[d].base /\ End(h, d) \in Nat
      /\ \A a \in 1 .. n : /\ End(g, f[a]) = End(h, f[a]) /\ g[f[a]].base = h[f[a]].base
                           /\ End(h, f[a]) \in Nat /\ h[f[a]].base < End(h, f[a])
  <2>1. End(g, d) = End(h, d) /\ g[d].base = h[d].base /\ End(h, d) \in Nat
    BY DEF End, SamePages, Place
  <2>2. ASSUME NEW a \in 1 .. n
        PROVE  /\ End(g, f[a]) = End(h, f[a]) /\ g[f[a]].base = h[f[a]].base
               /\ End(h, f[a]) \in Nat /\ h[f[a]].base < End(h, f[a])
    <3>1. SamePages(h, g, f[a]) /\ h[f[a]].base \in Nat /\ h[f[a]].size \in Nat /\ h[f[a]].size > 0
      BY <1>1
    <3> QED BY <3>1 DEF End, SamePages
  <2> QED BY <2>1, <2>2
<1>4. \A a, b \in 1 .. n : a < b => End(h, f[a]) < h[f[b]].base
  BY DEF Sorted, Below
<1>5. ASSUME NEW i \in 1 .. n + 1, NEW j \in 1 .. n + 1, i < j
      PROVE  /\ End(g, q[i]) <= g[q[j]].base
             /\ End(g, q[i]) = g[q[j]].base => <<q[i], q[j]>> \in {<<f[k], d>>, <<d, f[k + 1]>>}
  <2>1. CASE i = k + 1
    <3>1. PICK b \in 1 .. n : q[j] = f[b] /\ b = j - 1
      BY <1>1, <1>2, <1>5, <2>1
    <3>2. q[i] = d /\ k + 1 <= b /\ k < n /\ k + 1 \in 1 .. n
      BY <1>1, <1>2, <1>5, <2>1, <3>1
    <3>3. h[f[k + 1]].base \in Nat /\ h[f[k + 1]].base >= h[d].base /\ h[f[k + 1]].base < End(h, f[k + 1])
          /\ End(h, f[k + 1]) \in Nat
      BY <1>1, <1>3, <3>2 DEF Place
    <3>4. End(h, d) <= h[f[k + 1]].base
      BY <1>1, <1>3, <3>2, <3>3 DEF Apart, Place
    <3>5. CASE b = k + 1
      BY <1>3, <3>1, <3>2, <3>4, <3>5 DEF Place
    <3>6. CASE b # k + 1
      <4>1. k + 1 < b
        BY <1>1, <3>2, <3>6
      <4>2. End(h, f[k + 1]) < h[f[b]].base /\ h[f[b]].base \in Nat
        BY <1>1, <1>4, <3>2, <4>1
      <4>3. End(h, d) < h[f[b]].base
        BY <1>3, <3>3, <3>4, <4>2
      <4> QED BY <1>3, <3>1, <3>2, <4>2, <4>3
    <3> QED BY <3>5, <3>6
  <2>2. CASE j = k + 1
    <3>1. PICK a \in 1 .. n : q[i] = f[a] /\ a = i /\ i <= k
      BY <1>1, <1>2, <1>5, <2>2
    <3>2. q[j] = d /\ a \in 1 .. k /\ k \in 1 .. k /\ k \in 1 .. n
      BY <1>1, <1>2, <2>2, <3>1
    <3>3. /\ h[f[a]].base < h[d].base /\ h[f[k]].base < h[d].base
          /\ h[f[a]].base \in Nat /\ h[f[k]].base \in Nat
      BY <1>1, <3>2 DEF Place
    <3>4. End(h, f[a]) <= h[d].base
      BY <1>1, <1>3, <3>3 DEF Apart, End, Place
    <3>5. CASE a = k
      BY <1>3, <3>1, <3>2, <3>4, <3>5 DEF Place
    <3>6. CASE a # k
      <4>1. a < k
        BY <1>1, <3>2, <3>6
      <4>2. End(h, f[a]) < h[f[k]].base
        BY <1>4, <3>2, <4>1
      <4>3. End(h, f[a]) < h[d].base
        BY <1>3, <3>3, <4>2 DEF Place
      <4> QED BY <1>3, <3>1, <3>2, <4>3 DEF Place
    <3> QED BY <3>5, <3>6
  <2>3. CASE i # k + 1 /\ j # k + 1
    <3>1. PICK a \in 1 .. n : q[i] = f[a] /\ ((i <= k /\ a = i) \/ (i > k + 1 /\ a = i - 1))
      BY <1>2, <2>3
    <3>2. PICK b \in 1 .. n : q[j] = f[b] /\ ((j <= k /\ b = j) \/ (j > k + 1 /\ b = j - 1))
      BY <1>2, <2>3
    <3>3. a < b
      BY <1>1, <1>5, <3>1, <3>2
    <3>4. End(h, f[a]) < h[f[b]].base /\ h[f[b]].base \in Nat
      BY <1>1, <1>4, <3>3
    <3> QED BY <1>3, <3>1, <3>2, <3>4
  <2> QED BY <2>1, <2>2, <2>3
<1> QED BY <1>5 DEF SortedBut, q

(* Joining two neighbours settles the pair that touched.                    *)
LEMMA SortedJoin ==
  ASSUME NEW h, NEW n, NEW f, Proper(h, n, f), NEW k \in 1 .. n - 1,
         NEW d, d = f[k], NEW e, e = f[k + 1], Touches(h, d, e),
         NEW X, NEW Y, SortedBut(h, n, f, X),
         \A i, j \in 1 .. n : <<f[i], f[j]>> \in X => f[i] # e /\ (<<f[i], f[j]>> \in Y \/ f[j] = e),
         NEW g, g[d].base = h[d].base, g[d].size = h[d].size + h[e].size,
         \A i \in 1 .. n : f[i] # d /\ f[i] # e => SamePages(h, g, f[i])
  PROVE  SortedBut(g, n - 1, Removed(n, f, k), Y)
<1> DEFINE q == Removed(n, f, k)
<1>0. q = Removed(n, f, k)
  OBVIOUS
<1> HIDE DEF q
<1>1. /\ n \in Nat /\ k \in 1 .. n /\ k + 1 \in 1 .. n /\ k \in 0 .. n - 1
      /\ \A i \in 1 .. n : h[f[i]].base \in Nat /\ h[f[i]].size \in Nat
      /\ \A i, j \in 1 .. n : f[i] = f[j] => i = j
  BY DEF Proper
<1>2. \A i \in 1 .. n - 1 :
        \E a \in 1 .. n : q[i] = f[a] /\ a # k + 1 /\ ((i <= k /\ a = i) \/ (i > k /\ a = i + 1))
  BY <1>0, <1>1, RemovedIs
<1>3. End(g, d) = End(h, e)
  BY <1>1 DEF Touches, End
<1>4. ASSUME NEW a \in 1 .. n, a # k + 1
      PROVE  /\ g[f[a]].base = h[f[a]].base /\ f[a] # e
             /\ a # k => End(g, f[a]) = End(h, f[a])
  BY <1>1, <1>4 DEF SamePages, End
<1>5. ASSUME NEW i \in 1 .. n - 1, NEW j \in 1 .. n - 1, i < j
      PROVE  /\ End(g, q[i]) <= g[q[j]].base
             /\ End(g, q[i]) = g[q[j]].base => <<q[i], q[j]>> \in Y
  <2>1. PICK a \in 1 .. n : q[i] = f[a] /\ a # k + 1 /\ ((i <= k /\ a = i) \/ (i > k /\ a = i + 1))
    BY <1>2
  <2>2. PICK b \in 1 .. n : q[j] = f[b] /\ b # k + 1 /\ ((j <= k /\ b = j) \/ (j > k /\ b = j + 1))
    BY <1>2
  <2>3. a < b /\ (a = k => k + 1 < b)
    BY <1>1, <1>5, <2>1, <2>2
  <2>4. CASE a = k
    <3>1. /\ End(h, e) <= h[f[b]].base
          /\ End(h, e) = h[f[b]].base => <<e, f[b]>> \in X
      BY <1>1, <2>3, <2>4 DEF SortedBut
    <3>2. <<e, f[b]>> \notin X
      BY <1>1
    <3> QED BY <1>3, <1>4, <2>1, <2>2, <2>4, <3>1, <3>2
  <2>5. CASE a # k
    <3>1. /\ End(h, f[a]) <= h[f[b]].base
          /\ End(h, f[a]) = h[f[b]].base => <<f[a], f[b]>> \in X
      BY <2>3 DEF SortedBut
    <3>2. <<f[a], f[b]>> \in X => <<f[a], f[b]>> \in Y
      BY <1>4, <2>2
    <3> QED BY <1>4, <2>1, <2>2, <2>5, <3>1, <3>2
  <2> QED BY <2>4, <2>5
<1> QED BY <1>5 DEF SortedBut, q

-----------------------------------------------------------------------------
(* dmamem_alloc() after its search.                                         *)

Sound(h, nf, f, nu, u) ==
  HeapType(h) /\ Tiling(h) /\ TwoLists(h, FREE, nf, f, USED, nu, u) /\ Sorted(h, nf, f)

(* Block d is behind place k of the free list, and touches at most the      *)
(* block before it.                                                         *)
Ready(h, nf, f, nu, u, k, d, X) ==
  /\ HeapType(h) /\ Tiling(h) /\ TwoLists(h, FREE, nf, f, USED, nu, u)
  /\ k \in 0 .. nf - 1 /\ d = f[k + 1]
  /\ SortedBut(h, nf, f, X) /\ OnlyInto(nf, f, X, d)

(* One used block more, of size s from base b on; the others are unchanged. *)
Grown(h, nu, u, g, b, s) ==
  \E n1, f1, n2, u2, x :
    /\ Sound(g, n1, f1, n2, u2)
    /\ x \notin Members(nu, u) /\ Members(n2, u2) = Members(nu, u) \cup {x}
    /\ g[x].base = b /\ g[x].size = s
    /\ \A y \in Members(nu, u) : SamePages(h, g, y)

(* The two lists in the other order.                                        *)
LEMMA Swap ==
  ASSUME NEW h, NEW l, NEW n, NEW p, NEW m, NEW r, NEW q, TwoLists(h, l, n, p, m, r, q)
  PROVE  TwoLists(h, m, r, q, l, n, p)
  BY DEF TwoLists

(* The free list is proper.                                                 *)
LEMMA FreeListProper ==
  ASSUME NEW h, HeapType(h), Tiling(h), NEW nf, NEW f, NEW nu, NEW u,
         TwoLists(h, FREE, nf, f, USED, nu, u)
  PROVE  Proper(h, nf, f)
  BY ListProper DEF TwoLists

(* What the code does for an aligned base inside the block is a Split.      *)
LEMMA CutFrontIsSplit ==
  ASSUME NEW h, NEW l, NEW d, NEW b \in Nat, h[d].base \in Nat
  PROVE  CutFront(h, l, d, b) = Split(h, d, b - h[d].base, l, NewId(h), d)
<1>1. b = h[d].base + (b - h[d].base)
  OBVIOUS
<1>2. [h EXCEPT ![d].base = b, ![d].size = @ - (b - h[d].base), ![l].next = NewId(h)]
        = [h EXCEPT ![d].base = h[d].base + (b - h[d].base), ![d].size = @ - (b - h[d].base),
                    ![l].next = NewId(h)]
  BY <1>1, Zenon
<1> QED BY <1>2, Zenon DEF CutFront, Split

FrontOf(h, nf, f, nu, u, k, d, b, e, g) ==
  /\ Ready(g, nf + 1, Inserted(nf, f, k, e), nu, u, k + 1, d, {<<e, d>>})
  /\ Inserted(nf, f, k, e)[k + 1] = e
  /\ g[d].base = b /\ End(g, d) = End(h, d)
  /\ \A y \in Members(nu, u) : SamePages(h, g, y)

(* After it the aligned block waits behind the new front.                   *)
LEMMA FrontReady ==
  ASSUME NEW h, NEW nf, NEW f, NEW nu, NEW u, Sound(h, nf, f, nu, u), NEW k \in 0 .. nf - 1,
         NEW d, d = f[k + 1], NEW b \in Nat, h[d].base < b, b < End(h, d)
  PROVE  FrontOf(h, nf, f, nu, u, k, d, b, NewId(h), CutFront(h, f[k], d, b))
<1> DEFINE g == CutFront(h, f[k], d, b)
           e == NewId(h)
           c == b - h[d].base
           w == Inserted(nf, f, k, e)
<1>0. g = CutFront(h, f[k], d, b) /\ e = NewId(h)
  OBVIOUS
<1> HIDE DEF g, e
<1>1. HeapType(h) /\ Tiling(h) /\ TwoLists(h, FREE, nf, f, USED, nu, u) /\ Sorted(h, nf, f)
  BY DEF Sound
<1>2. TwoLists(h, USED, nu, u, FREE, nf, f) /\ Proper(h, nf, f)
  BY <1>1, Swap, FreeListProper
<1>3. /\ nf \in Nat /\ k \in 0 .. nf /\ k + 1 \in 1 .. nf
      /\ \A i \in 0 .. nf : f[i] \in DOMAIN h
      /\ \A i \in 1 .. nf : f[i] \in Ids /\ f[i] \in Blocks(h) /\ f[i] \in Members(nf, f)
  BY <1>1, TwoListsFacts
<1>4. /\ d \in Blocks(h) /\ d \in DOMAIN h /\ d \in Ids /\ f[k] \in DOMAIN h /\ d \in Members(nf, f)
      /\ h[d].base \in Nat /\ h[d].size \in Nat
  BY <1>1, <1>3, NodeIs DEF Blocks
<1>5. c \in Nat /\ 0 < c /\ c < h[d].size /\ h[d].base + c = b /\ c <= h[d].size
  BY <1>4 DEF End
<1> HIDE DEF c
<1>6. e \in Ids /\ e \notin DOMAIN h
  BY <1>0, <1>1, NewIdIs
<1>7. SplitOf(h, d, c, f[k], e, f[k + 1], g)
  <2>1. g = Split(h, d, c, f[k], e, d)
    BY <1>0, <1>4, CutFrontIsSplit DEF c
  <2>2. d \in Ids \cup {NIL}
    BY <1>4
  <2>3. SplitOf(h, d, c, f[k], e, d, Split(h, d, c, f[k], e, d))
    BY <1>1, <1>4, <1>5, <1>6, <2>2, SplitIs
  <2> QED BY <2>1, <2>3
<1>8. /\ HeapType(g) /\ Tiling(g)
      /\ TwoLists(g, USED, nu, u, FREE, nf + 1, w)
      /\ Members(nf + 1, w) = Members(nf, f) \cup {e}
      /\ g[e].base = h[d].base /\ g[e].size = c
      /\ g[d].base = h[d].base + c /\ g[d].size = h[d].size - c
      /\ \A x \in Blocks(h) : x # d => SamePages(h, g, x)
  BY <1>1, <1>2, <1>3, <1>4, <1>5, <1>6, <1>7, SplitLists
<1>9. TwoLists(g, FREE, nf + 1, w, USED, nu, u)
  BY <1>8, Swap
<1>10. SortedBut(g, nf + 1, w, {<<e, d>>})
  <2>1. \A i \in 1 .. nf : f[i] # d => SamePages(h, g, f[i])
    BY <1>3, <1>8
  <2> QED BY <1>1, <1>2, <1>5, <1>8, <2>1, SortedSplit, Zenon
<1>11. w[k + 1] = e /\ w[(k + 1) + 1] = d /\ k + 1 \in 0 .. (nf + 1) - 1
  <2>1. k + 1 \in 0 .. nf + 2 /\ k + 2 \in 0 .. nf + 2 /\ (k + 2) - 1 = k + 1 /\ (k + 1) + 1 = k + 2
        /\ ~(k + 1 <= k) /\ ~(k + 2 <= k) /\ k + 2 # k + 1 /\ k + 1 \in 0 .. (nf + 1) - 1
    BY <1>3
  <2> QED BY <2>1 DEF Inserted
<1> HIDE DEF w
<1>12. OnlyInto(nf + 1, w, {<<e, d>>}, d)
  BY DEF OnlyInto
<1>13. Ready(g, nf + 1, w, nu, u, k + 1, d, {<<e, d>>})
  BY <1>8, <1>9, <1>10, <1>11, <1>12 DEF Ready
<1>14. g[d].base = b /\ End(g, d) = End(h, d)
  BY <1>4, <1>5, <1>8 DEF End
<1>15. \A y \in Members(nu, u) : SamePages(h, g, y)
  <2>1. \A y \in Members(nu, u) : y \in Blocks(h) /\ y # d
    BY <1>1, <1>4 DEF TwoLists
  <2> QED BY <1>8, <2>1
<1> QED BY <1>0, <1>11, <1>13, <1>14, <1>15 DEF w, FrontOf

(* The block is larger than needed: it keeps the tail.                      *)
LEMMA TailGrown ==
  ASSUME NEW h, NEW nf, NEW f, NEW nu, NEW u, NEW k, NEW d, NEW X, Ready(h, nf, f, nu, u, k, d, X),
         NEW c \in Nat, 0 < c, c < h[d].size, NEW g,
         g = Split(h, d, c, USED, NewId(h), h[USED].next)
  PROVE  Grown(h, nu, u, g, h[d].base, c)
<1>0. PICK z : z = 0
  OBVIOUS
<1> DEFINE e == NewId(h)
           w == Inserted(nu, u, z, e)
<1>1. /\ HeapType(h) /\ Tiling(h) /\ TwoLists(h, FREE, nf, f, USED, nu, u)
      /\ k \in 0 .. nf - 1 /\ d = f[k + 1]
      /\ SortedBut(h, nf, f, X) /\ OnlyInto(nf, f, X, d)
  BY DEF Ready
<1>2. Proper(h, nf, f) /\ Path(h, USED, nu, u)
  BY <1>1, FreeListProper DEF TwoLists
<1>3. /\ nf \in Nat /\ nu \in Nat /\ k + 1 \in 1 .. nf /\ z \in 0 .. nu /\ z + 1 \in 1 .. nu + 1
      /\ \A i \in 0 .. nu : u[i] \in DOMAIN h /\ h[u[i]].next = u[i + 1]
      /\ \A i \in 1 .. nu + 1 : u[i] \in Ids \cup {NIL}
      /\ \A i \in 1 .. nf : f[i] \in Ids /\ f[i] \in Blocks(h) /\ f[i] \in Members(nf, f)
  BY <1>0, <1>1, TwoListsFacts
<1>4. /\ d \in Blocks(h) /\ d \in DOMAIN h /\ d \in Members(nf, f)
      /\ h[d].base \in Nat /\ h[d].size \in Nat /\ c <= h[d].size
      /\ u[z] = USED /\ h[USED].next = u[z + 1] /\ u[z] \in DOMAIN h /\ u[z + 1] \in Ids \cup {NIL}
  BY <1>0, <1>1, <1>2, <1>3, NodeIs, PathFacts DEF Blocks
<1>5. e \in Ids /\ e \notin DOMAIN h
  BY <1>1, NewIdIs
<1>6. g = Split(h, d, c, u[z], e, u[z + 1])
  BY <1>4
<1> HIDE DEF e
<1>7. SplitOf(h, d, c, u[z], e, u[z + 1], g)
  BY <1>1, <1>4, <1>5, <1>6, SplitIs
<1>8. /\ HeapType(g) /\ Tiling(g)
      /\ TwoLists(g, FREE, nf, f, USED, nu + 1, w)
      /\ Members(nu + 1, w) = Members(nu, u) \cup {e}
      /\ g[e].base = h[d].base /\ g[e].size = c
      /\ g[d].base = h[d].base + c /\ g[d].size = h[d].size - c
      /\ \A x \in Blocks(h) : x # d => SamePages(h, g, x)
  <2>1. HeapType(h) /\ Tiling(h) /\ TwoLists(h, FREE, nf, f, USED, nu, u)
    BY <1>1
  <2>2. z \in 0 .. nu /\ d \in Blocks(h)
    BY <1>3, <1>4
  <2> QED BY <1>5, <1>7, <2>1, <2>2, SplitLists
<1>9. Sorted(g, nf, f)
  <2>1. \A i \in 1 .. nf : f[i] # d => SamePages(h, g, f[i])
    BY <1>3, <1>8
  <2>2. g[d].base = h[d].base + c /\ g[d].size = h[d].size - c
    BY <1>8
  <2>3. SortedBut(h, nf, f, X) /\ OnlyInto(nf, f, X, d) /\ Proper(h, nf, f)
    BY <1>1, <1>2
  <2> QED BY <2>1, <2>2, <2>3, SortedTail
<1> HIDE DEF w
<1>10. Sound(g, nf, f, nu + 1, w)
  BY <1>8, <1>9 DEF Sound
<1>11. \A y \in Members(nu, u) : y \in Blocks(h) /\ y # d
  BY <1>1, <1>4 DEF TwoLists
<1>12. \A y \in Members(nu, u) : SamePages(h, g, y)
  BY <1>8, <1>11
<1>13. e \notin Members(nu, u)
  BY <1>5, <1>11 DEF Blocks
<1> QED BY <1>8, <1>10, <1>12, <1>13 DEF Grown

(* The block fits perfectly: its descriptor moves.                          *)
LEMMA FitGrown ==
  ASSUME NEW h, NEW nf, NEW f, NEW nu, NEW u, NEW k, NEW d, NEW X, Ready(h, nf, f, nu, u, k, d, X),
         NEW g, g = Move(h, f[k], d, USED)
  PROVE  Grown(h, nu, u, g, h[d].base, h[d].size)
<1>0. PICK z : z = 0
  OBVIOUS
<1> DEFINE v == Removed(nf, f, k)
           w == Inserted(nu, u, z, d)
<1>1. /\ HeapType(h) /\ Tiling(h) /\ TwoLists(h, FREE, nf, f, USED, nu, u)
      /\ k \in 0 .. nf - 1 /\ d = f[k + 1]
      /\ SortedBut(h, nf, f, X) /\ OnlyInto(nf, f, X, d)
  BY DEF Ready
<1>2. Proper(h, nf, f) /\ Path(h, USED, nu, u)
  BY <1>1, FreeListProper DEF TwoLists
<1>3. /\ nf \in Nat /\ nu \in Nat /\ k + 1 \in 1 .. nf /\ z \in 0 .. nu /\ k \in 0 .. nf /\ k + 1 \in 0 .. nf
      /\ k # k + 1
      /\ \A i \in 0 .. nf : f[i] \in DOMAIN h
      /\ \A i \in 0 .. nu : u[i] \in DOMAIN h
      /\ \A i \in 1 .. nf : f[i] \in Ids /\ f[i] \in Blocks(h) /\ f[i] \in Members(nf, f) /\ f[i] \in DOMAIN h
      /\ \A i, j \in 0 .. nf : f[i] = f[j] => i = j
      /\ \A i \in 0 .. nf, j \in 0 .. nu : f[i] # u[j]
  BY <1>0, <1>1, TwoListsFacts
<1>4. u[z] = USED
  BY <1>0, <1>2, PathFacts
<1>5. MoveOf(h, f[k], d, u[z], g)
  <2>1. f[k] # u[z] /\ f[k] # d /\ u[z] # d /\ f[k] \in DOMAIN h /\ d \in Ids /\ d \in DOMAIN h
          /\ u[z] \in DOMAIN h
    BY <1>1, <1>3
  <2>2. MoveOf(h, f[k], d, u[z], Move(h, f[k], d, u[z]))
    BY <1>1, <2>1, MoveIs
  <2> QED BY <1>4, <2>2
<1>6. /\ HeapType(g) /\ Tiling(g)
      /\ TwoLists(g, FREE, nf - 1, v, USED, nu + 1, w)
      /\ Members(nu + 1, w) = Members(nu, u) \cup {d}
      /\ \A x \in DOMAIN h : SamePages(h, g, x)
  <2>1. HeapType(h) /\ Tiling(h) /\ TwoLists(h, FREE, nf, f, USED, nu, u)
    BY <1>1
  <2>2. z \in 0 .. nu /\ k \in 0 .. nf - 1 /\ d = f[k + 1]
    BY <1>1, <1>3
  <2> QED BY <1>5, <2>1, <2>2, MoveLists
<1>7. Sorted(g, nf - 1, v)
  <2>1. \A i \in 1 .. nf : SamePages(h, g, f[i])
    BY <1>3, <1>6
  <2> QED BY <1>1, <1>2, <2>1, SortedRemove
<1> HIDE DEF v, w
<1>8. Sound(g, nf - 1, v, nu + 1, w)
  BY <1>6, <1>7 DEF Sound
<1>9. d \notin Members(nu, u) /\ d \in DOMAIN h /\ Members(nu, u) \subseteq DOMAIN h
  BY <1>1, <1>3 DEF TwoLists, Blocks
<1>10. g[d].base = h[d].base /\ g[d].size = h[d].size /\ \A y \in Members(nu, u) : SamePages(h, g, y)
  BY <1>6, <1>9 DEF SamePages
<1> QED BY <1>6, <1>8, <1>9, <1>10 DEF Grown

CarveAs(h, l, d, b, s, tail) ==
  LET cut == b # h[d].base
      h1  == IF cut THEN CutFront(h, l, d, b) ELSE h
      pdm == IF cut THEN NewId(h) ELSE l
      ndm == NewId(h1)
  IN  IF tail
      THEN Split(h1, d, s, USED, ndm, h1[USED].next)
      ELSE Move(h1, pdm, d, USED)

(* Carve in terms of the three changes.                                     *)
LEMMA CarveIs ==
  ASSUME NEW h, NEW c
  PROVE  Carve(h, c) = CarveAs(h, c.pdm, c.dm, c.abase, c.count, c.ndm)
  BY Zenon DEF Carve, CarveAs, Move, Split

(* The lists after dmamem_alloc() has changed them, in all four cases.      *)
LEMMA CarveGrown ==
  ASSUME NEW h, NEW nf, NEW f, NEW nu, NEW u, Sound(h, nf, f, nu, u), NEW k \in 0 .. nf - 1,
         NEW d, d = f[k + 1], NEW b \in Nat, NEW s \in Nat, s > 0, h[d].base <= b, b + s <= End(h, d),
         NEW c, c.pdm = f[k], c.dm = d, c.abase = b, c.count = s,
         c.ndm = (b - h[d].base + s < h[d].size)
  PROVE  Grown(h, nu, u, Carve(h, c), b, s)
<1> DEFINE cut == b # h[d].base
           h1  == IF cut THEN CutFront(h, f[k], d, b) ELSE h
           pdm == IF cut THEN NewId(h) ELSE f[k]
           g   == Carve(h, c)
<1>1. g = CarveAs(h, f[k], d, b, s, b - h[d].base + s < h[d].size)
  BY CarveIs, Zenon
<1>2. HeapType(h) /\ Tiling(h) /\ TwoLists(h, FREE, nf, f, USED, nu, u) /\ Sorted(h, nf, f)
  BY DEF Sound
<1>3. h[d].base \in Nat /\ h[d].size \in Nat
  <2>1. k + 1 \in 1 .. nf /\ d \in DOMAIN h
    BY <1>2, TwoListsFacts
  <2> QED BY <1>2, <2>1, NodeIs
<1> HIDE DEF g
<1>4. \E n1, f1, k1, X :
        /\ Ready(h1, n1, f1, nu, u, k1, d, X) /\ f1[k1] = pdm
        /\ h1[d].base = b /\ End(h1, d) = End(h, d)
        /\ \A y \in Members(nu, u) : SamePages(h, h1, y)
  <2>1. CASE cut
    <3>1. h[d].base < b /\ b < End(h, d) /\ h1 = CutFront(h, f[k], d, b)
      BY <1>3, <2>1 DEF End
    <3>2. pdm = NewId(h)
      BY <2>1
    <3> HIDE DEF h1, pdm
    <3>3. FrontOf(h, nf, f, nu, u, k, d, b, NewId(h), h1)
      BY <3>1, FrontReady
    <3> DEFINE w == Inserted(nf, f, k, NewId(h))
    <3>4. /\ Ready(h1, nf + 1, w, nu, u, k + 1, d, {<<NewId(h), d>>}) /\ w[k + 1] = pdm
          /\ h1[d].base = b /\ End(h1, d) = End(h, d)
          /\ \A y \in Members(nu, u) : SamePages(h, h1, y)
      BY <3>2, <3>3 DEF FrontOf
    <3> HIDE DEF w
    <3> QED BY <3>4
  <2>2. CASE ~cut
    <3>1. h1 = h /\ pdm = f[k] /\ h[d].base = b
      BY <2>2
    <3>2. SortedBut(h, nf, f, {})
      BY <1>2, FreeListProper, SortedWeaker
    <3>3. Ready(h, nf, f, nu, u, k, d, {})
      BY <1>2, <3>2 DEF Ready, OnlyInto
    <3> HIDE DEF h1
    <3> QED BY <3>1, <3>3 DEF SamePages
  <2> QED BY <2>1, <2>2
<1> HIDE DEF h1, pdm
<1>5. PICK n1, f1, k1, X :
        /\ Ready(h1, n1, f1, nu, u, k1, d, X) /\ f1[k1] = pdm
        /\ h1[d].base = b /\ End(h1, d) = End(h, d)
        /\ \A y \in Members(nu, u) : SamePages(h, h1, y)
  BY <1>4
<1>6. h1[d].size \in Nat
  <2>1. HeapType(h1) /\ TwoLists(h1, FREE, n1, f1, USED, nu, u) /\ k1 \in 0 .. n1 - 1 /\ d = f1[k1 + 1]
    BY <1>5 DEF Ready
  <2>2. n1 \in Nat /\ \A i \in 1 .. n1 : f1[i] \in DOMAIN h1
    BY <2>1, TwoListsFacts
  <2>3. k1 + 1 \in 1 .. n1
    BY <2>1, <2>2
  <2> QED BY <2>1, <2>2, <2>3, NodeIs
<1>7. Grown(h1, nu, u, g, b, s)
  <2>1. CASE b - h[d].base + s < h[d].size
    <3>1. g = Split(h1, d, s, USED, NewId(h1), h1[USED].next)
      BY <1>1, <2>1 DEF CarveAs, h1
    <3>2. s < h1[d].size
      BY <1>3, <1>5, <1>6, <2>1 DEF End
    <3> QED BY <1>5, <3>1, <3>2, TailGrown
  <2>2. CASE ~(b - h[d].base + s < h[d].size)
    <3>1. g = Move(h1, f1[k1], d, USED)
      BY <1>1, <1>5, <2>2 DEF CarveAs, h1, pdm
    <3>2. s = h1[d].size
      BY <1>3, <1>5, <1>6, <2>2 DEF End
    <3> QED BY <1>5, <3>1, <3>2, FitGrown
  <2> QED BY <2>1, <2>2
<1>8. Grown(h, nu, u, g, b, s)
  BY <1>5, <1>7, Zenon DEF Grown, SamePages
<1> QED BY <1>8 DEF g

-----------------------------------------------------------------------------
(* dmamem_free().                                                           *)

(* Block d was put behind place m of the free list: it may touch the block  *)
(* before it and the block after it.                                        *)
Put(h, nf, f, nu, u, m, d) ==
  /\ HeapType(h) /\ Tiling(h) /\ TwoLists(h, FREE, nf, f, USED, nu, u)
  /\ m \in 0 .. nf - 1 /\ d = f[m + 1]
  /\ SortedBut(h, nf, f, {<<f[m], d>>, <<d, f[m + 2]>>})

(* The used blocks lose d; the others are unchanged.                        *)
Shrunk(h, nu, u, d, g) ==
  \E n1, f1, n2, u2 :
    /\ Sound(g, n1, f1, n2, u2)
    /\ Members(n2, u2) = Members(nu, u) \ {d}
    /\ \A y \in Members(nu, u) \ {d} : SamePages(h, g, y)

UsedKept(h, nu, u, g) == \A y \in Members(nu, u) : SamePages(h, g, y)

(* After the upper neighbour: only the lower one may be touched.            *)
OneSide(h, nu, u, m, l, d, g) ==
  \E n, f : /\ Ready(g, n, f, nu, u, m, d, {<<l, d>>}) /\ f[m] = l
            /\ UsedKept(h, nu, u, g)

(* dmamem_free(): the freed block touches the next one and absorbs it.      *)
LEMMA UpperJoined ==
  ASSUME NEW h, NEW nf, NEW f, NEW nu, NEW u, NEW m, NEW d, Put(h, nf, f, nu, u, m, d),
         NEW e, e = f[m + 2], e # NIL, Touches(h, d, e), NEW g, g = Join(h, d, e)
  PROVE  OneSide(h, nu, u, m, f[m], d, g)
<1> DEFINE v == Removed(nf, f, m + 1)
           k == m + 1
           X == {<<f[m], d>>, <<d, f[m + 2]>>}
           Y == {<<f[m], d>>}
<1>1. /\ HeapType(h) /\ Tiling(h) /\ TwoLists(h, FREE, nf, f, USED, nu, u)
      /\ m \in 0 .. nf - 1 /\ d = f[m + 1] /\ SortedBut(h, nf, f, X)
  BY DEF Put
<1>2. Proper(h, nf, f) /\ Path(h, FREE, nf, f)
  BY <1>1, FreeListProper DEF TwoLists
<1>3. nf \in Nat /\ f[nf + 1] = NIL
  BY <1>2, PathFacts
<1>4. /\ k \in 1 .. nf - 1 /\ k + 1 = m + 2 /\ m \in 0 .. nf /\ m + 1 \in 0 .. nf /\ m + 2 \in 0 .. nf
      /\ m + 1 \in 1 .. nf /\ m + 2 \in 1 .. nf /\ (m + 1) + 1 = m + 2 /\ m # m + 1 /\ m # m + 2
             /\ m + 1 # m + 2
      /\ m \in 0 .. (nf - 1) - 1
  <2>1. m + 2 # nf + 1
    BY <1>3
  <2> QED BY <1>1, <1>3, <2>1
<1> HIDE DEF k
<1>5. /\ \A i \in 0 .. nf : f[i] \in DOMAIN h
      /\ \A i, j \in 0 .. nf : f[i] = f[j] => i = j
      /\ \A i \in 1 .. nf : f[i] \in Blocks(h) /\ f[i] \in DOMAIN h /\ f[i] \in Members(nf, f)
  BY <1>1, TwoListsFacts
<1>6. /\ d \in DOMAIN h /\ e \in DOMAIN h \ Heads /\ d # e /\ f[m] # e /\ f[m] # d /\ d = f[k] /\ e = f[k + 1]
      /\ d \in Members(nf, f) /\ e \in Members(nf, f)
  BY <1>1, <1>4, <1>5 DEF Blocks, k
<1>7. JoinOf(h, d, e, g)
  BY <1>1, <1>6, JoinIs
<1>8. /\ HeapType(g) /\ Tiling(g) /\ DOMAIN g = DOMAIN h \ {e}
      /\ TwoLists(g, FREE, nf - 1, Removed(nf, f, k), USED, nu, u)
      /\ g[d].base = h[d].base /\ g[d].size = h[d].size + h[e].size
      /\ \A x \in DOMAIN h : x # d /\ x # e => SamePages(h, g, x) /\ g[x].next = h[x].next
  <2>1. HeapType(h) /\ Tiling(h) /\ TwoLists(h, FREE, nf, f, USED, nu, u)
    BY <1>1
  <2>2. k \in 1 .. nf - 1 /\ d = f[k] /\ e = f[k + 1]
    BY <1>4, <1>6
  <2> QED BY <1>7, <2>1, <2>2, JoinLists
<1>9. SortedBut(g, nf - 1, Removed(nf, f, k), Y)
  <2>1. \A i, j \in 1 .. nf : <<f[i], f[j]>> \in X => f[i] # e /\ (<<f[i], f[j]>> \in Y \/ f[j] = e)
    BY <1>6
  <2>2. \A i \in 1 .. nf : f[i] # d /\ f[i] # e => SamePages(h, g, f[i])
    BY <1>5, <1>8
  <2>3. g[d].base = h[d].base /\ g[d].size = h[d].size + h[e].size
    BY <1>8
  <2>4. k \in 1 .. nf - 1 /\ d = f[k] /\ e = f[k + 1] /\ SortedBut(h, nf, f, X) /\ Proper(h, nf, f)
    BY <1>1, <1>2, <1>4, <1>6
  <2> HIDE DEF X, Y
  <2> QED BY <2>1, <2>2, <2>3, <2>4, SortedJoin
<1>10. v[m] = f[m] /\ v[m + 1] = d
  <2>1. m \in 0 .. nf /\ m + 1 \in 0 .. nf /\ m <= m + 1 /\ m + 1 <= m + 1
    BY <1>1, <1>4
  <2> QED BY <1>1, <2>1 DEF Removed
<1>11. Removed(nf, f, k) = v
  BY DEF k
<1> HIDE DEF v
<1>12. OnlyInto(nf - 1, v, Y, d)
  BY DEF OnlyInto
<1>13. Ready(g, nf - 1, v, nu, u, m, d, Y)
  BY <1>4, <1>8, <1>9, <1>10, <1>11, <1>12 DEF Ready
<1>14. UsedKept(h, nu, u, g)
  <2>1. \A y \in Members(nu, u) : y \in DOMAIN h /\ y # d /\ y # e
    BY <1>1, <1>6 DEF TwoLists, Blocks
  <2> QED BY <1>8, <2>1 DEF UsedKept
<1> QED BY <1>10, <1>13, <1>14 DEF OneSide

(* It does not touch the next one.                                          *)
LEMMA UpperApart ==
  ASSUME NEW h, NEW nf, NEW f, NEW nu, NEW u, NEW m, NEW d, Put(h, nf, f, nu, u, m, d),
         f[m + 2] = NIL \/ ~Touches(h, d, f[m + 2])
  PROVE  Ready(h, nf, f, nu, u, m, d, {<<f[m], d>>})
<1> DEFINE X == {<<f[m], d>>, <<d, f[m + 2]>>}
           Y == {<<f[m], d>>}
<1>1. /\ HeapType(h) /\ Tiling(h) /\ TwoLists(h, FREE, nf, f, USED, nu, u)
      /\ m \in 0 .. nf - 1 /\ d = f[m + 1] /\ SortedBut(h, nf, f, X)
  BY DEF Put
<1>2. \A i \in 1 .. nf : f[i] # NIL
  BY <1>1, TwoListsFacts, Constants
<1>3. ASSUME NEW i \in 1 .. nf, NEW j \in 1 .. nf, End(h, f[i]) = h[f[j]].base, <<f[i], f[j]>> \in X
      PROVE  <<f[i], f[j]>> \in Y
  <2>1. CASE <<f[i], f[j]>> = <<d, f[m + 2]>>
    <3>1. f[m + 2] # NIL /\ End(h, d) = h[f[m + 2]].base
      BY <1>2, <1>3, <2>1
    <3> QED BY <3>1 DEF Touches
  <2> QED BY <1>3, <2>1
<1> HIDE DEF X, Y
<1>4. SortedBut(h, nf, f, Y)
  BY <1>1, <1>3 DEF SortedBut
<1>5. OnlyInto(nf, f, Y, d)
  BY DEF OnlyInto, Y
<1> QED BY <1>1, <1>4, <1>5 DEF Ready, Y

(* The block before touches the freed one and absorbs it.                   *)
LEMMA LowerJoined ==
  ASSUME NEW h, NEW nf, NEW f, NEW nu, NEW u, NEW m, NEW e, Ready(h, nf, f, nu, u, m, e, {<<f[m], e>>}),
         NEW d, d = f[m], d # FREE, Touches(h, d, e), NEW g, g = Join(h, d, e)
  PROVE  /\ Sound(g, nf - 1, Removed(nf, f, m), nu, u)
         /\ UsedKept(h, nu, u, g)
<1> DEFINE v == Removed(nf, f, m)
           X == {<<f[m], e>>}
<1>1. /\ HeapType(h) /\ Tiling(h) /\ TwoLists(h, FREE, nf, f, USED, nu, u)
      /\ m \in 0 .. nf - 1 /\ e = f[m + 1] /\ SortedBut(h, nf, f, X)
  BY DEF Ready
<1>2. Proper(h, nf, f) /\ Path(h, FREE, nf, f)
  BY <1>1, FreeListProper DEF TwoLists
<1>3. nf \in Nat /\ f[0] = FREE
  BY <1>2, PathFacts
<1>4. m \in 1 .. nf - 1 /\ m \in 0 .. nf /\ m + 1 \in 0 .. nf /\ m # m + 1 /\ m \in 1 .. nf
        /\ m + 1 \in 1 .. nf
  BY <1>1, <1>3
<1>5. /\ \A i, j \in 0 .. nf : f[i] = f[j] => i = j
      /\ \A i \in 1 .. nf : f[i] \in Blocks(h) /\ f[i] \in DOMAIN h /\ f[i] \in Members(nf, f)
  BY <1>1, TwoListsFacts
<1>6. d \in DOMAIN h /\ e \in DOMAIN h \ Heads /\ d # e /\ d \in Members(nf, f) /\ e \in Members(nf, f)
  BY <1>1, <1>4, <1>5 DEF Blocks
<1>7. JoinOf(h, d, e, g)
  BY <1>1, <1>6, JoinIs
<1>8. /\ HeapType(g) /\ Tiling(g) /\ DOMAIN g = DOMAIN h \ {e}
      /\ TwoLists(g, FREE, nf - 1, v, USED, nu, u)
      /\ g[d].base = h[d].base /\ g[d].size = h[d].size + h[e].size
      /\ \A x \in DOMAIN h : x # d /\ x # e => SamePages(h, g, x) /\ g[x].next = h[x].next
  <2>1. HeapType(h) /\ Tiling(h) /\ TwoLists(h, FREE, nf, f, USED, nu, u)
    BY <1>1
  <2>2. m \in 1 .. nf - 1 /\ d = f[m] /\ e = f[m + 1]
    BY <1>1, <1>4
  <2> QED BY <1>7, <2>1, <2>2, JoinLists
<1>9. SortedBut(g, nf - 1, v, {})
  <2>1. \A i, j \in 1 .. nf : <<f[i], f[j]>> \in X => f[i] # e /\ (<<f[i], f[j]>> \in {} \/ f[j] = e)
    BY <1>6
  <2>2. \A i \in 1 .. nf : f[i] # d /\ f[i] # e => SamePages(h, g, f[i])
    BY <1>5, <1>8
  <2>3. g[d].base = h[d].base /\ g[d].size = h[d].size + h[e].size
    BY <1>8
  <2>4. m \in 1 .. nf - 1 /\ d = f[m] /\ e = f[m + 1] /\ SortedBut(h, nf, f, X) /\ Proper(h, nf, f)
    BY <1>1, <1>2, <1>4
  <2> HIDE DEF X
  <2> QED BY <2>1, <2>2, <2>3, <2>4, SortedJoin
<1> HIDE DEF v
<1>10. Sorted(g, nf - 1, v)
  <2>1. Proper(g, nf - 1, v)
    BY <1>8, FreeListProper
  <2>2. \A i, j \in 1 .. nf - 1 : <<v[i], v[j]>> \in {} => End(g, v[i]) # g[v[j]].base
    OBVIOUS
  <2> QED BY <1>9, <2>1, <2>2, SortedStrict
<1>11. UsedKept(h, nu, u, g)
  <2>1. \A y \in Members(nu, u) : y \in DOMAIN h /\ y # d /\ y # e
    BY <1>1, <1>6 DEF TwoLists, Blocks
  <2> QED BY <1>8, <2>1 DEF UsedKept
<1> QED BY <1>8, <1>10, <1>11 DEF Sound, v

(* It does not touch it.                                                    *)
LEMMA LowerApart ==
  ASSUME NEW h, NEW nf, NEW f, NEW nu, NEW u, NEW m, NEW d, Ready(h, nf, f, nu, u, m, d, {<<f[m], d>>}),
         f[m] = FREE \/ ~Touches(h, f[m], d)
  PROVE  Sound(h, nf, f, nu, u)
<1> DEFINE X == {<<f[m], d>>}
<1>1. HeapType(h) /\ Tiling(h) /\ TwoLists(h, FREE, nf, f, USED, nu, u) /\ SortedBut(h, nf, f, X)
  BY DEF Ready
<1>2. \A i \in 1 .. nf : f[i] # FREE
  BY <1>1, TwoListsFacts, Constants
<1>3. ASSUME NEW i \in 1 .. nf, NEW j \in 1 .. nf, <<f[i], f[j]>> \in X PROVE End(h, f[i]) # h[f[j]].base
  <2>1. f[i] = f[m] /\ f[j] = d
    BY <1>3
  <2> QED BY <1>2, <2>1 DEF Touches
<1> HIDE DEF X
<1>4. Sorted(h, nf, f)
  BY <1>1, <1>3, FreeListProper, SortedStrict
<1> QED BY <1>1, <1>4 DEF Sound

FoundIn(h, b) == {x \in DOMAIN h : h[x].base = b}
AtOrAbove(h, g, b) == {x \in DOMAIN h : g[x].base >= b}

(* Release in terms of the three changes.                                   *)
LEMMA ReleaseIs ==
  ASSUME NEW h, NEW d
  PROVE  LET l  == LinkTo(h, USED, FoundIn(h, h[d].base))
             h1 == [h EXCEPT ![l].next = h[d].next]
             m  == LinkTo(h1, FREE, AtOrAbove(h, h1, h[d].base))
         IN  Release(h, d) = JoinLower(JoinUpper(Move(h, l, d, m), d), m, d)
  BY Zenon DEF Release, JoinLower, JoinUpper, Join, Move, FoundIn, AtOrAbove

(* The search of the used list finds the one block with that base.          *)
LEMMA UsedLink ==
  ASSUME NEW h, NEW nf, NEW f, NEW nu, NEW u, Sound(h, nf, f, nu, u), NEW b
  PROVE  \E k \in 0 .. nu :
           /\ LinkTo(h, USED, FoundIn(h, b)) = u[k]
           /\ \A i \in 1 .. nu : h[u[i]].base = b => k < nu /\ u[i] = u[k + 1]
           /\ k < nu => h[u[k + 1]].base = b
<1>1. HeapType(h) /\ Tiling(h) /\ TwoLists(h, FREE, nf, f, USED, nu, u) /\ Path(h, USED, nu, u)
  BY DEF Sound, TwoLists
<1>2. nu \in Nat /\ nu <= Pages + 2
  BY <1>1, ShortList, Constants
<1>3. PICK k \in 0 .. nu : Stops(nu, u, FoundIn(h, b), k) /\ LinkTo(h, USED, FoundIn(h, b)) = u[k]
  BY <1>1, <1>2, LinkIs
<1>4. \A i \in 1 .. nu : u[i] \in DOMAIN h /\ u[i] \in Blocks(h)
  BY <1>1, TwoListsFacts
<1>5. k < nu => h[u[k + 1]].base = b /\ k + 1 \in 1 .. nu
  BY <1>2, <1>3 DEF Stops, FoundIn
<1>6. ASSUME NEW i \in 1 .. nu, h[u[i]].base = b PROVE k < nu /\ u[i] = u[k + 1]
  <2>1. u[i] \in FoundIn(h, b)
    BY <1>4, <1>6 DEF FoundIn
  <2>2. ~(i \in 1 .. k)
    BY <1>3, <2>1 DEF Stops
  <2>3. k < nu
    BY <1>2, <2>2
  <2>4. u[i] \in Blocks(h) /\ u[k + 1] \in Blocks(h) /\ h[u[i]].base = h[u[k + 1]].base
    BY <1>4, <1>5, <1>6, <2>3
  <2>5. \A x, y \in Blocks(h) : h[x].base = h[y].base => x = y
    BY <1>1, TilingFacts
  <2> QED BY <2>3, <2>4, <2>5
<1> QED BY <1>3, <1>5, <1>6

(* The lists after dmamem_free(), in all four cases.                        *)
LEMMA ReleaseShrunk ==
  ASSUME NEW h, NEW nf, NEW f, NEW nu, NEW u, Sound(h, nf, f, nu, u), NEW d \in Members(nu, u)
  PROVE  Shrunk(h, nu, u, d, Release(h, d))
<1> DEFINE l  == LinkTo(h, USED, FoundIn(h, h[d].base))
           h1 == [h EXCEPT ![l].next = h[d].next]
           o  == LinkTo(h1, FREE, AtOrAbove(h, h1, h[d].base))
           h2 == Move(h, l, d, o)
           h3 == JoinUpper(h2, d)
           g  == JoinLower(h3, o, d)
<1>1. HeapType(h) /\ Tiling(h) /\ TwoLists(h, FREE, nf, f, USED, nu, u) /\ Sorted(h, nf, f)
  BY DEF Sound
<1>2. /\ nf \in Nat /\ nu \in Nat
      /\ \A i \in 0 .. nf : f[i] \in DOMAIN h /\ h[f[i]].next = f[i + 1]
      /\ \A i \in 0 .. nu : u[i] \in DOMAIN h /\ h[u[i]].next = u[i + 1]
      /\ \A i \in 1 .. nf : f[i] \in Ids /\ f[i] \in Blocks(h) /\ f[i] \in DOMAIN h
      /\ \A i \in 1 .. nu : u[i] \in Ids /\ u[i] \in Blocks(h) /\ u[i] \in DOMAIN h
      /\ \A i, j \in 0 .. nu : u[i] = u[j] => i = j
      /\ \A i \in 0 .. nf, j \in 0 .. nu : f[i] # u[j]
  BY <1>1, TwoListsFacts
<1>3. Release(h, d) = g
  BY ReleaseIs
<1>4. PICK k \in 0 .. nu - 1 : l = u[k] /\ d = u[k + 1]
  <2>1. PICK j \in 0 .. nu : /\ l = u[j]
                             /\ \A i \in 1 .. nu : h[u[i]].base = h[d].base => j < nu /\ u[i] = u[j + 1]
    BY UsedLink
  <2>2. PICK i \in 1 .. nu : d = u[i]
    BY DEF Members
  <2>3. j < nu /\ d = u[j + 1]
    BY <2>1, <2>2
  <2>4. j \in 0 .. nu - 1
    BY <1>2, <2>3
  <2> QED BY <2>1, <2>3, <2>4
<1>5. k \in 0 .. nu /\ k + 1 \in 0 .. nu /\ k + 1 \in 1 .. nu /\ k # k + 1
  BY <1>2
<1> HIDE DEF l
<1>6. /\ l \in DOMAIN h /\ d \in DOMAIN h /\ d \in Ids /\ d \in Blocks(h) /\ l # d
      /\ h[d].base \in Nat /\ h[d].size \in Nat /\ h[d].size > 0
  <2>1. l \in DOMAIN h /\ d \in DOMAIN h /\ d \in Ids /\ d \in Blocks(h) /\ l # d
    BY <1>2, <1>4, <1>5
  <2> QED BY <1>1, <2>1, TilingFacts
<1>7. /\ DOMAIN h1 = DOMAIN h
      /\ \A x \in DOMAIN h : h1[x].base = h[x].base /\ (x # l => h1[x].next = h[x].next)
  <2>1. \A x \in DOMAIN h : h[x] \in Node
    BY <1>1, NodeIs
  <2> QED BY <1>6, <2>1 DEF Node
<1> HIDE DEF h1
<1>8. Path(h1, FREE, nf, f)
  <2>1. Path(h, FREE, nf, f) /\ Members(nf, f) \subseteq DOMAIN h1
    BY <1>1, <1>7 DEF TwoLists, Blocks
  <2>2. ASSUME NEW i \in 0 .. nf PROVE h1[f[i]].next = f[i + 1]
    <3>1. f[i] \in DOMAIN h /\ f[i] # l /\ h[f[i]].next = f[i + 1]
      BY <1>2, <1>4, <1>5
    <3> QED BY <1>7, <3>1
  <2> QED BY <2>1, <2>2, PathKept
<1>9. PICK m \in 0 .. nf : Stops(nf, f, AtOrAbove(h, h1, h[d].base), m) /\ o = f[m]
  <2>1. Path(h, FREE, nf, f)
    BY <1>1 DEF TwoLists
  <2>2. nf <= Pages + 2
    BY <1>1, <2>1, ShortList, Constants
  <2> QED BY <1>8, <2>2, LinkIs
<1> HIDE DEF o
<1>10. Place(h, nf, f, m, d)
  <2>1. \A i \in 1 .. nf : h[f[i]].base \in Nat /\ h1[f[i]].base = h[f[i]].base
    BY <1>1, <1>2, <1>7, NodeIs
  <2>2. ASSUME NEW i \in 1 .. m PROVE h[f[i]].base < h[d].base
    <3>1. i \in 1 .. nf /\ f[i] \notin AtOrAbove(h, h1, h[d].base)
      BY <1>2, <1>9 DEF Stops
    <3>2. ~(h[f[i]].base >= h[d].base)
      BY <1>2, <2>1, <3>1 DEF AtOrAbove
    <3> QED BY <1>6, <2>1, <3>1, <3>2
  <2>3. m < nf => h[f[m + 1]].base >= h[d].base
    <3> SUFFICES ASSUME m < nf PROVE h[f[m + 1]].base >= h[d].base
      OBVIOUS
    <3>1. m + 1 \in 1 .. nf /\ f[m + 1] \in AtOrAbove(h, h1, h[d].base)
      BY <1>2, <1>9 DEF Stops
    <3> QED BY <2>1, <3>1 DEF AtOrAbove
  <2>4. ASSUME NEW i \in 1 .. nf PROVE Apart(h, d, f[i])
    <3>1. f[i] \in Blocks(h) /\ d # f[i]
      BY <1>2, <1>4, <1>5
    <3> QED BY <1>1, <1>6, <3>1 DEF Tiling
  <2> QED BY <1>6, <2>2, <2>3, <2>4 DEF Place
<1> DEFINE f2 == Inserted(nf, f, m, d)
           u2 == Removed(nu, u, k)
<1>11. MoveOf(h, u[k], d, f[m], h2)
  <2>1. f[m] \in DOMAIN h /\ l # f[m] /\ d # f[m]
    BY <1>2, <1>4, <1>5
  <2>2. MoveOf(h, l, d, f[m], Move(h, l, d, f[m]))
    BY <1>1, <1>6, <2>1, MoveIs
  <2> QED BY <1>4, <1>9, <2>2
<1> HIDE DEF h2
<1>12. /\ HeapType(h2) /\ Tiling(h2) /\ DOMAIN h2 = DOMAIN h
       /\ TwoLists(h2, USED, nu - 1, u2, FREE, nf + 1, f2)
       /\ Members(nu - 1, u2) = Members(nu, u) \ {d}
       /\ \A x \in DOMAIN h : SamePages(h, h2, x)
       /\ h2[d].next = h[f[m]].next
  <2>1. TwoLists(h, USED, nu, u, FREE, nf, f)
    BY <1>1, Swap
  <2>2. HeapType(h) /\ Tiling(h) /\ k \in 0 .. nu - 1 /\ m \in 0 .. nf /\ d = u[k + 1]
    BY <1>1, <1>4
  <2> QED BY <1>11, <2>1, <2>2, MoveLists
<1>13. /\ f2[m] = f[m] /\ f2[m + 1] = d /\ f2[m + 2] = f[m + 1] /\ m \in 0 .. (nf + 1) - 1
  <2>1. /\ m \in 0 .. nf + 2 /\ m + 1 \in 0 .. nf + 2 /\ m + 2 \in 0 .. nf + 2 /\ (m + 2) - 1 = m + 1
        /\ m <= m /\ ~(m + 1 <= m) /\ ~(m + 2 <= m) /\ m + 2 # m + 1 /\ m \in 0 .. (nf + 1) - 1
    BY <1>2
  <2> QED BY <2>1 DEF Inserted
<1>14. SortedBut(h2, nf + 1, f2, {<<f[m], d>>, <<d, f[m + 1]>>})
  <2>1. \A i \in 1 .. nf : SamePages(h, h2, f[i])
    BY <1>2, <1>12
  <2>2. SamePages(h, h2, d)
    BY <1>6, <1>12
  <2>3. Proper(h, nf, f)
    BY <1>1, FreeListProper
  <2> QED BY <1>1, <1>10, <2>1, <2>2, <2>3, SortedInsert
<1> HIDE DEF f2, u2
<1>15. Put(h2, nf + 1, f2, nu - 1, u2, m, d)
  <2>1. TwoLists(h2, FREE, nf + 1, f2, USED, nu - 1, u2)
    BY <1>12, Swap
  <2> QED BY <1>12, <1>13, <1>14, <2>1 DEF Put
<1>16. PICK n3, f3 : /\ Ready(h3, n3, f3, nu - 1, u2, m, d, {<<o, d>>}) /\ f3[m] = o
                     /\ UsedKept(h2, nu - 1, u2, h3)
  <2>1. h2[d].next = f2[m + 2] /\ f2[m] = o
    BY <1>2, <1>9, <1>12, <1>13
  <2>2. CASE f2[m + 2] # NIL /\ Touches(h2, d, f2[m + 2])
    <3>1. h3 = Join(h2, d, f2[m + 2])
      BY <2>1, <2>2 DEF JoinUpper, Touches, End
    <3> HIDE DEF h3
    <3> DEFINE e == f2[m + 2]
    <3>2. e # NIL /\ Touches(h2, d, e) /\ h3 = Join(h2, d, e) /\ e = f2[m + 2]
      BY <2>2, <3>1
    <3> HIDE DEF e
    <3>3. OneSide(h2, nu - 1, u2, m, f2[m], d, h3)
      BY <1>15, <3>2, UpperJoined
    <3> QED BY <2>1, <3>3 DEF OneSide
  <2>3. CASE f2[m + 2] = NIL \/ ~Touches(h2, d, f2[m + 2])
    <3>1. h3 = h2
      BY <2>1, <2>3 DEF JoinUpper, Touches, End
    <3>2. Ready(h2, nf + 1, f2, nu - 1, u2, m, d, {<<f2[m], d>>})
      BY <1>15, <2>3, UpperApart
    <3>3. UsedKept(h2, nu - 1, u2, h2)
      BY DEF UsedKept, SamePages
    <3> HIDE DEF h3
    <3> QED BY <2>1, <3>1, <3>2, <3>3
  <2> QED BY <2>2, <2>3
<1> HIDE DEF h3
<1>17. PICK n4, f4 : Sound(g, n4, f4, nu - 1, u2) /\ UsedKept(h3, nu - 1, u2, g)
  <2>1. Ready(h3, n3, f3, nu - 1, u2, m, d, {<<f3[m], d>>})
    BY <1>16
  <2>2. CASE o # FREE /\ Touches(h3, o, d)
    <3>1. g = Join(h3, o, d)
      BY <2>2 DEF JoinLower, Touches, End
    <3> HIDE DEF g
    <3>2. Sound(g, n3 - 1, Removed(n3, f3, m), nu - 1, u2) /\ UsedKept(h3, nu - 1, u2, g)
      BY <1>16, <2>1, <2>2, <3>1, LowerJoined
    <3> QED BY <3>2
  <2>3. CASE o = FREE \/ ~Touches(h3, o, d)
    <3>1. g = h3
      BY <2>3 DEF JoinLower, Touches, End
    <3>2. Sound(h3, n3, f3, nu - 1, u2)
      BY <1>16, <2>1, <2>3, LowerApart
    <3>3. UsedKept(h3, nu - 1, u2, h3)
      BY DEF UsedKept, SamePages
    <3> HIDE DEF g
    <3> QED BY <3>1, <3>2, <3>3
  <2> QED BY <2>2, <2>3
<1> HIDE DEF g
<1>18. ASSUME NEW y \in Members(nu, u) \ {d} PROVE SamePages(h, g, y)
  <2>1. y \in DOMAIN h /\ y \in Members(nu - 1, u2)
    BY <1>1, <1>12 DEF TwoLists, Blocks
  <2>2. SamePages(h, h2, y) /\ SamePages(h2, h3, y) /\ SamePages(h3, g, y)
    BY <1>12, <1>16, <1>17, <2>1 DEF UsedKept
  <2> QED BY <2>2 DEF SamePages
<1>19. Shrunk(h, nu, u, d, g)
  BY <1>12, <1>17, <1>18 DEF Shrunk
<1> QED BY <1>3, <1>19

-----------------------------------------------------------------------------
(* The inductive invariant: the lists are sound, and the locals of an       *)
(* allocation that has found a block still describe the first that fits.    *)

Found(h, c, n, f, k, count, align) ==
  /\ c = [pc |-> "found", pdm |-> f[k], dm |-> f[k + 1],
          abase |-> AlignUp(h[f[k + 1]].base, align), count |-> count,
          ndm |-> AlignUp(h[f[k + 1]].base, align) - h[f[k + 1]].base + count < h[f[k + 1]].size]
  /\ FitsIn(h[f[k + 1]], count, align)
  /\ \A i \in 1 .. k : ~FitsIn(h[f[i]], count, align)

FoundIt(h, c, n, f) ==
  \E k \in 0 .. n - 1, count \in Counts, align \in Aligns : Found(h, c, n, f, k, count, align)

IInv == \E nf, f, nu, u : /\ Sound(heap, nf, f, nu, u)
                          /\ call = Idle \/ FoundIt(heap, call, nf, f)

(* Sound, put in the form the proofs below use.                             *)
LEMMA SoundFacts ==
  ASSUME NEW h, NEW nf, NEW f, NEW nu, NEW u, Sound(h, nf, f, nu, u)
  PROVE  /\ HeapType(h) /\ Tiling(h) /\ TwoLists(h, FREE, nf, f, USED, nu, u) /\ Sorted(h, nf, f)
         /\ Path(h, FREE, nf, f) /\ Path(h, USED, nu, u)
         /\ nf \in Nat /\ nf <= Pages + 2 /\ nu \in Nat /\ nu <= Pages + 2
         /\ Members(nf, f) \cap Members(nu, u) = {} /\ Blocks(h) = Members(nf, f) \cup Members(nu, u)
<1>1. /\ HeapType(h) /\ Tiling(h) /\ TwoLists(h, FREE, nf, f, USED, nu, u) /\ Sorted(h, nf, f)
      /\ Path(h, FREE, nf, f) /\ Path(h, USED, nu, u)
      /\ Members(nf, f) \cap Members(nu, u) = {} /\ Blocks(h) = Members(nf, f) \cup Members(nu, u)
  BY DEF Sound, TwoLists
<1>2. nf \in Nat /\ nf <= Pages
  BY <1>1, ShortList
<1>3. nu \in Nat /\ nu <= Pages
  BY <1>1, ShortList
<1> QED BY <1>1, <1>2, <1>3, Constants

(* The search of the free list stops at the first block that fits.          *)
LEMMA SearchIs ==
  ASSUME NEW h, NEW nf, NEW f, NEW nu, NEW u, Sound(h, nf, f, nu, u), NEW count, NEW align
  PROVE  \E k \in 0 .. nf :
           /\ SearchLink(h, count, align) = f[k] /\ h[f[k]].next = f[k + 1]
           /\ f[k + 1] # NIL <=> k < nf
           /\ k < nf => FitsIn(h[f[k + 1]], count, align)
           /\ \A i \in 1 .. k : ~FitsIn(h[f[i]], count, align)
<1> DEFINE F == {x \in DOMAIN h : FitsIn(h[x], count, align)}
<1>1. Path(h, FREE, nf, f) /\ nf \in Nat /\ nf <= Pages + 2
  BY SoundFacts
<1>2. SearchLink(h, count, align) = LinkTo(h, FREE, F) /\ \A x : x \in F <=> x \in DOMAIN h
        /\ FitsIn(h[x], count, align)
  BY DEF SearchLink
<1> HIDE DEF F
<1>3. PICK k \in 0 .. nf : Stops(nf, f, F, k) /\ LinkTo(h, FREE, F) = f[k]
  BY <1>1, LinkIs
<1>4. /\ f[nf + 1] = NIL /\ \A i \in 1 .. nf : f[i] \in DOMAIN h /\ f[i] \in Ids
      /\ \A i \in 0 .. nf : h[f[i]].next = f[i + 1]
  BY <1>1, PathFacts
<1>5. k < nf => k + 1 \in 1 .. nf
  BY <1>1
<1>6. f[k + 1] # NIL <=> k < nf
  <2>1. CASE k < nf
    BY <1>4, <1>5, <2>1, Constants
  <2>2. CASE ~(k < nf)
    <3>1. k = nf
      BY <1>1, <2>2
    <3> QED BY <1>4, <2>2, <3>1
  <2> QED BY <2>1, <2>2
<1>7. k < nf => FitsIn(h[f[k + 1]], count, align)
  BY <1>2, <1>3 DEF Stops
<1>8. ASSUME NEW i \in 1 .. k PROVE ~FitsIn(h[f[i]], count, align)
  <2>1. i \in 1 .. nf
    BY <1>1
  <2> QED BY <1>2, <1>3, <1>4, <2>1 DEF Stops
<1> QED BY <1>2, <1>3, <1>4, <1>6, <1>7, <1>8

(* What dmamem_alloc() cuts out of the block it has found.                  *)
LEMMA FinishGrown ==
  ASSUME NEW h, NEW nf, NEW f, NEW nu, NEW u, Sound(h, nf, f, nu, u), NEW c,
         NEW k \in 0 .. nf - 1, NEW count \in Counts, NEW align \in Aligns,
         Found(h, c, nf, f, k, count, align)
  PROVE  Grown(h, nu, u, Carve(h, c), AlignUp(h[f[k + 1]].base, align), count)
<1> DEFINE d == f[k + 1]
           b == AlignUp(h[d].base, align)
<1>1. HeapType(h) /\ TwoLists(h, FREE, nf, f, USED, nu, u) /\ nf \in Nat
  BY SoundFacts
<1>2. d \in DOMAIN h
  <2>1. k + 1 \in 1 .. nf
    BY <1>1
  <2> QED BY <1>1, <2>1, TwoListsFacts
<1>3. h[d].base \in Nat /\ h[d].size \in Nat
  BY <1>1, <1>2, NodeIs
<1>4. count \in Nat /\ count > 0 /\ align \in Nat \ {0}
  BY RequestAssumption
<1>5. b \in Nat /\ h[d].base <= b
  BY <1>3, <1>4, AlignUpIs, Zenon
<1>6. b + count <= End(h, d)
  BY DEF Found, FitsIn, End
<1>7. c.pdm = f[k] /\ c.dm = d /\ c.abase = b /\ c.count = count
      /\ c.ndm = (b - h[d].base + count < h[d].size)
  BY DEF Found
<1>8. d = f[k + 1] /\ b = AlignUp(h[f[k + 1]].base, align)
  OBVIOUS
<1> HIDE DEF d, b
<1>9. Grown(h, nu, u, Carve(h, c), b, count)
  BY <1>4, <1>5, <1>6, <1>7, <1>8, CarveGrown
<1> QED BY <1>8, <1>9

(* dm_init() makes one free block of the whole area.                        *)
LEMMA InitSound == Init => IInv
<1> SUFFICES ASSUME Init PROVE IInv
  OBVIOUS
<1> DEFINE f == [i \in 0 .. 2 |-> CASE i = 0 -> FREE [] i = 1 -> 1 [] OTHER -> NIL]
           u == [i \in 0 .. 1 |-> IF i = 0 THEN USED ELSE NIL]
<1>1. 1 \in Ids /\ FREE # USED /\ 1 \notin Heads
  BY Constants DEF Ids, FREE, USED, Heads
<1>2. /\ DOMAIN heap = {FREE, USED, 1}
      /\ heap[FREE] = Dsc(0, 0, 1) /\ heap[USED] = Dsc(0, 0, NIL) /\ heap[1] = Dsc(BasePage, Pages, NIL)
      /\ heap = [i \in {FREE, USED, 1} |-> heap[i]]
  BY <1>1 DEF Init, Heads, FREE, USED
<1>3. HeapType(heap)
  <2>1. \A i \in {FREE, USED, 1} : heap[i] \in Node
    BY <1>1, <1>2, Constants DEF Node, Dsc
  <2> QED BY <1>1, <1>2, <2>1 DEF HeapType, Heads
<1>4. Blocks(heap) = {1}
  BY <1>1, <1>2 DEF Blocks, Heads
<1>5. Tiling(heap)
  <2>1. heap[1].base = BasePage /\ heap[1].size = Pages
    BY <1>2 DEF Dsc
  <2> QED BY <1>4, <2>1, Constants DEF Tiling, End, Apart, Region
<1>6. f[0] = FREE /\ f[1] = 1 /\ f[2] = NIL /\ u[0] = USED /\ u[1] = NIL
  OBVIOUS
<1>7. /\ f \in [0 .. 1 + 1 -> Ids \cup Heads \cup {NIL}] /\ u \in [0 .. 0 + 1 -> Ids \cup Heads \cup {NIL}]
  BY <1>1 DEF Heads
<1> HIDE DEF f, u
<1>8. heap[FREE].next = 1 /\ heap[1].next = NIL /\ heap[USED].next = NIL
  BY <1>2 DEF Dsc
<1>9. Path(heap, FREE, 1, f)
  <2>1. \A i \in 1 .. 1 : i = 1
    OBVIOUS
  <2>2. ASSUME NEW i \in 0 .. 1 PROVE heap[f[i]].next = f[i + 1]
    <3>1. i = 0 \/ i = 1
      OBVIOUS
    <3> QED BY <1>6, <1>8, <3>1
  <2> QED BY <1>1, <1>2, <1>6, <1>7, <2>1, <2>2 DEF Path
<1>10. Path(heap, USED, 0, u)
  <2>1. \A i \in 0 .. 0 : i = 0
    OBVIOUS
  <2> QED BY <1>6, <1>7, <1>8, <2>1 DEF Path
<1>11. Members(1, f) = {1} /\ Members(0, u) = {}
  BY <1>6 DEF Members
<1>12. TwoLists(heap, FREE, 1, f, USED, 0, u)
  BY <1>1, <1>4, <1>9, <1>10, <1>11 DEF TwoLists, Heads
<1>13. Sorted(heap, 1, f)
  BY DEF Sorted
<1>14. Sound(heap, 1, f, 0, u)
  BY <1>3, <1>5, <1>12, <1>13 DEF Sound
<1> QED BY <1>14 DEF IInv, Init

(* The search leaves what FoundIt says.                                     *)
LEMMA SearchFound ==
  ASSUME NEW nf, NEW f, NEW nu, NEW u, Sound(heap, nf, f, nu, u),
         NEW count \in Counts, NEW align \in Aligns, AllocSearch(count, align)
  PROVE  FoundIt(heap, call', nf, f) /\ heap' = heap
<1>1. PICK k \in 0 .. nf :
        /\ SearchLink(heap, count, align) = f[k] /\ heap[f[k]].next = f[k + 1]
        /\ f[k + 1] # NIL <=> k < nf
        /\ k < nf => FitsIn(heap[f[k + 1]], count, align)
        /\ \A i \in 1 .. k : ~FitsIn(heap[f[i]], count, align)
  BY SearchIs
<1>2. heap[SearchLink(heap, count, align)].next = f[k + 1]
  BY <1>1
<1>3. f[k + 1] # NIL
  BY <1>2 DEF AllocSearch
<1>4. k \in 0 .. nf - 1
  <2>1. nf \in Nat
    BY SoundFacts
  <2> QED BY <1>1, <1>3, <2>1
<1>5. call' = [pc |-> "found", pdm |-> f[k], dm |-> f[k + 1],
               abase |-> AlignUp(heap[f[k + 1]].base, align), count |-> count,
               ndm |-> AlignUp(heap[f[k + 1]].base, align) - heap[f[k + 1]].base + count
                         < heap[f[k + 1]].size]
  BY <1>1, <1>2 DEF AllocSearch
<1>6. Found(heap, call', nf, f, k, count, align)
  BY <1>1, <1>3, <1>5 DEF Found
<1>7. heap' = heap
  BY DEF AllocSearch
<1> QED BY <1>4, <1>6, <1>7 DEF FoundIt

(* The block that dmamem_free() finds is a used block with that base.       *)
LEMMA FreeFound ==
  ASSUME NEW nf, NEW f, NEW nu, NEW u, Sound(heap, nf, f, nu, u), NEW base, Free(base)
  PROVE  \E d \in Members(nu, u) : heap[d].base = base /\ Shrunk(heap, nu, u, d, heap')
<1> DEFINE d == heap[LinkTo(heap, USED, FoundIn(heap, base))].next
<1>1. d # NIL /\ heap' = Release(heap, d)
  BY DEF Free, FoundIn
<1>2. PICK k \in 0 .. nu : /\ LinkTo(heap, USED, FoundIn(heap, base)) = u[k]
                           /\ k < nu => heap[u[k + 1]].base = base
  BY UsedLink
<1>3. d = u[k + 1] /\ u[nu + 1] = NIL /\ nu \in Nat /\ \A i \in 1 .. nu : u[i] \in Members(nu, u)
  BY <1>2, SoundFacts, PathFacts
<1> HIDE DEF d
<1>4. k < nu
  BY <1>1, <1>2, <1>3
<1>5. k + 1 \in 1 .. nu
  BY <1>3, <1>4
<1>6. d \in Members(nu, u) /\ heap[d].base = base
  BY <1>2, <1>3, <1>4, <1>5
<1>7. Shrunk(heap, nu, u, d, heap')
  BY <1>1, <1>6, ReleaseShrunk
<1> QED BY <1>6, <1>7

(* The two states of a call exclude each other.                             *)
LEMMA IdleOrFound ==
  ASSUME NEW h, NEW c, NEW n, NEW f, c = Idle \/ FoundIt(h, c, n, f)
  PROVE  (c.pc = "idle" => c = Idle) /\ (c.pc = "found" => FoundIt(h, c, n, f)) /\ c.pc \in {"idle", "found"}
<1>1. FoundIt(h, c, n, f) => c.pc = "found"
  BY DEF FoundIt, Found
<1>2. Idle.pc = "idle"
  BY DEF Idle
<1> QED BY <1>1, <1>2

(* Every step keeps the invariant.                                          *)
LEMMA NextSound == IInv /\ [Next]_vars => IInv'
<1> SUFFICES ASSUME IInv, [Next]_vars PROVE IInv'
  OBVIOUS
<1>1. PICK nf, f, nu, u : Sound(heap, nf, f, nu, u) /\ (call = Idle \/ FoundIt(heap, call, nf, f))
  BY DEF IInv
<1>2. /\ call.pc = "idle" => call = Idle
      /\ call.pc = "found" => FoundIt(heap, call, nf, f)
  BY <1>1, IdleOrFound
<1>3. ASSUME NEW count \in Counts, NEW align \in Aligns, AllocSearch(count, align) PROVE IInv'
  <2>1. FoundIt(heap, call', nf, f) /\ heap' = heap
    BY <1>1, <1>3, SearchFound
  <2> QED BY <1>1, <2>1 DEF IInv
<1>4. CASE UNCHANGED vars
  BY <1>1, <1>4 DEF IInv, vars
<1>5. CASE AllocNoMemory
  BY <1>1, <1>5 DEF IInv, AllocNoMemory
<1>6. CASE AllocFinish
  <2>1. heap' = Carve(heap, call) /\ call' = Idle /\ FoundIt(heap, call, nf, f)
    BY <1>2, <1>6 DEF AllocFinish
  <2>2. PICK k \in 0 .. nf - 1, count \in Counts, align \in Aligns : Found(heap, call, nf, f, k, count, align)
    BY <2>1 DEF FoundIt
  <2>3. Grown(heap, nu, u, heap', AlignUp(heap[f[k + 1]].base, align), count)
    BY <1>1, <2>1, <2>2, FinishGrown
  <2>4. \E n1, f1, n2, u2 : Sound(heap', n1, f1, n2, u2)
    BY <2>3 DEF Grown
  <2> QED BY <2>1, <2>4 DEF IInv
<1>7. ASSUME NEW base \in Region, Free(base) PROVE IInv'
  <2>1. call' = Idle
    BY <1>2, <1>7 DEF Free
  <2>2. \E n1, f1, n2, u2 : Sound(heap', n1, f1, n2, u2)
    BY <1>1, <1>7, FreeFound DEF Shrunk
  <2> QED BY <2>1, <2>2 DEF IInv
<1> QED BY <1>3, <1>4, <1>5, <1>6, <1>7, Zenon DEF Next, AllocNoSpace, FreeUnknown

(* dmamem_alloc() and dmamem_free() keep the two lists sound, and whatever  *)
(* an allocation has found stays the first block that fits until it is cut. *)
THEOREM Invariance == Spec => []IInv
  BY InitSound, NextSound, PTL DEF Spec

-----------------------------------------------------------------------------
(* The heap and the locals have their types in every reachable state.       *)
THEOREM TypeCorrect == Spec => []TypeOK
<1>1. IInv => TypeOK
  <2> SUFFICES ASSUME IInv PROVE TypeOK
    OBVIOUS
  <2>1. PICK nf, f, nu, u : Sound(heap, nf, f, nu, u) /\ (call = Idle \/ FoundIt(heap, call, nf, f))
    BY DEF IInv
  <2>2. HeapType(heap) /\ call.pc \in {"idle", "found"}
    BY <2>1, SoundFacts, IdleOrFound
  <2> QED BY <2>2, NodeIs DEF TypeOK, HeapType, Heads, Node
<1> QED BY <1>1, Invariance, PTL

(* The pages of a block.                                                    *)
LEMMA BlockIs ==
  ASSUME NEW h, HeapType(h), Tiling(h), NEW d \in Blocks(h)
  PROVE  \A p : p \in Block(h, d) <=> p \in Region /\ h[d].base <= p /\ p < h[d].base + h[d].size
  BY TilingFacts, Constants DEF Block, Region

(* dmamem_alloc() and dmamem_free() neither lose nor share a page: every    *)
(* page is in exactly one block of exactly one list.                        *)
THEOREM PagesPartitioned == Spec => []Partition
<1>1. IInv => Partition
  <2> SUFFICES ASSUME IInv PROVE Partition
    OBVIOUS
  <2>1. PICK nf, f, nu, u : Sound(heap, nf, f, nu, u)
    BY DEF IInv
  <2> DEFINE F == Members(nf, f)
             U == Members(nu, u)
  <2>2. HeapType(heap) /\ Tiling(heap) /\ F \cap U = {} /\ Blocks(heap) = F \cup U
    BY <2>1, SoundFacts
  <2>3. Elements(heap, FREE) = F /\ Elements(heap, USED) = U
    BY <2>1, SoundFacts, ElementsAre
  <2> HIDE DEF F, U
  <2>4. DOMAIN heap = F \cup U \cup {FREE, USED}
    BY <2>2 DEF HeapType, Blocks, Heads
  <2>5. ASSUME NEW d \in Blocks(heap), NEW e \in Blocks(heap), d # e
        PROVE  Block(heap, d) \cap Block(heap, e) = {}
    <3> SUFFICES ASSUME NEW p, p \in Block(heap, d), p \in Block(heap, e) PROVE FALSE
      OBVIOUS
    <3>1. /\ heap[d].base <= p /\ p < heap[d].base + heap[d].size
          /\ heap[e].base <= p /\ p < heap[e].base + heap[e].size /\ p \in Int
      BY <2>2, BlockIs, Constants DEF Region
    <3>2. heap[d].base + heap[d].size <= heap[e].base \/ heap[e].base + heap[e].size <= heap[d].base
      BY <2>2, <2>5, TilingFacts
    <3>3. heap[d].base \in Nat /\ heap[d].size \in Nat /\ heap[e].base \in Nat /\ heap[e].size \in Nat
      BY <2>2, TilingFacts
    <3> QED BY <3>1, <3>2, <3>3
  <2>6. ASSUME NEW d \in Blocks(heap) PROVE Block(heap, d) \subseteq Region
    BY <2>2, BlockIs
  <2>7. ASSUME NEW p \in Region PROVE \E d \in Blocks(heap) : p \in Block(heap, d)
    BY <2>2, TilingFacts, BlockIs
  <2>8. UNION {Block(heap, d) : d \in Blocks(heap)} = Region
    BY <2>6, <2>7
  <2> QED BY <2>2, <2>3, <2>4, <2>5, <2>8 DEF Partition
<1> QED BY <1>1, Invariance, PTL

(* dmamem_free() puts a block where it belongs and merges it with both      *)
(* neighbours: the free list is sorted, and no two blocks touch.            *)
THEOREM FreeListIsCoalesced == Spec => []FreeListCoalesced
<1>1. IInv => FreeListCoalesced
  <2> SUFFICES ASSUME IInv PROVE FreeListCoalesced
    OBVIOUS
  <2>1. PICK nf, f, nu, u : Sound(heap, nf, f, nu, u)
    BY DEF IInv
  <2>2. Path(heap, FREE, nf, f) /\ nf \in Nat /\ nf <= Pages + 2 /\ Sorted(heap, nf, f)
    BY <2>1, SoundFacts
  <2>3. f[nf + 1] = NIL
    BY <2>2, PathFacts
  <2> DEFINE nth == Nth(heap, FREE)
  <2>4. nth = [k \in Steps |-> IF k <= nf THEN f[k + 1] ELSE NIL]
    BY <2>2, NthIs
  <2> HIDE DEF nth
  <2>5. ASSUME NEW k \in 0 .. Pages + 1, nth[k + 1] # NIL
        PROVE  heap[nth[k]].base + heap[nth[k]].size < heap[nth[k + 1]].base
    <3>1. k \in Steps /\ k + 1 \in Steps /\ k \in Nat
      BY Constants DEF Steps
    <3>2. nth[k + 1] = IF k + 1 <= nf THEN f[(k + 1) + 1] ELSE NIL
      BY <2>4, <3>1
    <3>3. k + 1 <= nf /\ nth[k + 1] = f[(k + 1) + 1]
      BY <2>5, <3>2
    <3>4. k + 1 # nf
      BY <2>3, <2>5, <3>3
    <3>5. k <= nf /\ k + 1 \in 1 .. nf /\ (k + 1) + 1 \in 1 .. nf /\ k + 1 < (k + 1) + 1
      BY <2>2, <3>1, <3>3, <3>4
    <3>6. nth[k] = f[k + 1]
      BY <2>4, <3>1, <3>5
    <3>7. Below(heap, f[k + 1], f[(k + 1) + 1])
      BY <2>2, <3>5 DEF Sorted
    <3> QED BY <3>3, <3>6, <3>7 DEF Below, End
  <2> QED BY <2>5 DEF FreeListCoalesced, nth
<1> QED BY <1>1, Invariance, PTL

-----------------------------------------------------------------------------
(* A run of free pages lies in one block, because free blocks do not touch. *)
InFree(h, n, f, p) == \E i \in 1 .. n : h[f[i]].base <= p /\ p < End(h, f[i])

(* A run of free pages lies in one block, because of the gaps.              *)
LEMMA RunInBlock ==
  ASSUME NEW h, NEW nf, NEW f, NEW nu, NEW u, Sound(h, nf, f, nu, u),
         NEW p \in Int, NEW count \in Nat, count > 0,
         \A q \in p .. p + count - 1 : InFree(h, nf, f, q)
  PROVE  \E i \in 1 .. nf : h[f[i]].base <= p /\ p + count <= End(h, f[i])
<1>1. HeapType(h) /\ Tiling(h) /\ TwoLists(h, FREE, nf, f, USED, nu, u) /\ Sorted(h, nf, f) /\ nf \in Nat
  BY SoundFacts
<1>2. Proper(h, nf, f)
  BY <1>1, FreeListProper
<1>3. \A i \in 1 .. nf : h[f[i]].base \in Nat /\ End(h, f[i]) \in Nat /\ h[f[i]].base < End(h, f[i])
  BY <1>2 DEF Proper, End
<1>4. p \in p .. p + count - 1
  OBVIOUS
<1>5. PICK i \in 1 .. nf : h[f[i]].base <= p /\ p < End(h, f[i])
  BY <1>4 DEF InFree
<1>6. ASSUME ~(p + count <= End(h, f[i])) PROVE FALSE
  <2>1. End(h, f[i]) \in p .. p + count - 1
    BY <1>3, <1>5, <1>6
  <2>2. PICK j \in 1 .. nf : h[f[j]].base <= End(h, f[i]) /\ End(h, f[i]) < End(h, f[j])
    BY <2>1 DEF InFree
  <2>3. i # j
    BY <1>3, <2>2
  <2>4. CASE i < j
    <3>1. End(h, f[i]) < h[f[j]].base
      BY <1>1, <2>4 DEF Sorted, Below
    <3> QED BY <1>3, <2>2, <3>1
  <2>5. CASE j < i
    <3>1. End(h, f[j]) < h[f[i]].base
      BY <1>1, <2>5 DEF Sorted, Below
    <3> QED BY <1>3, <2>2, <3>1
  <2> QED BY <1>1, <2>3, <2>4, <2>5
<1> QED BY <1>5, <1>6

(* A block fits as soon as it holds an aligned run; and then the run that   *)
(* dmamem_alloc() takes is the lowest one in that block.                    *)
LEMMA RunFits ==
  ASSUME NEW b \in Nat, NEW d, d.base = b, NEW count \in Nat, NEW align \in Nat \ {0}, NEW p \in Nat,
         p % align = 0, d.base <= p, d.size \in Nat, p + count <= d.base + d.size
  PROVE  FitsIn(d, count, align) /\ AlignUp(b, align) <= p
<1>1. AlignUp(b, align) <= p /\ AlignUp(b, align) \in Nat
  BY AlignUpIs, Zenon
<1> QED BY <1>1 DEF FitsIn

(* A block that passes the test has an aligned run in it.                   *)
LEMMA FitRun ==
  ASSUME NEW h, NEW nf, NEW f, NEW nu, NEW u, Sound(h, nf, f, nu, u), NEW i \in 1 .. nf,
         NEW count \in Counts, NEW align \in Aligns, FitsIn(h[f[i]], count, align),
         NEW p, p = AlignUp(h[f[i]].base, align)
  PROVE  /\ p \in Region /\ p % align = 0 /\ p \in Nat
         /\ h[f[i]].base <= p /\ p + count <= End(h, f[i])
         /\ p .. p + count - 1 \subseteq Block(h, f[i])
         /\ \A q \in p .. p + count - 1 : q \in Region /\ InFree(h, nf, f, q)
<1>1. HeapType(h) /\ Tiling(h) /\ TwoLists(h, FREE, nf, f, USED, nu, u)
  BY SoundFacts
<1>2. f[i] \in Blocks(h)
  BY <1>1, TwoListsFacts
<1>3. count \in Nat /\ count > 0 /\ align \in Nat \ {0}
  BY RequestAssumption
<1>4. h[f[i]].base \in Nat /\ h[f[i]].size \in Nat
  BY <1>1, <1>2, TilingFacts
<1>5. p \in Nat /\ p >= h[f[i]].base /\ p % align = 0
  BY <1>3, <1>4, AlignUpIs
<1>6. p + count <= h[f[i]].base + h[f[i]].size
  BY DEF FitsIn
<1>7. ASSUME NEW q \in p .. p + count - 1
      PROVE  q \in Region /\ q \in Block(h, f[i]) /\ h[f[i]].base <= q /\ q < End(h, f[i])
  <2>1. q \in Int /\ h[f[i]].base <= q /\ q < h[f[i]].base + h[f[i]].size
    BY <1>3, <1>4, <1>5, <1>6
  <2>2. BasePage <= h[f[i]].base /\ h[f[i]].base + h[f[i]].size <= BasePage + Pages
    BY <1>1, <1>2, TilingFacts
  <2>3. q \in Region
    BY <1>4, <2>1, <2>2, Constants DEF Region
  <2> QED BY <1>4, <2>1, <2>3 DEF Block, End
<1>8. p \in p .. p + count - 1
  BY <1>3, <1>5
<1> QED BY <1>4, <1>5, <1>6, <1>7, <1>8 DEF End, InFree

(* The free pages are those of the blocks on the free list.                 *)
LEMMA FreePagesAre ==
  ASSUME NEW nf, NEW f, NEW nu, NEW u, Sound(heap, nf, f, nu, u)
  PROVE  \A p : p \in FreePages <=> p \in Region /\ InFree(heap, nf, f, p)
<1>1. HeapType(heap) /\ Tiling(heap) /\ Blocks(heap) = Members(nf, f) \cup Members(nu, u)
  BY SoundFacts
<1>2. Elements(heap, FREE) = Members(nf, f)
  BY SoundFacts, ElementsAre
<1>3. \A d \in Members(nf, f) : \A p :
        p \in Block(heap, d) <=> p \in Region /\ heap[d].base <= p /\ p < End(heap, d)
  BY <1>1, BlockIs DEF End
<1> QED BY <1>2, <1>3 DEF FreePages, InFree, Members

(* dmamem_alloc() finds a block whenever the free pages hold an aligned run *)
(* that is long enough, and only then.                                      *)
THEOREM FirstFitIsComplete == Spec => []FirstFitComplete
<1>1. IInv => FirstFitComplete
  <2> SUFFICES ASSUME IInv, NEW count \in Counts, NEW align \in Aligns
               PROVE  heap[SearchLink(heap, count, align)].next # NIL
                        <=> \E p \in Region : p % align = 0 /\ p .. p + count - 1 \subseteq FreePages
    BY DEF FirstFitComplete
  <2>1. PICK nf, f, nu, u : Sound(heap, nf, f, nu, u)
    BY DEF IInv
  <2>2. count \in Nat /\ count > 0 /\ align \in Nat \ {0}
    BY RequestAssumption
  <2>3. PICK k \in 0 .. nf :
          /\ SearchLink(heap, count, align) = f[k] /\ heap[f[k]].next = f[k + 1]
          /\ f[k + 1] # NIL <=> k < nf
          /\ k < nf => FitsIn(heap[f[k + 1]], count, align)
          /\ \A i \in 1 .. k : ~FitsIn(heap[f[i]], count, align)
    BY <2>1, SearchIs
  <2>4. heap[SearchLink(heap, count, align)].next = f[k + 1] /\ nf \in Nat
    BY <2>1, <2>3, SoundFacts
  <2>5. ASSUME k < nf PROVE \E p \in Region : p % align = 0 /\ p .. p + count - 1 \subseteq FreePages
    <3>1. k + 1 \in 1 .. nf
      BY <2>4, <2>5
    <3> DEFINE p == AlignUp(heap[f[k + 1]].base, align)
    <3>2. p = AlignUp(heap[f[k + 1]].base, align)
      OBVIOUS
    <3> HIDE DEF p
    <3>3. /\ p \in Region /\ p % align = 0
          /\ \A q \in p .. p + count - 1 : q \in Region /\ InFree(heap, nf, f, q)
      BY <2>1, <2>3, <2>5, <3>1, <3>2, FitRun
    <3> QED BY <2>1, <3>3, FreePagesAre
  <2>6. ASSUME NEW p \in Region, p % align = 0, p .. p + count - 1 \subseteq FreePages PROVE k < nf
    <3>1. \A q \in p .. p + count - 1 : InFree(heap, nf, f, q)
      BY <2>1, <2>6, FreePagesAre
    <3>2. p \in Nat /\ p \in Int
      BY Constants DEF Region
    <3>3. PICK i \in 1 .. nf : heap[f[i]].base <= p /\ p + count <= End(heap, f[i])
      BY <2>1, <2>2, <3>1, <3>2, RunInBlock, Zenon
    <3>4. heap[f[i]].base \in Nat /\ heap[f[i]].size \in Nat
      <4>1. HeapType(heap) /\ f[i] \in DOMAIN heap
        BY <2>1, SoundFacts, TwoListsFacts
      <4> QED BY <4>1, NodeIs
    <3>5. FitsIn(heap[f[i]], count, align)
      BY <2>2, <2>6, <3>2, <3>3, <3>4, RunFits DEF End
    <3>6. ~(i \in 1 .. k)
      BY <2>3, <3>5
    <3> QED BY <2>4, <3>6
  <2> QED BY <2>3, <2>4, <2>5, <2>6
<1> QED BY <1>1, Invariance, PTL

-----------------------------------------------------------------------------
(* The refinement of DmaMemAbs. A page's owner is b when it lies in a used  *)
(* block with base b.                                                       *)

Owns(h, U, p, b) == \E d \in U : h[d].base = b /\ b <= p /\ p < End(h, d)

OwnerOf(h) ==
  LET used == Elements(h, USED)
      Of(p) == {d \in used : p \in Block(h, d)}
  IN  [p \in Region |-> IF Of(p) = {} THEN NIL ELSE h[CHOOSE d \in Of(p) : TRUE].base]

(* A page is owned by the used block it lies in.                            *)
LEMMA OwnerIs ==
  ASSUME NEW h, NEW nf, NEW f, NEW nu, NEW u, Sound(h, nf, f, nu, u)
  PROVE  /\ OwnerOf(h) = [p \in Region |-> OwnerOf(h)[p]]
         /\ \A p \in Region : OwnerOf(h)[p] \in Nat \cup {NIL}
         /\ \A p \in Region, b \in Nat : OwnerOf(h)[p] = b <=> Owns(h, Members(nu, u), p, b)
<1> DEFINE Of(p) == {d \in Members(nu, u) : p \in Block(h, d)}
           owner == OwnerOf(h)
<1>1. HeapType(h) /\ Tiling(h) /\ Blocks(h) = Members(nf, f) \cup Members(nu, u)
  BY SoundFacts
<1>2. Elements(h, USED) = Members(nu, u)
  BY SoundFacts, ElementsAre
<1>3. owner = [p \in Region |-> IF Of(p) = {} THEN NIL ELSE h[CHOOSE d \in Of(p) : TRUE].base]
  BY <1>2 DEF OwnerOf
<1> HIDE DEF owner
<1>4. ASSUME NEW p \in Region, NEW d \in Members(nu, u)
      PROVE  d \in Of(p) <=> h[d].base <= p /\ p < End(h, d)
  BY <1>1, BlockIs DEF End
<1>5. ASSUME NEW p \in Region, NEW d \in Of(p), NEW e \in Of(p) PROVE d = e
  <2>1. d \in Blocks(h) /\ e \in Blocks(h) /\ d \in Members(nu, u) /\ e \in Members(nu, u)
    BY <1>1
  <2>2. h[d].base <= p /\ p < h[d].base + h[d].size /\ h[e].base <= p /\ p < h[e].base + h[e].size
          /\ p \in Int
    BY <1>4, <2>1, Constants DEF End, Region
  <2>3. /\ h[d].base \in Nat /\ h[d].size \in Nat /\ h[e].base \in Nat /\ h[e].size \in Nat
        /\ d # e => h[d].base + h[d].size <= h[e].base \/ h[e].base + h[e].size <= h[d].base
    BY <1>1, <2>1, TilingFacts
  <2> QED BY <2>2, <2>3
<1>6. ASSUME NEW p \in Region, NEW d \in Of(p) PROVE owner[p] = h[d].base /\ h[d].base \in Nat
  <2>1. (CHOOSE x \in Of(p) : TRUE) \in Of(p)
    BY Zenon
  <2>2. (CHOOSE x \in Of(p) : TRUE) = d
    BY <1>5, <2>1
  <2>3. h[d].base \in Nat
    BY <1>1, TilingFacts
  <2> QED BY <1>3, <2>2, <2>3
<1>7. ASSUME NEW p \in Region PROVE Of(p) = {} => owner[p] = NIL
  BY <1>3
<1>8. ASSUME NEW p \in Region PROVE owner[p] \in Nat \cup {NIL}
  BY <1>6, <1>7
<1>9. ASSUME NEW p \in Region, NEW b \in Nat PROVE owner[p] = b <=> Owns(h, Members(nu, u), p, b)
  <2>1. ASSUME owner[p] = b PROVE Owns(h, Members(nu, u), p, b)
    <3>1. PICK d \in Of(p) : TRUE
      BY <1>7, <2>1, Constants
    <3>2. h[d].base = b /\ d \in Members(nu, u) /\ b <= p /\ p < End(h, d)
      BY <1>4, <1>6, <2>1
    <3> QED BY <3>2 DEF Owns
  <2>2. ASSUME Owns(h, Members(nu, u), p, b) PROVE owner[p] = b
    <3>1. PICK d \in Members(nu, u) : h[d].base = b /\ b <= p /\ p < End(h, d)
      BY <2>2 DEF Owns
    <3>2. d \in Of(p)
      BY <1>4, <3>1
    <3> QED BY <1>6, <3>1, <3>2
  <2> QED BY <2>1, <2>2
<1>10. owner = [p \in Region |-> owner[p]]
  BY <1>3
<1> QED BY <1>8, <1>9, <1>10 DEF owner

(* A page that nobody owns lies in a free block.                            *)
LEMMA UnownedIs ==
  ASSUME NEW h, NEW nf, NEW f, NEW nu, NEW u, Sound(h, nf, f, nu, u), NEW p \in Region
  PROVE  OwnerOf(h)[p] = NIL <=> InFree(h, nf, f, p)
<1>1. HeapType(h) /\ Tiling(h) /\ Blocks(h) = Members(nf, f) \cup Members(nu, u)
      /\ Members(nf, f) \cap Members(nu, u) = {}
  BY SoundFacts
<1>2. OwnerOf(h)[p] \in Nat \cup {NIL} /\ \A b \in Nat : OwnerOf(h)[p] = b <=> Owns(h, Members(nu, u), p, b)
  BY OwnerIs
<1>3. PICK d \in Blocks(h) : h[d].base <= p /\ p < h[d].base + h[d].size
  BY <1>1, TilingFacts
<1>4. h[d].base \in Nat /\ h[d].size \in Nat /\ p \in Int
  BY <1>1, TilingFacts, Constants DEF Region
<1>5. ASSUME NEW e \in Blocks(h), h[e].base <= p, p < End(h, e) PROVE d = e
  <2>1. /\ h[e].base \in Nat /\ h[e].size \in Nat
        /\ d # e => h[d].base + h[d].size <= h[e].base \/ h[e].base + h[e].size <= h[d].base
    BY <1>1, TilingFacts
  <2> QED BY <1>3, <1>4, <1>5, <2>1 DEF End
<1>6. CASE d \in Members(nf, f)
  <2>1. InFree(h, nf, f, p)
    BY <1>3, <1>6 DEF InFree, Members, End
  <2>2. \A b \in Nat : ~Owns(h, Members(nu, u), p, b)
    BY <1>1, <1>5, <1>6 DEF Owns
  <2> QED BY <1>2, <2>1, <2>2
<1>7. CASE d \in Members(nu, u)
  <2>1. Owns(h, Members(nu, u), p, h[d].base)
    BY <1>3, <1>7 DEF Owns, End
  <2>2. OwnerOf(h)[p] # NIL
    BY <1>2, <1>4, <2>1, Constants
  <2>3. ASSUME NEW i \in 1 .. nf, h[f[i]].base <= p, p < End(h, f[i]) PROVE FALSE
    <3>1. f[i] \in Members(nf, f)
      BY DEF Members
    <3> QED BY <1>1, <1>5, <1>7, <2>3, <3>1
  <2> QED BY <2>2, <2>3 DEF InFree
<1> QED BY <1>1, <1>6, <1>7

(* An allocation gives its pages an owner.                                  *)
LEMMA GrownOwners ==
  ASSUME NEW h, NEW nf, NEW f, NEW nu, NEW u, Sound(h, nf, f, nu, u),
         NEW b \in Nat, NEW s \in Nat, NEW g, Grown(h, nu, u, g, b, s)
  PROVE  OwnerOf(g) = [q \in Region |-> IF q \in b .. b + s - 1 THEN b ELSE OwnerOf(h)[q]]
<1>1. PICK n1, f1, n2, u2, x :
        /\ Sound(g, n1, f1, n2, u2)
        /\ x \notin Members(nu, u) /\ Members(n2, u2) = Members(nu, u) \cup {x}
        /\ g[x].base = b /\ g[x].size = s
        /\ \A y \in Members(nu, u) : SamePages(h, g, y)
  BY DEF Grown
<1> DEFINE U == Members(nu, u)
           V == Members(n2, u2)
           w == [q \in Region |-> IF q \in b .. b + s - 1 THEN b ELSE OwnerOf(h)[q]]
<1>2. /\ \A p \in Region : OwnerOf(h)[p] \in Nat \cup {NIL}
      /\ \A p \in Region, c \in Nat : OwnerOf(h)[p] = c <=> Owns(h, U, p, c)
  BY OwnerIs
<1>3. /\ OwnerOf(g) = [p \in Region |-> OwnerOf(g)[p]]
      /\ \A p \in Region : OwnerOf(g)[p] \in Nat \cup {NIL}
      /\ \A p \in Region, c \in Nat : OwnerOf(g)[p] = c <=> Owns(g, V, p, c)
  BY <1>1, OwnerIs, Zenon
<1> HIDE DEF U, V
<1>4. \A q \in Region : q \in Int
  BY Constants DEF Region
<1>5. ASSUME NEW q \in Region, NEW c \in Nat
      PROVE  Owns(g, V, q, c) <=> Owns(h, U, q, c) \/ (c = b /\ q \in b .. b + s - 1)
  <2>1. \A y \in U : g[y].base = h[y].base /\ End(g, y) = End(h, y)
    BY <1>1 DEF SamePages, End, U
  <2>2. V = U \cup {x} /\ g[x].base = b /\ End(g, x) = b + s
    BY <1>1 DEF U, V, End
  <2>3. b <= q /\ q < b + s <=> q \in b .. b + s - 1
    BY <1>4
  <2> QED BY <2>1, <2>2, <2>3 DEF Owns
<1>6. ASSUME NEW q \in Region PROVE OwnerOf(g)[q] = w[q]
  <2>1. CASE q \in b .. b + s - 1
    BY <1>3, <1>5, <2>1
  <2>2. CASE q \notin b .. b + s - 1
    <3>1. \A c \in Nat : OwnerOf(g)[q] = c <=> OwnerOf(h)[q] = c
      BY <1>2, <1>3, <1>5, <2>2
    <3>2. OwnerOf(g)[q] = OwnerOf(h)[q]
      BY <1>2, <1>3, <3>1
    <3> QED BY <2>2, <3>2
  <2> QED BY <2>1, <2>2
<1> QED BY <1>3, <1>6

(* A free takes the owner of its pages away.                                *)
LEMMA ShrunkOwners ==
  ASSUME NEW h, NEW nf, NEW f, NEW nu, NEW u, Sound(h, nf, f, nu, u),
         NEW d \in Members(nu, u), NEW b, b = h[d].base, NEW g, Shrunk(h, nu, u, d, g)
  PROVE  /\ OwnerOf(g) = [q \in Region |-> IF OwnerOf(h)[q] = b THEN NIL ELSE OwnerOf(h)[q]]
         /\ b \in Region /\ OwnerOf(h)[b] = b
<1>1. PICK n1, f1, n2, u2 :
        /\ Sound(g, n1, f1, n2, u2)
        /\ Members(n2, u2) = Members(nu, u) \ {d}
        /\ \A y \in Members(nu, u) \ {d} : SamePages(h, g, y)
  BY DEF Shrunk
<1> DEFINE U == Members(nu, u)
           V == Members(n2, u2)
<1>2. /\ \A p \in Region : OwnerOf(h)[p] \in Nat \cup {NIL}
      /\ \A p \in Region, c \in Nat : OwnerOf(h)[p] = c <=> Owns(h, U, p, c)
  BY OwnerIs
<1>3. /\ OwnerOf(g) = [p \in Region |-> OwnerOf(g)[p]]
      /\ \A p \in Region : OwnerOf(g)[p] \in Nat \cup {NIL}
      /\ \A p \in Region, c \in Nat : OwnerOf(g)[p] = c <=> Owns(g, V, p, c)
  BY <1>1, OwnerIs
<1>4. HeapType(h) /\ Tiling(h) /\ U \subseteq Blocks(h) /\ d \in U /\ V = U \ {d}
  BY <1>1, SoundFacts
<1>5. \A y \in U : y # d => g[y].base = h[y].base /\ End(g, y) = End(h, y)
  BY <1>1 DEF SamePages, End
<1> HIDE DEF U, V
<1>6. ASSUME NEW y \in U
      PROVE  /\ h[y].base \in Nat /\ h[y].size \in Nat /\ h[y].size > 0
             /\ BasePage <= h[y].base /\ h[y].base + h[y].size <= BasePage + Pages
             /\ h[y].base = b => y = d
  BY <1>4, TilingFacts
<1>7. b \in Nat /\ b \in Region /\ OwnerOf(h)[b] = b
  <2>1. b \in Nat /\ b \in Region /\ b < End(h, d)
    BY <1>4, <1>6, Constants DEF Region, End
  <2>2. Owns(h, U, b, b)
    BY <1>4, <2>1 DEF Owns
  <2> QED BY <1>2, <2>1, <2>2
<1>8. ASSUME NEW q \in Region, NEW c \in Nat
      PROVE  Owns(g, V, q, c) <=> Owns(h, U, q, c) /\ c # b
  BY <1>4, <1>5, <1>6 DEF Owns
<1>9. ASSUME NEW q \in Region
      PROVE  OwnerOf(g)[q] = IF OwnerOf(h)[q] = b THEN NIL ELSE OwnerOf(h)[q]
  <2>1. \A c \in Nat : OwnerOf(g)[q] = c <=> OwnerOf(h)[q] = c /\ c # b
    BY <1>2, <1>3, <1>8
  <2>2. OwnerOf(g)[q] \in Nat \cup {NIL} /\ OwnerOf(h)[q] \in Nat \cup {NIL} /\ NIL # b
    BY <1>2, <1>3, <1>7, Constants
  <2>3. CASE OwnerOf(h)[q] = b
    BY <2>1, <2>2, <2>3
  <2>4. CASE OwnerOf(h)[q] # b
    BY <2>1, <2>2, <2>4
  <2> QED BY <2>3, <2>4
<1> QED BY <1>3, <1>7, <1>9

-----------------------------------------------------------------------------
(* The run that an allocation takes is the lowest of the aligned free runs. *)
LEMMA LowestRun ==
  ASSUME NEW h, NEW nf, NEW f, NEW nu, NEW u, Sound(h, nf, f, nu, u), NEW c,
         NEW k \in 0 .. nf - 1, NEW count \in Counts, NEW align \in Aligns,
         Found(h, c, nf, f, k, count, align),
         NEW free, free = {p \in Region : OwnerOf(h)[p] = NIL},
         NEW b, b = AlignUp(h[f[k + 1]].base, align)
  PROVE  /\ b \in Abs!FreeRuns(free, count, align) /\ b \in Nat
         /\ \A q \in Abs!FreeRuns(free, count, align) : b <= q
<1>1. nf \in Nat /\ Sorted(h, nf, f) /\ HeapType(h) /\ TwoLists(h, FREE, nf, f, USED, nu, u)
  BY SoundFacts
<1>2. k + 1 \in 1 .. nf
  BY <1>1
<1>3. FitsIn(h[f[k + 1]], count, align) /\ \A i \in 1 .. k : ~FitsIn(h[f[i]], count, align)
  BY DEF Found
<1>4. /\ b \in Region /\ b % align = 0 /\ b \in Nat /\ b + count <= End(h, f[k + 1])
      /\ \A q \in b .. b + count - 1 : q \in Region /\ InFree(h, nf, f, q)
  BY <1>2, <1>3, FitRun
<1>5. \A p : p \in free <=> p \in Region /\ InFree(h, nf, f, p)
  BY UnownedIs
<1>6. count \in Nat /\ count > 0 /\ align \in Nat \ {0}
  BY RequestAssumption
<1>7. b \in b .. b + count - 1
  BY <1>4, <1>6
<1>8. b \in Abs!FreeRuns(free, count, align)
  BY <1>4, <1>5, <1>7 DEF Abs!FreeRuns, Abs!Run
<1>9. ASSUME NEW q \in Abs!FreeRuns(free, count, align) PROVE b <= q
  <2>1. q \in Region /\ q % align = 0 /\ \A p \in q .. q + count - 1 : InFree(h, nf, f, p)
    BY <1>5 DEF Abs!FreeRuns, Abs!Run
  <2>2. q \in Nat /\ q \in Int
    BY <2>1, Constants DEF Region
  <2>3. PICK j \in 1 .. nf : h[f[j]].base <= q /\ q + count <= End(h, f[j])
    BY <1>6, <2>1, <2>2, RunInBlock
  <2>4. \A i \in 1 .. nf : h[f[i]].base \in Nat /\ h[f[i]].size \in Nat
    <3>1. \A i \in 1 .. nf : f[i] \in DOMAIN h
      BY <1>1, TwoListsFacts
    <3> QED BY <1>1, <3>1, NodeIs
  <2>5. h[f[j]].base \in Nat /\ h[f[j]].size \in Nat
    BY <2>4
  <2>6. FitsIn(h[f[j]], count, align) /\ AlignUp(h[f[j]].base, align) <= q
    BY <1>6, <2>1, <2>2, <2>3, <2>5, RunFits DEF End
  <2>7. ~(j \in 1 .. k)
    BY <1>3, <2>6
  <2>8. CASE j = k + 1
    BY <2>6, <2>8
  <2>9. CASE j # k + 1
    <3>1. k + 1 < j
      BY <1>1, <2>7, <2>9
    <3>2. End(h, f[k + 1]) < h[f[j]].base
      BY <1>1, <1>2, <3>1 DEF Sorted, Below
    <3>3. End(h, f[k + 1]) \in Nat
      BY <1>2, <2>4 DEF End
    <3> QED BY <1>4, <1>6, <2>2, <2>3, <2>5, <3>2, <3>3
  <2> QED BY <2>8, <2>9
<1> QED BY <1>4, <1>8, <1>9

(* The refinement mapping of DmaMem is OwnerOf.                             *)
LEMMA OwnerMap == PageOwner = OwnerOf(heap) /\ PageOwner' = OwnerOf(heap')
  BY DEF PageOwner, OwnerOf, Elements, Nth, Block, Region

(* Initial states map to initial states.                                    *)
LEMMA AbsInit == Init => Abs!Init
<1> SUFFICES ASSUME Init PROVE Abs!Init
  OBVIOUS
<1>1. PICK nf, f, nu, u : Sound(heap, nf, f, nu, u)
  BY InitSound DEF IInv
<1>2. OwnerOf(heap) = [p \in Region |-> OwnerOf(heap)[p]]
  BY <1>1, OwnerIs
<1>3. Elements(heap, USED) = {}
  <2>1. Elements(heap, USED) = Members(nu, u) /\ Path(heap, USED, nu, u)
    BY <1>1, SoundFacts, ElementsAre
  <2>2. nu \in Nat /\ heap[u[0]].next = u[0 + 1] /\ u[0] = USED /\ \A i \in 1 .. nu : u[i] \in Ids
    BY <2>1, PathFacts
  <2>3. heap[USED].next = NIL
    BY Constants DEF Init, Dsc, USED, FREE
  <2>4. nu = 0
    <3>1. u[1] = NIL
      BY <2>2, <2>3
    <3>2. ~(1 \in 1 .. nu)
      BY <2>2, <3>1, Constants
    <3> QED BY <2>2, <3>2
  <2> QED BY <2>1, <2>4 DEF Members
<1>4. OwnerOf(heap) = [p \in Region |-> NIL]
  BY <1>3 DEF OwnerOf
<1> QED BY <1>4, OwnerMap DEF Abs!Init, Abs!Region, Region

(* Every step maps to a step of DmaMemAbs or changes no owner.              *)
LEMMA AbsNext == IInv /\ [Next]_vars => [Abs!Next]_PageOwner
<1> SUFFICES ASSUME IInv, [Next]_vars PROVE Abs!Next \/ PageOwner' = PageOwner
  OBVIOUS
<1>1. PICK nf, f, nu, u : Sound(heap, nf, f, nu, u) /\ (call = Idle \/ FoundIt(heap, call, nf, f))
  BY DEF IInv
<1>2. call.pc = "found" => FoundIt(heap, call, nf, f)
  BY <1>1, IdleOrFound
<1>3. CASE heap' = heap
  BY <1>3, OwnerMap
<1>4. CASE AllocFinish
  <2>1. heap' = Carve(heap, call) /\ FoundIt(heap, call, nf, f)
    BY <1>2, <1>4 DEF AllocFinish
  <2>2. PICK k \in 0 .. nf - 1, count \in Counts, align \in Aligns : Found(heap, call, nf, f, k, count, align)
    BY <2>1 DEF FoundIt
  <2> DEFINE b    == AlignUp(heap[f[k + 1]].base, align)
             free == {p \in Region : OwnerOf(heap)[p] = NIL}
  <2>3. b = AlignUp(heap[f[k + 1]].base, align) /\ free = {p \in Region : OwnerOf(heap)[p] = NIL}
    OBVIOUS
  <2> HIDE DEF b, free
  <2>4. /\ b \in Abs!FreeRuns(free, count, align) /\ b \in Nat
        /\ \A q \in Abs!FreeRuns(free, count, align) : b <= q
    BY <1>1, <2>2, <2>3, LowestRun
  <2>5. count \in Nat
    BY RequestAssumption
  <2>6. OwnerOf(heap') = [q \in Region |-> IF q \in b .. b + count - 1 THEN b ELSE OwnerOf(heap)[q]]
    <3>1. Grown(heap, nu, u, heap', b, count)
      BY <1>1, <2>1, <2>2, <2>3, FinishGrown
    <3> QED BY <1>1, <2>4, <2>5, <3>1, GrownOwners
  <2>7. Abs!Alloc(count, align)
    BY <2>3, <2>4, <2>6, OwnerMap, Zenon DEF Abs!Alloc, Abs!Run, Abs!Region, Region
  <2> QED BY <2>7 DEF Abs!Next
<1>5. ASSUME NEW base \in Region, Free(base) PROVE Abs!Next
  <2>1. PICK d \in Members(nu, u) : heap[d].base = base /\ Shrunk(heap, nu, u, d, heap')
    BY <1>1, <1>5, FreeFound
  <2>2. /\ OwnerOf(heap') = [q \in Region |-> IF OwnerOf(heap)[q] = base THEN NIL ELSE OwnerOf(heap)[q]]
        /\ OwnerOf(heap)[base] = base
    BY <1>1, <2>1, ShrunkOwners
  <2>3. Abs!Free(base)
    BY <2>2, OwnerMap DEF Abs!Free, Abs!Region, Region
  <2> QED BY <2>3 DEF Abs!Next, Abs!Region, Region
<1> QED BY <1>3, <1>4, <1>5, Zenon DEF Next, AllocSearch, AllocNoSpace, AllocNoMemory, FreeUnknown, vars

(* dmamem_alloc() and dmamem_free() implement the abstract allocator: an    *)
(* allocation is the lowest aligned run of free pages, a free gives back    *)
(* exactly what was handed out under that address, and no other step shows. *)
THEOREM Refinement == Spec => ImplementsAbs
<1>1. Init => Abs!Init
  BY AbsInit
<1>2. IInv /\ [Next]_vars => [Abs!Next]_PageOwner
  BY AbsNext
<1> QED BY <1>1, <1>2, Invariance, PTL DEF Spec, ImplementsAbs, Abs!Spec
=============================================================================
