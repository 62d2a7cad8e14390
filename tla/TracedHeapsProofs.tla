-------------------------- MODULE TracedHeapsProofs --------------------------
(***************************************************************************)
(* Proofs about TracedHeaps.tla for every set of heaps, addresses, sizes   *)
(* and times: what the tool knows of the heaps of a program that uses the  *)
(* event functions as the tool reads them is what the program did.  Every  *)
(* heap is proved to stay paired with the program's heap of the same id;   *)
(* a step changes one pair, or makes one.                                  *)
(***************************************************************************)
EXTENDS TracedHeaps, MemoryStateProofs

USE ConstantsAssumption, ProgramAssumption

-----------------------------------------------------------------------------
(***************************************************************************)
(* The program's heaps.                                                    *)
(***************************************************************************)
Blocks == [size : Sizes, owned : BOOLEAN]

Truths == [cores : Maps(Pointers, Nat), live : Maps(Pointers, Blocks),
           outside : SUBSET Pointers, closing : BOOLEAN, gone : BOOLEAN]

Destroyed(w) == [w EXCEPT !.gone = TRUE]
WithTrueCores(w, x) == [w EXCEPT !.cores = x]
WithLive(w, x) == [w EXCEPT !.live = x]
WithLiveOutside(w, x, p) == [w EXCEPT !.live = x, !.outside = @ \cup {p}]
Closed(w) == [w EXCEPT !.live = Empty, !.closing = TRUE]

LEMMA TruthFields ==
  ASSUME NEW w \in Truths
  PROVE  /\ w.cores \in Maps(Pointers, Nat) /\ w.live \in Maps(Pointers, Blocks)
         /\ w.outside \in SUBSET Pointers /\ w.closing \in BOOLEAN /\ w.gone \in BOOLEAN
BY DEF Truths

LEMMA TruthMade ==
  /\ NewTruth \in Truths /\ NewTruth.cores = Empty /\ NewTruth.live = Empty
  /\ NewTruth.outside = {} /\ NewTruth.closing = FALSE
<1>1. Empty \in Maps(Pointers, Nat) /\ Empty \in Maps(Pointers, Blocks)
  BY EmptyIs
<1> QED
  BY <1>1 DEF NewTruth, Truths

LEMMA TruthWritten ==
  ASSUME NEW w \in Truths
  PROVE  /\ Destroyed(w) \in Truths /\ Destroyed(w).cores = w.cores /\ Destroyed(w).live = w.live
         /\ Destroyed(w).outside = w.outside /\ Destroyed(w).closing = w.closing
         /\ \A x \in Maps(Pointers, Nat) :
              /\ WithTrueCores(w, x) \in Truths /\ WithTrueCores(w, x).cores = x
              /\ WithTrueCores(w, x).live = w.live /\ WithTrueCores(w, x).outside = w.outside
              /\ WithTrueCores(w, x).closing = w.closing
         /\ \A x \in Maps(Pointers, Blocks) :
              /\ WithLive(w, x) \in Truths /\ WithLive(w, x).live = x
              /\ WithLive(w, x).cores = w.cores /\ WithLive(w, x).outside = w.outside
              /\ WithLive(w, x).closing = w.closing
         /\ \A x \in Maps(Pointers, Blocks), p \in Pointers :
              /\ WithLiveOutside(w, x, p) \in Truths /\ WithLiveOutside(w, x, p).live = x
              /\ WithLiveOutside(w, x, p).cores = w.cores
              /\ WithLiveOutside(w, x, p).outside = w.outside \cup {p}
              /\ WithLiveOutside(w, x, p).closing = w.closing
<1>1. /\ Destroyed(w) \in Truths /\ Destroyed(w).cores = w.cores /\ Destroyed(w).live = w.live
      /\ Destroyed(w).outside = w.outside /\ Destroyed(w).closing = w.closing
  BY DEF Destroyed, Truths
<1>2. ASSUME NEW x \in Maps(Pointers, Nat)
      PROVE  /\ WithTrueCores(w, x) \in Truths /\ WithTrueCores(w, x).cores = x
             /\ WithTrueCores(w, x).live = w.live /\ WithTrueCores(w, x).outside = w.outside
             /\ WithTrueCores(w, x).closing = w.closing
  BY DEF WithTrueCores, Truths
<1>3. ASSUME NEW x \in Maps(Pointers, Blocks)
      PROVE  /\ WithLive(w, x) \in Truths /\ WithLive(w, x).live = x
             /\ WithLive(w, x).cores = w.cores /\ WithLive(w, x).outside = w.outside
             /\ WithLive(w, x).closing = w.closing
  BY DEF WithLive, Truths
<1>4. ASSUME NEW x \in Maps(Pointers, Blocks), NEW p \in Pointers
      PROVE  /\ WithLiveOutside(w, x, p) \in Truths /\ WithLiveOutside(w, x, p).live = x
             /\ WithLiveOutside(w, x, p).cores = w.cores
             /\ WithLiveOutside(w, x, p).outside = w.outside \cup {p}
             /\ WithLiveOutside(w, x, p).closing = w.closing
  BY DEF WithLiveOutside, Truths
<1> QED
  BY <1>1, <1>2, <1>3, <1>4

LEMMA TruthClosed ==
  ASSUME NEW w \in Truths
  PROVE  /\ Closed(w) \in Truths /\ Closed(w).live = Empty /\ Closed(w).cores = w.cores
         /\ Closed(w).outside = w.outside /\ Closed(w).closing = TRUE
<1>1. Empty \in Maps(Pointers, Blocks)
  BY EmptyIs
<1> QED
  BY <1>1 DEF Closed, Truths

-----------------------------------------------------------------------------
(***************************************************************************)
(* Blocks that lie apart.                                                  *)
(***************************************************************************)
SizesOf(live) == [p \in DOMAIN live |-> live[p].size]

\* The bytes of the cores, and those of the live allocations.
CoreSpan(w) == UNION {Bytes(b, w.cores[b]) : b \in DOMAIN w.cores}

LiveSpan(w) == UNION {Bytes(p, w.live[p].size) : p \in DOMAIN w.live}

LEMMA BytesAre ==
  ASSUME NEW b \in Nat, NEW s \in Nat
  PROVE  /\ \A x : x \in Bytes(b, s) <=> x \in Int /\ b <= x /\ x < b + s
         /\ s > 0 => b \in Bytes(b, s) /\ b + s - 1 \in Bytes(b, s)
BY DEF Bytes

\* Blocks that are not empty and share no byte lie one behind the other.
LEMMA BytesApart ==
  ASSUME NEW p \in Nat, NEW s \in Nat \ {0}, NEW q \in Nat, NEW r \in Nat \ {0},
         Bytes(p, s) \cap Bytes(q, r) = {}
  PROVE  p + s <= q \/ q + r <= p
<1>1. CASE p <= q
  <2>1. q \in Bytes(q, r) /\ (q < p + s => q \in Bytes(p, s))
    BY <1>1 DEF Bytes
  <2> QED
    BY <2>1
<1>2. CASE q < p
  <2>1. p \in Bytes(p, s) /\ (p < q + r => p \in Bytes(q, r))
    BY <1>2 DEF Bytes
  <2> QED
    BY <2>1
<1> QED
  BY <1>1, <1>2

\* A block put at an address that holds none, apart from all the others.
LEMMA ApartPut ==
  ASSUME NEW f, DOMAIN f \subseteq Nat, \A p \in DOMAIN f : f[p] \in Nat \ {0}, Apart(f),
         NEW q \in Nat, NEW s \in Nat \ {0},
         \A p \in DOMAIN f \ {q} : Bytes(q, s) \cap Bytes(p, f[p]) = {}
  PROVE  Apart(Put(f, q, s))
<1> DEFINE g == Put(f, q, s)
<1>1. DOMAIN g = DOMAIN f \cup {q} /\ g[q] = s /\ \A x \in DOMAIN f \ {q} : g[x] = f[x]
  BY DEF Put
<1>2. \A x \in DOMAIN f \ {q} : q + s <= x \/ x + f[x] <= q
  BY BytesApart
<1> HIDE DEF g
<1> SUFFICES ASSUME NEW x \in DOMAIN g, NEW y \in DOMAIN g, x < y
             PROVE  x + g[x] <= y
  BY DEF Apart, g
<1>3. CASE x = q
  <2>1. y \in DOMAIN f \ {q} /\ y \in Nat /\ f[y] \in Nat
    BY <1>1, <1>3
  <2>2. q + s <= y \/ y + f[y] <= q
    BY <1>2, <2>1
  <2> QED
    BY <1>1, <1>3, <2>1, <2>2
<1>4. CASE y = q
  <2>1. x \in DOMAIN f \ {q} /\ x \in Nat /\ g[x] = f[x]
    BY <1>1, <1>4
  <2>2. q + s <= x \/ x + f[x] <= q
    BY <1>2, <2>1
  <2> QED
    BY <1>4, <2>1, <2>2
<1>5. CASE x # q /\ y # q
  BY <1>1, <1>5 DEF Apart
<1> QED
  BY <1>3, <1>4, <1>5

LEMMA ApartErase ==
  ASSUME NEW f, Apart(f), NEW q
  PROVE  Apart(Erase(f, q))
BY DEF Apart, Erase, Restrict

-----------------------------------------------------------------------------
(***************************************************************************)
(* A heap of the tool paired with the program's.                           *)
(***************************************************************************)
\* The program's cores are apart, and so are its live allocations.
WellFormed(w) ==
  /\ \A b \in DOMAIN w.cores : w.cores[b] > 0 /\ b + w.cores[b] < Word
  /\ Apart(w.cores)
  /\ \A p \in DOMAIN w.live : w.live[p].size > 0 /\ p + w.live[p].size < Word
  /\ Apart(SizesOf(w.live))

\* The cores are known, and the maxima cover.
Follows(h, w) ==
  /\ DOMAIN h.cores = DOMAIN w.cores
  /\ \A b \in DOMAIN w.cores : h.cores[b].managed = w.cores[b] /\ h.cores[b].end = b + w.cores[b]
  /\ h.managed = Total(w.cores)
  /\ DOMAIN h.allocations \subseteq w.outside
  /\ h.max_used >= h.used /\ h.max_managed >= h.managed

Owned(w) == {p \in DOMAIN w.live : w.live[p].owned}

\* alloc_to_core names a core that holds the address.
Places(h, w) ==
  /\ DOMAIN h.alloc_to_core = Owned(w)
  /\ \A p \in Owned(w) : LET b == h.alloc_to_core[p]
                         IN  b \in DOMAIN w.cores /\ b <= p /\ p < b + w.cores[b]

\* The core c at b records the allocations placed there.
CoreRecords(c, b, places, w) ==
  /\ DOMAIN c.allocations = {p \in Owned(w) : places[p] = b}
  /\ \A p \in DOMAIN c.allocations : c.allocations[p] = w.live[p].size
  /\ c.used = Total(c.allocations)

Records(h, w) ==
  /\ h.used = Total(SizesOf(w.live))
  /\ \A p \in DOMAIN w.live \ Owned(w) :
       p \in DOMAIN h.allocations /\ h.allocations[p] = w.live[p].size
  /\ Places(h, w)
  /\ \A b \in DOMAIN w.cores : CoreRecords(h.cores[b], b, h.alloc_to_core, w)

Paired(h, w) ==
  /\ h \in Heaps /\ w \in Truths /\ WellFormed(w) /\ Follows(h, w)
  /\ ~w.closing => Records(h, w)

LEMMA CoreNumbers ==
  ASSUME NEW w \in Truths, WellFormed(w)
  PROVE  /\ IsFiniteSet(DOMAIN w.cores) /\ DOMAIN w.cores \subseteq Pointers
         /\ \A b \in DOMAIN w.cores : b \in Nat /\ w.cores[b] \in Nat \ {0} /\ b + w.cores[b] < Word
         /\ Naturals(w.cores) /\ Total(w.cores) \in Size
<1>1. w.cores \in Maps(Pointers, Nat)
  BY TruthFields
<1>2. IsFiniteSet(DOMAIN w.cores) /\ DOMAIN w.cores \subseteq Pointers
  BY <1>1, MapsAreFinite
<1>3. \A b \in DOMAIN w.cores : w.cores[b] \in Nat
  BY <1>1, MapIs
<1>4. \A b \in DOMAIN w.cores : b \in Nat
  BY <1>2, ConstantsNatural
<1>5. \A b \in DOMAIN w.cores : w.cores[b] > 0 /\ b + w.cores[b] < Word
  BY DEF WellFormed
<1>6. \A b \in DOMAIN w.cores : b + w.cores[b] <= Word - 1
  BY <1>3, <1>4, <1>5
<1>7. Naturals(w.cores)
  BY <1>2, <1>3 DEF Naturals
<1>8. Total(w.cores) <= Word - 1
  <2>1. Word - 1 \in Nat /\ Apart(w.cores) /\ DOMAIN w.cores \subseteq Nat
    BY <1>4 DEF WellFormed
  <2> QED
    BY <1>6, <1>7, <2>1, ApartFits
<1>9. Total(w.cores) \in Nat
  BY <1>7, TotalNatural
<1> QED
  BY <1>2, <1>3, <1>4, <1>5, <1>7, <1>8, <1>9 DEF Size

LEMMA LiveNumbers ==
  ASSUME NEW w \in Truths, WellFormed(w)
  PROVE  /\ IsFiniteSet(DOMAIN w.live) /\ DOMAIN w.live \subseteq Pointers
         /\ \A p \in DOMAIN w.live : /\ p \in Nat /\ w.live[p].size \in Nat \ {0}
                                     /\ p + w.live[p].size < Word
                                     /\ w.live[p].size \in Sizes /\ w.live[p].owned \in BOOLEAN
         /\ DOMAIN SizesOf(w.live) = DOMAIN w.live
         /\ \A p \in DOMAIN w.live : SizesOf(w.live)[p] = w.live[p].size
         /\ Naturals(SizesOf(w.live)) /\ Total(SizesOf(w.live)) \in Size
<1> DEFINE f == SizesOf(w.live)
<1>1. w.live \in Maps(Pointers, Blocks)
  BY TruthFields
<1>2. IsFiniteSet(DOMAIN w.live) /\ DOMAIN w.live \subseteq Pointers
  BY <1>1, MapsAreFinite
<1>3. \A p \in DOMAIN w.live : w.live[p] \in Blocks
  BY <1>1, MapIs
<1>4. \A p \in DOMAIN w.live : w.live[p].size \in Sizes /\ w.live[p].owned \in BOOLEAN
  BY <1>3 DEF Blocks
<1>5. \A p \in DOMAIN w.live : p \in Nat /\ w.live[p].size \in Nat
  BY <1>2, <1>4, ConstantsNatural
<1>6. \A p \in DOMAIN w.live : w.live[p].size > 0 /\ p + w.live[p].size < Word
  BY DEF WellFormed
<1>7. DOMAIN f = DOMAIN w.live /\ \A p \in DOMAIN w.live : f[p] = w.live[p].size
  BY DEF SizesOf
<1> HIDE DEF f
<1>8. \A p \in DOMAIN f : f[p] \in Nat /\ p \in Nat /\ p + f[p] <= Word - 1
  BY <1>5, <1>6, <1>7
<1>9. Naturals(f)
  BY <1>2, <1>7, <1>8 DEF Naturals
<1>10. Total(f) <= Word - 1
  <2>1. Word - 1 \in Nat /\ Apart(f) /\ DOMAIN f \subseteq Nat
    BY <1>8 DEF WellFormed, f
  <2> QED
    BY <1>8, <1>9, <2>1, ApartFits
<1>11. Total(f) \in Nat
  BY <1>9, TotalNatural
<1>12. Total(f) \in Size
  BY <1>10, <1>11 DEF Size
<1> QED
  BY <1>2, <1>4, <1>5, <1>6, <1>7, <1>9, <1>12 DEF f

\* Counters that do not wrap.
LEMMA CountersExact ==
  ASSUME NEW a \in Nat, NEW b \in Nat
  PROVE  /\ a + b \in Size => Plus(a, b) = a + b
         /\ a < Word /\ b <= a => Minus(a, b) = a - b
<1>1. ASSUME a + b \in Size
      PROVE  Plus(a, b) = a + b
  BY <1>1 DEF Plus, Size
<1>2. ASSUME a < Word, b <= a
      PROVE  Minus(a, b) = a - b
  BY <1>2 DEF Minus
<1> QED
  BY <1>1, <1>2

LEMMA LargerCovers ==
  ASSUME NEW a \in Size, NEW b \in Size
  PROVE  Larger(a, b) >= b /\ Larger(a, b) >= a
BY DEF Larger, Size

\* A pair depends on these fields only.
LEMMA PairedLikewise ==
  ASSUME NEW h, NEW w, Paired(h, w), NEW g \in Heaps, NEW x \in Truths,
         g.used = h.used, g.managed = h.managed,
         g.max_used = h.max_used, g.max_managed = h.max_managed,
         g.cores = h.cores, g.alloc_to_core = h.alloc_to_core, g.allocations = h.allocations,
         x.cores = w.cores, x.live = w.live, x.outside = w.outside, x.closing = w.closing
  PROVE  Paired(g, x)
<1>1. WellFormed(x)
  BY DEF Paired, WellFormed
<1>2. Follows(g, x)
  BY DEF Paired, Follows
<1>3. Owned(x) = Owned(w)
  BY DEF Owned
<1>4. ASSUME ~w.closing
      PROVE  Records(g, x)
  <2>1. Records(h, w)
    BY <1>4 DEF Paired
  <2>2. Places(g, x)
    BY <1>3, <2>1 DEF Records, Places
  <2>3. \A b \in DOMAIN x.cores : CoreRecords(g.cores[b], b, g.alloc_to_core, x)
    BY <1>3, <2>1 DEF Records, CoreRecords
  <2> QED
    BY <1>3, <2>1, <2>2, <2>3 DEF Records
<1> QED
  BY <1>1, <1>2, <1>4 DEF Paired

LEMMA PairedSampled ==
  ASSUME NEW h, NEW w, Paired(h, w), NEW t \in Times
  PROVE  Paired(Sample(h, t), w)
<1>1. h \in Heaps /\ w \in Truths
  BY DEF Paired
<1> DEFINE g == Sample(h, t)
<1>2. /\ g \in Heaps /\ g.used = h.used /\ g.managed = h.managed
      /\ g.max_used = h.max_used /\ g.max_managed = h.max_managed
      /\ g.cores = h.cores /\ g.alloc_to_core = h.alloc_to_core /\ g.allocations = h.allocations
  BY <1>1, Sampled
<1> HIDE DEF g
<1>3. Paired(g, w)
  BY <1>1, <1>2, PairedLikewise
<1> QED
  BY <1>3 DEF g

LEMMA PairedNew ==
  ASSUME NEW t \in Times, NEW m \in Garbage, NEW u \in Garbage
  PROVE  Paired(NewHeap(t, m, u), NewTruth)
<1> DEFINE h == NewHeap(t, m, u)
           w == NewTruth
<1>1. /\ h \in Heaps /\ h.used = 0 /\ h.managed = 0 /\ h.max_managed = m /\ h.max_used = u
      /\ h.cores = Empty /\ h.alloc_to_core = Empty /\ h.allocations = Empty
  BY HeapMade
<1>2. w \in Truths /\ w.cores = Empty /\ w.live = Empty /\ w.outside = {}
  BY TruthMade
<1> HIDE DEF h, w
<1>3. DOMAIN Empty = {} /\ Total(Empty) = 0 /\ SizesOf(Empty) = Empty
  BY EmptyIs, EmptyTotal DEF SizesOf, Empty
<1>4. WellFormed(w)
  BY <1>2, <1>3 DEF WellFormed, Apart
<1>5. m >= 0 /\ u >= 0
  BY ConstantsFit DEF Size
<1>6. Follows(h, w)
  BY <1>1, <1>2, <1>3, <1>5 DEF Follows
<1>7. Owned(w) = {}
  BY <1>2, <1>3 DEF Owned
<1>8. Records(h, w)
  BY <1>1, <1>2, <1>3, <1>7 DEF Records, Places
<1>9. Paired(h, w)
  BY <1>1, <1>2, <1>4, <1>6, <1>8 DEF Paired
<1> QED
  BY <1>9 DEF h, w

-----------------------------------------------------------------------------
(***************************************************************************)
(* Each event keeps the pair it is about.                                  *)
(***************************************************************************)
LEMMA AddressableFits ==
  ASSUME NEW b \in Nat, NEW s \in Nat \ {0}, Addressable(b, s)
  PROVE  b + s < Word /\ b \in Pointers
<1>1. b \in Bytes(b, s) /\ b + s - 1 \in Bytes(b, s)
  BY BytesAre
<1>2. b \in Pointers /\ b + s - 1 \in Pointers
  BY <1>1 DEF Addressable
<1>3. (b + s - 1) + 1 < Word
  BY <1>2
<1> QED
  BY <1>2, <1>3

LEMMA PairedAddCore ==
  ASSUME NEW h, NEW w, Paired(h, w), NEW b \in Pointers, NEW s \in Sizes, s > 0,
         Addressable(b, s), Bytes(b, s) \cap CoreSpan(w) = {}
  PROVE  /\ b \notin DOMAIN h.cores
         /\ Paired(HeapAddCore(h, b, s), WithTrueCores(w, Put(w.cores, b, s)))
<1> DEFINE g == HeapAddCore(h, b, s)
           cores == Put(w.cores, b, s)
           x == WithTrueCores(w, cores)
<1>1. h \in Heaps /\ w \in Truths /\ WellFormed(w) /\ Follows(h, w)
  BY DEF Paired
<1>2. b \in Nat /\ s \in Nat \ {0} /\ b + s < Word
  <2>1. b \in Nat /\ s \in Nat
    BY ConstantsNatural
  <2> QED
    BY <2>1, AddressableFits
<1>3. \A c \in DOMAIN w.cores : Bytes(b, s) \cap Bytes(c, w.cores[c]) = {}
  BY DEF CoreSpan
<1>4. \A c \in DOMAIN w.cores : /\ c \in Nat /\ w.cores[c] \in Nat \ {0}
                                /\ c + w.cores[c] < Word
  BY <1>1, CoreNumbers
<1>5. b \notin DOMAIN w.cores
  <2>1. b \in Bytes(b, s)
    BY <1>2, BytesAre
  <2>2. ASSUME b \in DOMAIN w.cores
        PROVE  b \in Bytes(b, w.cores[b])
    <3>1. b \in Nat /\ w.cores[b] \in Nat /\ w.cores[b] > 0
      BY <1>4, <2>2
    <3> QED
      BY <3>1, BytesAre
  <2> QED
    BY <1>3, <2>1, <2>2
<1>6. DOMAIN h.cores = DOMAIN w.cores
  BY <1>1 DEF Follows
<1>7. /\ DOMAIN cores = DOMAIN w.cores \cup {b} /\ cores[b] = s
      /\ \A c \in DOMAIN w.cores : cores[c] = w.cores[c]
  BY <1>5 DEF Put
<1>8. x \in Truths /\ x.cores = cores /\ x.live = w.live /\ x.outside = w.outside
      /\ x.closing = w.closing
  <2>1. cores \in Maps(Pointers, Nat)
    BY <1>1, <1>2, TruthFields, PutMap
  <2> QED
    BY <1>1, <2>1, TruthWritten
<1>9. /\ g \in Heaps /\ g.cores = Put(h.cores, b, NewCore(b, s))
      /\ g.managed = Plus(h.managed, s) /\ g.max_managed = Larger(h.max_managed, g.managed)
      /\ g.used = h.used /\ g.max_used = h.max_used
      /\ g.alloc_to_core = h.alloc_to_core /\ g.allocations = h.allocations
  BY <1>1, <1>5, <1>6, CoreAdded
<1>10. Apart(cores)
  <2>1. Apart(w.cores)
    BY <1>1 DEF WellFormed
  <2> QED
    BY <1>2, <1>3, <1>4, <2>1, ApartPut
<1>11. Total(cores) = Total(w.cores) + s /\ Total(w.cores) \in Nat
  BY <1>1, <1>2, <1>5, CoreNumbers, TotalPut, TotalNatural
<1> HIDE DEF cores, x, g
<1>12. WellFormed(x)
  <2>1. \A c \in DOMAIN x.cores : x.cores[c] > 0 /\ c + x.cores[c] < Word
    BY <1>2, <1>4, <1>7, <1>8
  <2> QED
    BY <1>1, <1>8, <1>10, <2>1 DEF WellFormed
<1>13. /\ DOMAIN g.cores = DOMAIN w.cores \cup {b} /\ g.cores[b] = NewCore(b, s)
       /\ \A c \in DOMAIN w.cores : g.cores[c] = h.cores[c]
  BY <1>5, <1>6, <1>9 DEF Put
<1>14. /\ NewCore(b, s).managed = s /\ NewCore(b, s).end = b + s
       /\ NewCore(b, s).used = 0 /\ NewCore(b, s).allocations = Empty
  <2>1. b + s \in Size
    BY <1>2 DEF Size
  <2> QED
    BY <1>2, <2>1, CoreMade, CountersExact
<1>15. Follows(g, x)
  <2>1. \A c \in DOMAIN x.cores : g.cores[c].managed = x.cores[c] /\ g.cores[c].end = c + x.cores[c]
    BY <1>1, <1>7, <1>8, <1>13, <1>14 DEF Follows
  <2>2. g.managed = Total(x.cores)
    <3>1. h.managed = Total(w.cores) /\ Total(w.cores) + s \in Size
      BY <1>1, <1>8, <1>11, <1>12, CoreNumbers DEF Follows
    <3> QED
      BY <1>2, <1>8, <1>9, <1>11, <3>1, CountersExact
  <2>3. g.max_managed >= g.managed /\ g.max_used >= g.used
    <3>1. g.managed \in Size /\ h.max_managed \in Size
      BY <1>1, <1>9, HeapFields
    <3> QED
      BY <1>1, <1>9, <3>1, LargerCovers DEF Follows
  <2>4. DOMAIN g.allocations \subseteq x.outside
    BY <1>1, <1>8, <1>9 DEF Follows
  <2> QED
    BY <1>7, <1>8, <1>13, <2>1, <2>2, <2>3, <2>4 DEF Follows
<1>16. ASSUME ~x.closing
       PROVE  Records(g, x)
  <2>1. Records(h, w)
    BY <1>8, <1>16 DEF Paired
  <2>2. Owned(x) = Owned(w)
    BY <1>8 DEF Owned
  <2>3. Places(h, w)
    BY <2>1 DEF Records
  <2>4. Places(g, x)
    BY <1>7, <1>8, <1>9, <2>2, <2>3 DEF Places
  <2>5. ASSUME NEW c \in DOMAIN w.cores
        PROVE  CoreRecords(g.cores[c], c, g.alloc_to_core, x)
    <3>1. CoreRecords(h.cores[c], c, h.alloc_to_core, w)
      BY <2>1 DEF Records
    <3> QED
      BY <1>8, <1>9, <1>13, <2>2, <3>1 DEF CoreRecords
  <2>6. CoreRecords(g.cores[b], b, g.alloc_to_core, x)
    <3>1. \A p \in Owned(w) : h.alloc_to_core[p] # b
      BY <1>5, <2>3 DEF Places
    <3> QED
      BY <1>9, <1>13, <1>14, <2>2, <3>1, EmptyIs, EmptyTotal DEF CoreRecords
  <2>7. \A c \in DOMAIN x.cores : CoreRecords(g.cores[c], c, g.alloc_to_core, x)
    BY <1>7, <1>8, <2>5, <2>6
  <2> QED
    BY <1>8, <1>9, <2>1, <2>2, <2>4, <2>7 DEF Records
<1>17. Paired(g, x)
  BY <1>8, <1>9, <1>12, <1>15, <1>16 DEF Paired
<1> QED
  BY <1>5, <1>6, <1>17 DEF g, x, cores

LEMMA PairedGrowCore ==
  ASSUME NEW h, NEW w, Paired(h, w), NEW b \in DOMAIN w.cores, NEW s \in Sizes, s > 0,
         Addressable(b, w.cores[b] + s), Bytes(b + w.cores[b], s) \cap CoreSpan(w) = {}
  PROVE  /\ b \in DOMAIN h.cores
         /\ Paired(HeapGrowCore(h, b, s), WithTrueCores(w, Put(w.cores, b, w.cores[b] + s)))
<1> DEFINE g == HeapGrowCore(h, b, s)
           r == w.cores[b]
           cores == Put(w.cores, b, r + s)
           x == WithTrueCores(w, cores)
           d == Grow(h.cores[b], s)
<1>1. h \in Heaps /\ w \in Truths /\ WellFormed(w) /\ Follows(h, w)
  BY DEF Paired
<1>2. \A c \in DOMAIN w.cores : /\ c \in Nat /\ w.cores[c] \in Nat \ {0} /\ c \in Pointers
                                /\ c + w.cores[c] < Word
  BY <1>1, CoreNumbers
<1>3. b \in Nat /\ b \in Pointers /\ r \in Nat \ {0} /\ s \in Nat \ {0}
  <2>1. s \in Nat
    BY ConstantsNatural
  <2> QED
    BY <1>2, <2>1
<1>4. b + (r + s) < Word /\ r + s \in Nat \ {0}
  <2>1. r + s \in Nat \ {0}
    BY <1>3
  <2> HIDE DEF r
  <2>2. Addressable(b, r + s)
    BY DEF r
  <2> QED
    BY <1>3, <2>1, <2>2, AddressableFits
<1>5. \A c \in DOMAIN w.cores \ {b} : Bytes(b, r + s) \cap Bytes(c, w.cores[c]) = {}
  <2> SUFFICES ASSUME NEW c \in DOMAIN w.cores \ {b}, NEW y, y \in Bytes(b, r + s),
                      y \in Bytes(c, w.cores[c])
               PROVE  FALSE
    OBVIOUS
  <2>1. c \in Nat /\ w.cores[c] \in Nat /\ y \in Int /\ c <= y /\ y < c + w.cores[c]
    BY <1>2, BytesAre
  <2>2. y \in Bytes(b, r) \/ y \in Bytes(b + r, s)
    BY <1>3, <2>1 DEF Bytes
  <2>3. y \notin Bytes(b + r, s)
    BY DEF CoreSpan
  <2>4. b <= y /\ y < b + r
    BY <1>3, <2>2, <2>3, BytesAre
  <2>5. Apart(w.cores)
    BY <1>1 DEF WellFormed
  <2>6. c < b => c + w.cores[c] <= b
    BY <2>5 DEF Apart
  <2>7. b < c => b + r <= c
    BY <2>5 DEF Apart
  <2> QED
    BY <1>3, <2>1, <2>4, <2>6, <2>7
<1>6. DOMAIN h.cores = DOMAIN w.cores /\ h.cores[b].managed = r /\ h.cores[b].end = b + r
  BY <1>1 DEF Follows
<1>7. /\ DOMAIN cores = DOMAIN w.cores /\ cores[b] = r + s
      /\ \A c \in DOMAIN w.cores \ {b} : cores[c] = w.cores[c]
  BY DEF Put
<1>8. x \in Truths /\ x.cores = cores /\ x.live = w.live /\ x.outside = w.outside
      /\ x.closing = w.closing
  <2>1. cores \in Maps(Pointers, Nat)
    BY <1>1, <1>3, <1>4, TruthFields, PutMap
  <2> QED
    BY <1>1, <2>1, TruthWritten
<1>9. /\ g \in Heaps /\ g.cores = Put(h.cores, b, d)
      /\ g.managed = Plus(h.managed, s) /\ g.max_managed = Larger(h.max_managed, g.managed)
      /\ g.used = h.used /\ g.max_used = h.max_used
      /\ g.alloc_to_core = h.alloc_to_core /\ g.allocations = h.allocations
  BY <1>1, <1>3, <1>6, CoreGrown
<1>10. /\ d.managed = Plus(h.cores[b].managed, s) /\ d.end = Plus(h.cores[b].end, s)
       /\ d.used = h.cores[b].used /\ d.allocations = h.cores[b].allocations
  BY <1>1, <1>6, CoreOf, CoreGrows
<1>11. Apart(cores)
  <2>1. Apart(w.cores)
    BY <1>1 DEF WellFormed
  <2> HIDE DEF r
  <2> QED
    BY <1>2, <1>3, <1>4, <1>5, <2>1, ApartPut
<1>12. Total(cores) = Total(w.cores) + s /\ Total(w.cores) \in Nat
  <2>1. Naturals(w.cores) /\ r + s \in Nat /\ b \in DOMAIN w.cores /\ w.cores[b] = r
    BY <1>1, <1>4, CoreNumbers
  <2> HIDE DEF r
  <2>2. Total(cores) + r = Total(w.cores) + (r + s) /\ Naturals(cores)
    BY <2>1, TotalPut
  <2>3. Total(cores) \in Nat /\ Total(w.cores) \in Nat
    BY <2>1, <2>2, TotalNatural
  <2> HIDE DEF cores
  <2> QED
    BY <1>3, <2>2, <2>3
<1> HIDE DEF cores, x, g, d, r
<1>13. WellFormed(x)
  <2>1. \A c \in DOMAIN x.cores : x.cores[c] > 0 /\ c + x.cores[c] < Word
    BY <1>2, <1>3, <1>4, <1>7, <1>8
  <2> QED
    BY <1>1, <1>8, <1>11, <2>1 DEF WellFormed
<1>14. /\ DOMAIN g.cores = DOMAIN w.cores /\ g.cores[b] = d
       /\ \A c \in DOMAIN w.cores \ {b} : g.cores[c] = h.cores[c]
  BY <1>6, <1>9 DEF Put
<1>15. d.managed = r + s /\ d.end = b + (r + s)
  <2>1. r + s \in Size /\ (b + r) + s \in Size /\ b + r \in Nat /\ (b + r) + s = b + (r + s)
    BY <1>3, <1>4 DEF Size
  <2> QED
    BY <1>3, <1>6, <1>10, <2>1, CountersExact
<1>16. Follows(g, x)
  <2>1. \A c \in DOMAIN x.cores : g.cores[c].managed = x.cores[c] /\ g.cores[c].end = c + x.cores[c]
    BY <1>1, <1>7, <1>8, <1>14, <1>15 DEF Follows
  <2>2. g.managed = Total(x.cores)
    <3>1. h.managed = Total(w.cores) /\ Total(w.cores) + s \in Size
      BY <1>1, <1>8, <1>12, <1>13, CoreNumbers DEF Follows
    <3> QED
      BY <1>3, <1>8, <1>9, <1>12, <3>1, CountersExact
  <2>3. g.max_managed >= g.managed /\ g.max_used >= g.used
    <3>1. g.managed \in Size /\ h.max_managed \in Size
      BY <1>1, <1>9, HeapFields
    <3> QED
      BY <1>1, <1>9, <3>1, LargerCovers DEF Follows
  <2>4. DOMAIN g.allocations \subseteq x.outside
    BY <1>1, <1>8, <1>9 DEF Follows
  <2> QED
    BY <1>7, <1>8, <1>14, <2>1, <2>2, <2>3, <2>4 DEF Follows
<1>17. ASSUME ~x.closing
       PROVE  Records(g, x)
  <2>1. Records(h, w)
    BY <1>8, <1>17 DEF Paired
  <2>2. Owned(x) = Owned(w)
    BY <1>8 DEF Owned
  <2>3. Places(g, x)
    <3>1. Places(h, w)
      BY <2>1 DEF Records
    <3>2. ASSUME NEW p \in Owned(w)
          PROVE  LET c == h.alloc_to_core[p]
                 IN  c \in DOMAIN x.cores /\ c <= p /\ p < c + x.cores[c]
      <4> DEFINE c == h.alloc_to_core[p]
      <4>1. c \in DOMAIN w.cores /\ c <= p /\ p < c + w.cores[c]
        BY <3>1 DEF Places
      <4>2. p \in Nat
        BY <1>1, LiveNumbers DEF Owned
      <4> HIDE DEF c
      <4>3. CASE c = b
        <5>1. p < b + r /\ r = w.cores[b]
          BY <4>1, <4>3 DEF r
        <5>2. p < b + (r + s)
          BY <1>3, <4>2, <5>1
        <5> QED
          BY <1>7, <1>8, <4>1, <4>3, <5>2 DEF c
      <4>4. CASE c # b
        BY <1>7, <1>8, <4>1, <4>4 DEF c
      <4> QED
        BY <4>3, <4>4
    <3> QED
      BY <1>9, <2>2, <3>1, <3>2 DEF Places
  <2>4. ASSUME NEW c \in DOMAIN w.cores
        PROVE  CoreRecords(g.cores[c], c, g.alloc_to_core, x)
    <3>1. CoreRecords(h.cores[c], c, h.alloc_to_core, w)
      BY <2>1 DEF Records
    <3>2. g.cores[c].allocations = h.cores[c].allocations /\ g.cores[c].used = h.cores[c].used
      BY <1>10, <1>14
    <3> QED
      BY <1>8, <1>9, <2>2, <3>1, <3>2 DEF CoreRecords
  <2>5. \A c \in DOMAIN x.cores : CoreRecords(g.cores[c], c, g.alloc_to_core, x)
    BY <1>7, <1>8, <2>4
  <2> QED
    BY <1>8, <1>9, <2>1, <2>2, <2>3, <2>5 DEF Records
<1>18. Paired(g, x)
  BY <1>8, <1>9, <1>13, <1>16, <1>17 DEF Paired
<1> QED
  BY <1>6, <1>18 DEF g, x, cores, r

LEMMA PairedRemoveCore ==
  ASSUME NEW h, NEW w, Paired(h, w), NEW b \in DOMAIN w.cores,
         Bytes(b, w.cores[b]) \cap LiveSpan(w) = {}
  PROVE  /\ b \in DOMAIN h.cores
         /\ Paired(HeapRemoveCore(h, b), WithTrueCores(w, Erase(w.cores, b)))
<1> DEFINE g == HeapRemoveCore(h, b)
           cores == Erase(w.cores, b)
           x == WithTrueCores(w, cores)
<1>1. h \in Heaps /\ w \in Truths /\ WellFormed(w) /\ Follows(h, w)
  BY DEF Paired
<1>2. DOMAIN h.cores = DOMAIN w.cores /\ h.cores[b].managed = w.cores[b]
  BY <1>1 DEF Follows
<1>3. DOMAIN cores = DOMAIN w.cores \ {b} /\ \A c \in DOMAIN cores : cores[c] = w.cores[c]
  BY DEF Erase, Restrict
<1>4. x \in Truths /\ x.cores = cores /\ x.live = w.live /\ x.outside = w.outside
      /\ x.closing = w.closing
  <2>1. cores \in Maps(Pointers, Nat)
    BY <1>1, TruthFields, EraseMap
  <2> QED
    BY <1>1, <2>1, TruthWritten
<1>5. /\ g \in Heaps /\ g.cores = Erase(h.cores, b)
      /\ g.managed = Minus(h.managed, w.cores[b]) /\ g.max_managed = h.max_managed
      /\ g.used = h.used /\ g.max_used = h.max_used
      /\ g.alloc_to_core = h.alloc_to_core /\ g.allocations = h.allocations
  BY <1>1, <1>2, CoreRemoved
<1>6. Apart(cores)
  <2>1. Apart(w.cores)
    BY <1>1 DEF WellFormed
  <2> QED
    BY <2>1, ApartErase
<1>7. /\ Total(w.cores) = w.cores[b] + Total(cores) /\ w.cores[b] \in Nat
      /\ Total(cores) \in Nat /\ Total(w.cores) \in Size
  BY <1>1, CoreNumbers, TotalErase, TotalNatural
<1> HIDE DEF cores, x, g
<1>8. WellFormed(x)
  BY <1>1, <1>3, <1>4, <1>6 DEF WellFormed
<1>9. DOMAIN g.cores = DOMAIN w.cores \ {b} /\ \A c \in DOMAIN g.cores : g.cores[c] = h.cores[c]
  BY <1>2, <1>5 DEF Erase, Restrict
<1>10. h.managed = Total(w.cores) /\ g.managed = Total(cores)
  <2>1. h.managed = Total(w.cores)
    BY <1>1 DEF Follows
  <2>2. h.managed \in Nat /\ h.managed < Word /\ w.cores[b] <= h.managed
        /\ h.managed - w.cores[b] = Total(cores)
    BY <1>7, <2>1 DEF Size
  <2> QED
    BY <1>5, <1>7, <2>1, <2>2, CountersExact
<1>11. Follows(g, x)
  <2>1. \A c \in DOMAIN x.cores : g.cores[c].managed = x.cores[c] /\ g.cores[c].end = c + x.cores[c]
    BY <1>1, <1>3, <1>4, <1>9 DEF Follows
  <2>2. g.max_managed >= g.managed /\ g.max_used >= g.used
    <3>1. h.max_managed >= h.managed /\ h.max_used >= h.used
      BY <1>1 DEF Follows
    <3>2. h.max_managed \in Nat
      BY <1>1, HeapFields, ConstantsNatural
    <3> QED
      BY <1>5, <1>7, <1>10, <3>1, <3>2
  <2>3. DOMAIN g.allocations \subseteq x.outside
    BY <1>1, <1>4, <1>5 DEF Follows
  <2> QED
    BY <1>3, <1>4, <1>9, <1>10, <2>1, <2>2, <2>3 DEF Follows
<1>12. ASSUME ~x.closing
       PROVE  Records(g, x)
  <2>1. Records(h, w)
    BY <1>4, <1>12 DEF Paired
  <2>2. Owned(x) = Owned(w)
    BY <1>4 DEF Owned
  <2>3. Places(h, w)
    BY <2>1 DEF Records
  <2>4. \A p \in Owned(w) : h.alloc_to_core[p] # b
    <3> SUFFICES ASSUME NEW p \in Owned(w), h.alloc_to_core[p] = b
                 PROVE  FALSE
      OBVIOUS
    <3>1. b <= p /\ p < b + w.cores[b]
      BY <2>3 DEF Places
    <3>2. p \in DOMAIN w.live /\ p \in Nat /\ w.live[p].size \in Nat /\ w.live[p].size > 0
      <4>1. p \in DOMAIN w.live
        BY DEF Owned
      <4>2. p \in Nat /\ w.live[p].size \in Nat \ {0}
        BY <1>1, <4>1, LiveNumbers
      <4> QED
        BY <4>1, <4>2
    <3>3. b \in Nat /\ w.cores[b] \in Nat
      BY <1>1, CoreNumbers
    <3>4. p \in Bytes(p, w.live[p].size)
      BY <3>2, BytesAre
    <3>5. p \in Bytes(b, w.cores[b])
      BY <3>1, <3>2, <3>3 DEF Bytes
    <3> QED
      BY <3>2, <3>4, <3>5 DEF LiveSpan
  <2>5. Places(g, x)
    BY <1>3, <1>4, <1>5, <2>2, <2>3, <2>4 DEF Places
  <2>6. \A c \in DOMAIN x.cores : CoreRecords(g.cores[c], c, g.alloc_to_core, x)
    <3> SUFFICES ASSUME NEW c \in DOMAIN x.cores
                 PROVE  CoreRecords(g.cores[c], c, g.alloc_to_core, x)
      OBVIOUS
    <3>1. CoreRecords(h.cores[c], c, h.alloc_to_core, w) /\ g.cores[c] = h.cores[c]
      BY <1>3, <1>4, <1>9, <2>1 DEF Records
    <3> QED
      BY <1>4, <1>5, <2>2, <3>1 DEF CoreRecords
  <2> QED
    BY <1>4, <1>5, <2>1, <2>2, <2>5, <2>6 DEF Records
<1>13. Paired(g, x)
  BY <1>4, <1>5, <1>8, <1>11, <1>12 DEF Paired
<1> QED
  BY <1>2, <1>13 DEF g, x, cores

-----------------------------------------------------------------------------
(***************************************************************************)
(* The search for a core.                                                  *)
(***************************************************************************)
LEMMA ThreeElements ==
  ASSUME NEW S, IsFiniteSet(S), NEW a \in S, NEW b \in S, NEW c \in S, a # b, a # c, b # c
  PROVE  Cardinality(S) >= 3
<1> DEFINE T == S \ {a}
           U == T \ {b}
           V == U \ {c}
<1>1. b \in T /\ c \in U
  OBVIOUS
<1>2. IsFiniteSet(T) /\ Cardinality(T) = Cardinality(S) - 1
  BY FS_RemoveElement
<1> HIDE DEF T
<1>3. IsFiniteSet(U) /\ Cardinality(U) = Cardinality(T) - 1
  BY <1>1, <1>2, FS_RemoveElement
<1> HIDE DEF U
<1>4. IsFiniteSet(V) /\ Cardinality(V) = Cardinality(U) - 1
  BY <1>1, <1>3, FS_RemoveElement
<1> HIDE DEF V
<1>5. /\ Cardinality(V) \in Nat /\ Cardinality(U) \in Nat
      /\ Cardinality(T) \in Nat /\ Cardinality(S) \in Nat
  BY <1>2, <1>3, <1>4, FS_CardinalityType
<1> QED
  BY <1>2, <1>3, <1>4, <1>5

\* What the free bytes of an allocation are.
Room(w, p, s) ==
  /\ p \in Pointers /\ s \in Sizes /\ s > 0
  /\ Bytes(p, s) \subseteq CoreSpan(w) /\ Bytes(p, s) \cap LiveSpan(w) = {}

\* The core at b holds the address y.
Holds(w, b, y) == b \in DOMAIN w.cores /\ b <= y /\ y < b + w.cores[b]

LEMMA RoomIs ==
  ASSUME NEW h, NEW w, Paired(h, w), ~w.closing, NEW p, NEW s, Room(w, p, s)
  PROVE  /\ p \in Nat /\ s \in Nat \ {0} /\ p + s < Word /\ Plus(p, s) = p + s
         /\ \A y \in Int : p <= y /\ y < p + s => \E b : Holds(w, b, y)
         /\ p \notin DOMAIN w.live
         /\ \A b \in DOMAIN h.cores : p \notin DOMAIN h.cores[b].allocations
<1>1. w \in Truths /\ WellFormed(w) /\ Follows(h, w) /\ Records(h, w)
  BY DEF Paired
<1>2. p \in Nat /\ s \in Nat \ {0}
  BY ConstantsNatural DEF Room
<1>3. ASSUME NEW y \in Int, p <= y, y < p + s
      PROVE  \E b : Holds(w, b, y)
  <2>1. y \in Bytes(p, s)
    BY <1>2, <1>3 DEF Bytes
  <2>2. PICK b \in DOMAIN w.cores : y \in Bytes(b, w.cores[b])
    BY <2>1 DEF Room, CoreSpan
  <2>3. b \in Nat /\ w.cores[b] \in Nat
    BY <1>1, CoreNumbers
  <2>4. b <= y /\ y < b + w.cores[b]
    BY <2>2, <2>3, BytesAre
  <2> QED
    BY <2>4 DEF Holds
<1>4. p + s < Word
  <2>1. p + s - 1 \in Int /\ p <= p + s - 1 /\ p + s - 1 < p + s
    BY <1>2
  <2>2. PICK b : Holds(w, b, p + s - 1)
    BY <1>3, <2>1
  <2>3. b \in Nat /\ w.cores[b] \in Nat /\ b + w.cores[b] < Word
    BY <1>1, <2>2, CoreNumbers DEF Holds
  <2>4. p + s - 1 < b + w.cores[b]
    BY <2>2 DEF Holds
  <2> QED
    BY <1>2, <2>3, <2>4
<1>5. Plus(p, s) = p + s
  <2>1. p + s \in Size
    BY <1>2, <1>4 DEF Size
  <2> QED
    BY <1>2, <2>1, CountersExact
<1>6. p \notin DOMAIN w.live
  <2>1. p \in Bytes(p, s)
    BY <1>2, BytesAre
  <2>2. ASSUME p \in DOMAIN w.live
        PROVE  p \in Bytes(p, w.live[p].size)
    <3>1. w.live[p].size \in Nat /\ w.live[p].size > 0
      BY <1>1, <2>2, LiveNumbers
    <3> QED
      BY <1>2, <3>1, BytesAre
  <2> QED
    BY <2>1, <2>2 DEF Room, LiveSpan
<1>7. \A b \in DOMAIN h.cores : p \notin DOMAIN h.cores[b].allocations
  <2>1. \A b \in DOMAIN w.cores : CoreRecords(h.cores[b], b, h.alloc_to_core, w)
    BY <1>1 DEF Records
  <2>2. DOMAIN h.cores = DOMAIN w.cores
    BY <1>1 DEF Follows
  <2>3. p \notin Owned(w)
    BY <1>6 DEF Owned
  <2> QED
    BY <2>1, <2>2, <2>3 DEF CoreRecords
<1> QED
  BY <1>2, <1>3, <1>4, <1>5, <1>6, <1>7

\* What is inside a core of the tool.
LEMMA InsideIs ==
  ASSUME NEW h, NEW w, Paired(h, w), ~w.closing, NEW p, NEW s, Room(w, p, s)
  PROVE  /\ \A b : b \in Fitting(h, p, s) <=>
                     b \in DOMAIN w.cores /\ b <= p /\ p + s <= b + w.cores[b]
         /\ \A b \in DOMAIN w.cores : \A y : PointerInside(b, h.cores[b], y) <=>
                                             b <= y /\ b + w.cores[b] >= y
<1>1. Follows(h, w)
  BY DEF Paired
<1>2. Plus(p, s) = p + s /\ \A b \in DOMAIN h.cores : p \notin DOMAIN h.cores[b].allocations
  BY RoomIs
<1>3. DOMAIN h.cores = DOMAIN w.cores /\ \A b \in DOMAIN w.cores : h.cores[b].end = b + w.cores[b]
  BY <1>1 DEF Follows
<1>4. \A b \in DOMAIN w.cores : b \in Nat /\ w.cores[b] \in Nat
  BY CoreNumbers DEF Paired
<1>5. p \in Nat /\ s \in Nat
  BY RoomIs
<1>6. ASSUME NEW b \in DOMAIN w.cores
      PROVE  b \in Fitting(h, p, s) <=> b <= p /\ p + s <= b + w.cores[b]
  <2>1. b \in Fitting(h, p, s) <=> b <= p /\ b + w.cores[b] >= p + s
    BY <1>2, <1>3 DEF Fitting, AllocationInside
  <2>2. b \in Nat /\ w.cores[b] \in Nat
    BY <1>4
  <2> QED
    BY <1>5, <2>1, <2>2
<1>7. \A b : b \in Fitting(h, p, s) => b \in DOMAIN w.cores
  BY <1>3 DEF Fitting
<1>8. \A b \in DOMAIN w.cores : \A y : PointerInside(b, h.cores[b], y) <=> b <= y /\ b + w.cores[b] >= y
  BY <1>3 DEF PointerInside
<1> QED
  BY <1>6, <1>7, <1>8

\* An allocation is never placed in a core that its first byte is not in: an
\* address at the end of a core is taken to be inside (core.h), but then the
\* core behind holds all of the allocation, and is found first.
LEMMA CandidateHolds ==
  ASSUME NEW h, NEW w, Paired(h, w), ~w.closing, NEW p, NEW s, Room(w, p, s),
         NEW b \in Candidates(h, p, s)
  PROVE  b \in DOMAIN h.cores /\ Holds(w, b, p)
<1>1. w \in Truths /\ WellFormed(w) /\ Follows(h, w) /\ DOMAIN h.cores = DOMAIN w.cores
  BY DEF Paired, Follows
<1>2. p \in Nat /\ s \in Nat \ {0} /\ Plus(p, s) = p + s
  BY RoomIs
<1>3. \A c \in DOMAIN w.cores : c \in Nat /\ w.cores[c] \in Nat \ {0}
  BY <1>1, CoreNumbers
<1>4. CASE b \in Fitting(h, p, s)
  <2>1. b \in DOMAIN w.cores /\ b <= p /\ p + s <= b + w.cores[b]
    BY <1>4, InsideIs
  <2>2. p < b + w.cores[b]
    BY <1>2, <1>3, <2>1
  <2> QED
    BY <1>1, <2>1, <2>2 DEF Holds
<1>5. CASE Fitting(h, p, s) = {}
  <2>1. b \in Spanning(h, p, s)
    BY <1>5 DEF Candidates
  <2>2. PICK next \in DOMAIN h.cores : /\ b \in DOMAIN h.cores /\ IsNext(h, b, next)
                                       /\ PointerInside(b, h.cores[b], p)
                                       /\ PointerInside(next, h.cores[next], Plus(p, s))
    BY <2>1 DEF Spanning
  <2>3. /\ b \in DOMAIN w.cores /\ next \in DOMAIN w.cores /\ b <= p /\ b + w.cores[b] >= p
        /\ next + w.cores[next] >= p + s /\ b < next
    BY <1>1, <1>2, <2>2, InsideIs DEF IsNext
  <2>4. ASSUME p = b + w.cores[b]
        PROVE  FALSE
    <3>1. p <= p /\ p < p + s /\ p \in Int
      BY <1>2
    <3>2. PICK c : Holds(w, c, p)
      BY <3>1, RoomIs
    <3>3. c \in DOMAIN w.cores /\ c \in Nat /\ w.cores[c] \in Nat /\ c <= p /\ p < c + w.cores[c]
      BY <1>3, <3>2 DEF Holds
    <3>4. b < c
      <4>1. b \in Nat /\ w.cores[b] \in Nat
        BY <1>3, <2>3
      <4>2. c < b => c + w.cores[c] <= b
        BY <1>1, <2>3, <3>3 DEF WellFormed, Apart
      <4>3. c # b
        BY <2>4, <3>3
      <4> QED
        BY <2>4, <3>3, <4>1, <4>2, <4>3
    <3>5. ~(c < next)
      BY <1>1, <2>2, <3>3, <3>4 DEF IsNext
    <3>6. next \in Nat /\ w.cores[next] \in Nat /\ b + w.cores[b] <= next
      BY <1>1, <1>3, <2>3 DEF WellFormed, Apart
    <3>7. next <= p /\ p + s <= next + w.cores[next]
      BY <1>2, <2>3, <2>4, <3>3, <3>5, <3>6
    <3>8. next \in Fitting(h, p, s)
      BY <2>3, <3>7, InsideIs
    <3> QED
      BY <1>5, <3>8
  <2>5. p < b + w.cores[b]
    <3>1. b \in Nat /\ w.cores[b] \in Nat
      BY <1>3, <2>3
    <3> QED
      BY <1>2, <2>3, <2>4, <3>1
  <2> QED
    BY <1>1, <2>3, <2>5 DEF Holds
<1> QED
  BY <1>4, <1>5 DEF Candidates

\* An allocation that reaches over two cores at most is placed.
LEMMA CandidateFound ==
  ASSUME NEW h, NEW w, Paired(h, w), ~w.closing, NEW p, NEW s, Room(w, p, s),
         Cardinality({b \in DOMAIN w.cores : Bytes(b, w.cores[b]) \cap Bytes(p, s) # {}}) <= 2
  PROVE  \E b \in Candidates(h, p, s) : IsFirst(b, Candidates(h, p, s))
<1> DEFINE Touched == {b \in DOMAIN w.cores : Bytes(b, w.cores[b]) \cap Bytes(p, s) # {}}
<1>1. w \in Truths /\ WellFormed(w) /\ Follows(h, w) /\ DOMAIN h.cores = DOMAIN w.cores
  BY DEF Paired, Follows
<1>2. p \in Nat /\ s \in Nat \ {0} /\ Plus(p, s) = p + s
  BY RoomIs
<1>3. \A c \in DOMAIN w.cores : c \in Nat /\ w.cores[c] \in Nat \ {0}
  BY <1>1, CoreNumbers
<1>4. ASSUME NEW y \in Int, p <= y, y < p + s, NEW c, Holds(w, c, y)
      PROVE  c \in Touched
  <2>1. y \in Bytes(p, s)
    BY <1>2, <1>4 DEF Bytes
  <2>2. y \in Bytes(c, w.cores[c])
    BY <1>3, <1>4 DEF Bytes, Holds
  <2> QED
    BY <1>4, <2>1, <2>2 DEF Holds
<1>5. IsFiniteSet(Touched)
  <2>1. Touched \subseteq DOMAIN w.cores
    OBVIOUS
  <2> QED
    BY <1>1, <2>1, CoreNumbers, FS_Subset
<1>6. Cardinality(Touched) <= 2 /\ Cardinality(Touched) \in Nat
  BY <1>5, FS_CardinalityType
<1> HIDE DEF Touched
<1>7. Candidates(h, p, s) # {}
  <2>1. p <= p /\ p < p + s /\ p \in Int
    BY <1>2
  <2>2. PICK c : Holds(w, c, p)
    BY <2>1, RoomIs
  <2>3. c \in DOMAIN w.cores /\ c \in Nat /\ w.cores[c] \in Nat /\ c <= p /\ p < c + w.cores[c]
    BY <1>3, <2>2 DEF Holds
  <2> DEFINE e == c + w.cores[c]
  <2>4. e \in Nat /\ p < e
    BY <2>3
  <2>5. CASE p + s <= e
    <3>1. c \in Fitting(h, p, s)
      BY <2>3, <2>5, InsideIs
    <3> QED
      BY <3>1 DEF Candidates
  <2>6. CASE e < p + s
    <3>1. e \in Int /\ p <= e
      BY <1>2, <2>4
    <3>2. PICK d : Holds(w, d, e)
      BY <2>6, <3>1, RoomIs
    <3>3. d \in DOMAIN w.cores /\ d \in Nat /\ w.cores[d] \in Nat /\ d <= e /\ e < d + w.cores[d]
      BY <1>3, <3>2 DEF Holds
    <3>4. d # c
      BY <2>3, <3>3
    <3>5. d < c => d + w.cores[d] <= c
      BY <1>1, <2>3, <3>3 DEF WellFormed, Apart
    <3>6. c < d => e <= d
      BY <1>1, <2>3, <3>3 DEF WellFormed, Apart
    <3>7. d = e /\ c < d
      <4> HIDE DEF e
      <4>1. c <= e
        BY <1>2, <2>3, <2>4
      <4> QED
        BY <2>3, <2>4, <3>3, <3>4, <3>5, <3>6, <4>1
    <3> DEFINE y == p + s - 1
    <3>8. y \in Int /\ p <= y /\ y < p + s /\ y >= e
      BY <1>2, <2>4, <2>6
    <3>9. PICK f : Holds(w, f, y)
      BY <3>8, RoomIs
    <3>10. f \in DOMAIN w.cores /\ f \in Nat /\ w.cores[f] \in Nat /\ y < f + w.cores[f]
      BY <1>3, <3>9 DEF Holds
    <3>11. f # c
      BY <2>4, <3>8, <3>10
    <3>12. f = d
      <4>1. c \in Touched /\ d \in Touched /\ f \in Touched
        BY <1>4, <2>1, <2>2, <2>6, <3>1, <3>2, <3>8, <3>9
      <4> HIDE DEF e, y
      <4>2. f # d => Cardinality(Touched) >= 3
        BY <1>5, <3>4, <3>11, <4>1, ThreeElements
      <4> QED
        BY <1>6, <4>2
    <3>13. IsNext(h, c, d)
      <4>1. ASSUME NEW other \in DOMAIN h.cores, c < other, other < d
            PROVE  FALSE
        <5>1. other \in DOMAIN w.cores /\ other \in Nat
          BY <1>1, <1>3, <4>1
        <5>2. e <= other
          BY <1>1, <2>3, <4>1, <5>1 DEF WellFormed, Apart
        <5> QED
          BY <2>4, <3>7, <4>1, <5>1, <5>2
      <4> QED
        BY <3>7, <4>1 DEF IsNext
    <3>14. PointerInside(c, h.cores[c], p)
      <4>1. c + w.cores[c] >= p
        BY <1>2, <2>3
      <4> QED
        BY <2>3, <4>1, InsideIs
    <3>15. PointerInside(d, h.cores[d], Plus(p, s))
      <4>1. d <= p + s /\ d + w.cores[d] >= p + s
        BY <1>2, <2>4, <2>6, <3>3, <3>7, <3>10, <3>12
      <4> QED
        BY <1>2, <3>3, <4>1, InsideIs
    <3>16. c \in Spanning(h, p, s)
      BY <1>1, <2>3, <3>3, <3>13, <3>14, <3>15 DEF Spanning
    <3> QED
      BY <3>16 DEF Candidates
  <2> QED
    BY <1>2, <2>4, <2>5, <2>6
<1>8. Candidates(h, p, s) \subseteq Nat
  BY <1>1, <1>3 DEF Candidates, Fitting, Spanning
<1>9. PICK b \in Candidates(h, p, s) : \A c \in Candidates(h, p, s) : b <= c
  BY <1>7, <1>8, LeastNumber
<1> QED
  BY <1>9 DEF IsFirst

-----------------------------------------------------------------------------
(***************************************************************************)
(* Allocating.                                                             *)
(***************************************************************************)
LEMMA SizesPut ==
  ASSUME NEW live, NEW p, NEW block
  PROVE  SizesOf(Put(live, p, block)) = Put(SizesOf(live), p, block.size)
BY DEF SizesOf, Put

\* What a core records of the live allocations fits a counter.
LEMMA PartFits ==
  ASSUME NEW w \in Truths, WellFormed(w), NEW f, DOMAIN f \subseteq DOMAIN w.live,
         \A p \in DOMAIN f : f[p] = w.live[p].size
  PROVE  Naturals(f) /\ Total(f) \in Size
<1>1. IsFiniteSet(DOMAIN f)
  BY LiveNumbers, FS_Subset
<1>2. \A p \in DOMAIN f : f[p] \in Nat /\ p \in Nat /\ p + f[p] < Word
  BY LiveNumbers
<1>3. Naturals(f)
  BY <1>1, <1>2 DEF Naturals
<1>4. Apart(f)
  BY DEF WellFormed, Apart, SizesOf
<1>5. \A p \in DOMAIN f : p + f[p] <= Word - 1
  BY <1>2
<1>6. Word - 1 \in Nat /\ DOMAIN f \subseteq Nat
  BY <1>2
<1>7. Total(f) <= Word - 1
  BY <1>3, <1>4, <1>5, <1>6, ApartFits
<1>8. Total(f) \in Nat
  BY <1>3, TotalNatural
<1> QED
  BY <1>3, <1>7, <1>8 DEF Size

\* A new allocation leaves the program's heap well formed, and its size is
\* added to the total.
LEMMA LiveAdded ==
  ASSUME NEW w \in Truths, WellFormed(w), NEW x \in Truths, NEW p \in Pointers, NEW s \in Sizes,
         s > 0, p + s < Word, Bytes(p, s) \cap LiveSpan(w) = {}, NEW block, block.size = s,
         x.cores = w.cores, x.live = Put(w.live, p, block)
  PROVE  /\ p \notin DOMAIN w.live /\ DOMAIN x.live = DOMAIN w.live \cup {p}
         /\ x.live[p] = block /\ \A q \in DOMAIN w.live : x.live[q] = w.live[q]
         /\ WellFormed(x) /\ Total(SizesOf(x.live)) = Total(SizesOf(w.live)) + s
<1> DEFINE f == SizesOf(w.live)
<1>1. /\ DOMAIN f = DOMAIN w.live /\ \A q \in DOMAIN w.live : f[q] = w.live[q].size
      /\ \A q \in DOMAIN w.live : /\ q \in Nat /\ w.live[q].size \in Nat \ {0}
                                  /\ q + w.live[q].size < Word
      /\ Naturals(f)
  BY LiveNumbers
<1>2. p \in Nat /\ s \in Nat \ {0}
  BY ConstantsNatural
<1>3. \A q \in DOMAIN w.live : Bytes(p, s) \cap Bytes(q, w.live[q].size) = {}
  BY DEF LiveSpan
<1>4. p \notin DOMAIN w.live
  <2>1. p \in Bytes(p, s)
    BY <1>2, BytesAre
  <2>2. ASSUME p \in DOMAIN w.live
        PROVE  p \in Bytes(p, w.live[p].size)
    <3>1. w.live[p].size \in Nat /\ w.live[p].size > 0
      BY <1>1, <2>2
    <3> QED
      BY <1>2, <3>1, BytesAre
  <2> QED
    BY <1>3, <2>1, <2>2
<1>7. /\ DOMAIN x.live = DOMAIN w.live \cup {p} /\ x.live[p] = block
      /\ \A q \in DOMAIN w.live : x.live[q] = w.live[q]
  BY <1>4 DEF Put
<1>8. SizesOf(x.live) = Put(f, p, s)
  BY SizesPut
<1> HIDE DEF f
<1>9. Apart(Put(f, p, s))
  <2>1. Apart(f) /\ DOMAIN f \subseteq Nat
    BY <1>1 DEF WellFormed, f
  <2>2. /\ \A q \in DOMAIN f : f[q] \in Nat \ {0}
        /\ \A q \in DOMAIN f \ {p} : Bytes(p, s) \cap Bytes(q, f[q]) = {}
    BY <1>1, <1>3
  <2> QED
    BY <1>2, <2>1, <2>2, ApartPut
<1>10. \A q \in DOMAIN x.live : x.live[q].size > 0 /\ q + x.live[q].size < Word
  BY <1>1, <1>2, <1>7
<1>11. WellFormed(x)
  BY <1>8, <1>9, <1>10 DEF WellFormed
<1>12. Total(SizesOf(x.live)) = Total(f) + s
  BY <1>1, <1>2, <1>4, <1>8, TotalPut
<1> QED
  BY <1>4, <1>7, <1>11, <1>12 DEF f

LEMMA PairedAllocate ==
  ASSUME NEW h, NEW w, Paired(h, w), ~w.closing, NEW p \in Pointers, NEW s \in Sizes, Room(w, p, s),
         NEW b \in DOMAIN h.cores, Holds(w, b, p)
  PROVE  Paired(PlacedIn(h, b, p, s),
                WithLive(w, Put(w.live, p, [size |-> s, owned |-> TRUE])))
<1> DEFINE g == PlacedIn(h, b, p, s)
           block == [size |-> s, owned |-> TRUE]
           live == Put(w.live, p, block)
           x == WithLive(w, live)
           c == h.cores[b]
           d == CoreWith(c, p, s)
<1>1. h \in Heaps /\ w \in Truths /\ WellFormed(w) /\ Follows(h, w) /\ Records(h, w)
  BY DEF Paired
<1>2. /\ p \in Nat /\ s \in Nat \ {0} /\ p + s < Word
      /\ p \notin DOMAIN w.live /\ p \notin DOMAIN c.allocations
  BY RoomIs
<1>3. x \in Truths /\ x.live = live /\ x.cores = w.cores /\ x.outside = w.outside
      /\ x.closing = w.closing
  <2>1. block \in Blocks
    BY DEF Blocks
  <2>2. w.live \in Maps(Pointers, Blocks)
    BY <1>1, TruthFields
  <2>3. live \in Maps(Pointers, Blocks)
    BY <2>1, <2>2, PutMap
  <2> QED
    BY <1>1, <2>3, TruthWritten
<1>4. /\ DOMAIN x.live = DOMAIN w.live \cup {p}
      /\ x.live[p].size = s /\ x.live[p].owned = TRUE
      /\ \A q \in DOMAIN w.live : x.live[q] = w.live[q]
      /\ WellFormed(x) /\ Total(SizesOf(x.live)) = Total(SizesOf(w.live)) + s
  <2>1. block.size = s /\ block.owned = TRUE
    OBVIOUS
  <2> HIDE DEF block
  <2>2. s > 0 /\ Bytes(p, s) \cap LiveSpan(w) = {} /\ x.live = Put(w.live, p, block)
    BY <1>3 DEF Room
  <2>3. /\ DOMAIN x.live = DOMAIN w.live \cup {p}
        /\ x.live[p] = block /\ \A q \in DOMAIN w.live : x.live[q] = w.live[q]
        /\ WellFormed(x) /\ Total(SizesOf(x.live)) = Total(SizesOf(w.live)) + s
    <3>1. w \in Truths /\ WellFormed(w) /\ x \in Truths /\ x.cores = w.cores
      BY <1>1, <1>3
    <3>2. p \in Pointers /\ s \in Sizes /\ p + s < Word /\ block.size = s
      BY <1>2, <2>1
    <3>3. \A y \in Truths : \A r :
            /\ r.size = s /\ y.cores = w.cores /\ y.live = Put(w.live, p, r) =>
                 /\ DOMAIN y.live = DOMAIN w.live \cup {p}
                 /\ y.live[p] = r /\ \A q \in DOMAIN w.live : y.live[q] = w.live[q]
                 /\ WellFormed(y) /\ Total(SizesOf(y.live)) = Total(SizesOf(w.live)) + s
      BY <2>2, <3>1, <3>2, LiveAdded
    <3> QED
      BY <2>2, <3>1, <3>2, <3>3
  <2> QED
    BY <2>1, <2>3
<1>5. /\ g \in Heaps /\ g.cores = Put(h.cores, b, d)
      /\ g.alloc_to_core = Emplace(h.alloc_to_core, p, b)
      /\ g.used = Plus(h.used, s) /\ g.max_used = Larger(h.max_used, g.used)
      /\ g.managed = h.managed /\ g.max_managed = h.max_managed
      /\ g.allocations = h.allocations
  BY <1>1, AllocationPlacedIn
<1>6. c \in Cores
  BY <1>1, CoreOf
<1>7. /\ d.managed = c.managed /\ d.end = c.end
      /\ d.allocations = Put(c.allocations, p, s) /\ d.used = Plus(c.used, s)
  BY <1>2, <1>6, CoreTakes
<1> HIDE DEF g, x, live, block, c, d
<1>8. DOMAIN h.cores = DOMAIN w.cores
  BY <1>1 DEF Follows
<1>9. /\ DOMAIN g.cores = DOMAIN w.cores /\ g.cores[b] = d
      /\ \A y \in DOMAIN w.cores \ {b} : g.cores[y] = h.cores[y]
  BY <1>5, <1>8 DEF Put
<1>10. Owned(x) = Owned(w) \cup {p} /\ p \notin Owned(w)
  BY <1>2, <1>4 DEF Owned
<1>11. /\ DOMAIN h.alloc_to_core = Owned(w)
       /\ DOMAIN g.alloc_to_core = Owned(w) \cup {p} /\ g.alloc_to_core[p] = b
       /\ \A q \in Owned(w) : g.alloc_to_core[q] = h.alloc_to_core[q]
  <2>1. DOMAIN h.alloc_to_core = Owned(w)
    BY <1>1 DEF Records, Places
  <2>2. g.alloc_to_core = Put(h.alloc_to_core, p, b)
    BY <1>5, <1>10, <2>1 DEF Emplace
  <2> QED
    BY <1>10, <2>1, <2>2 DEF Put
<1>12. g.used = Total(SizesOf(x.live))
  <2>1. h.used = Total(SizesOf(w.live)) /\ h.used \in Nat
    BY <1>1, HeapFields, ConstantsNatural DEF Records
  <2>2. h.used + s \in Size
    BY <1>3, <1>4, <2>1, LiveNumbers
  <2> QED
    BY <1>2, <1>4, <1>5, <2>1, <2>2, CountersExact
<1>13. Follows(g, x)
  <2>1. \A y \in DOMAIN x.cores : g.cores[y].managed = x.cores[y] /\ g.cores[y].end = y + x.cores[y]
    BY <1>1, <1>3, <1>7, <1>9 DEF Follows, c
  <2>2. g.max_used >= g.used /\ g.max_managed >= g.managed
    <3>1. g.used \in Size /\ h.max_used \in Size
      BY <1>1, <1>5, HeapFields
    <3> QED
      BY <1>1, <1>5, <3>1, LargerCovers DEF Follows
  <2> QED
    BY <1>1, <1>3, <1>5, <1>9, <2>1, <2>2 DEF Follows
<1>14. Places(g, x)
  <2>1. \A q \in Owned(w) : LET y == h.alloc_to_core[q]
                            IN  y \in DOMAIN w.cores /\ y <= q /\ q < y + w.cores[y]
    BY <1>1 DEF Records, Places
  <2> QED
    BY <1>3, <1>10, <1>11, <2>1 DEF Places, Holds
<1>15. CoreRecords(d, b, g.alloc_to_core, x)
  <2>1. CoreRecords(c, b, h.alloc_to_core, w)
    BY <1>1, <1>8 DEF Records, c
  <2>2. /\ DOMAIN c.allocations = {q \in Owned(w) : h.alloc_to_core[q] = b}
        /\ \A q \in DOMAIN c.allocations : c.allocations[q] = w.live[q].size
        /\ c.used = Total(c.allocations)
    BY <2>1 DEF CoreRecords
  <2>3. DOMAIN d.allocations = DOMAIN c.allocations \cup {p} /\ d.allocations[p] = s
        /\ \A q \in DOMAIN c.allocations : d.allocations[q] = c.allocations[q]
    BY <1>2, <1>7 DEF Put
  <2>4. DOMAIN d.allocations = {q \in Owned(x) : g.alloc_to_core[q] = b}
    BY <1>10, <1>11, <2>2, <2>3
  <2>5. \A q \in DOMAIN d.allocations : d.allocations[q] = x.live[q].size
    <3>1. \A q \in DOMAIN c.allocations : q \in DOMAIN w.live
      BY <2>2 DEF Owned
    <3> QED
      BY <1>4, <2>2, <2>3, <3>1
  <2>6. DOMAIN d.allocations \subseteq DOMAIN x.live
    BY <2>4 DEF Owned
  <2>7. Naturals(d.allocations) /\ Total(d.allocations) \in Size
    BY <1>3, <1>4, <2>5, <2>6, PartFits
  <2>8. Naturals(c.allocations)
    <3>1. DOMAIN c.allocations \subseteq DOMAIN w.live
      BY <2>2 DEF Owned
    <3> QED
      BY <1>1, <2>2, <3>1, PartFits
  <2>9. Total(d.allocations) = Total(c.allocations) + s /\ Total(c.allocations) \in Nat
    BY <1>2, <1>7, <2>8, TotalPut, TotalNatural
  <2>10. d.used = Total(d.allocations)
    BY <1>2, <1>7, <2>2, <2>7, <2>9, CountersExact
  <2> QED
    BY <2>4, <2>5, <2>10 DEF CoreRecords
<1>16. ASSUME NEW y \in DOMAIN w.cores \ {b}
       PROVE  CoreRecords(g.cores[y], y, g.alloc_to_core, x)
  <2>1. CoreRecords(h.cores[y], y, h.alloc_to_core, w)
    BY <1>1 DEF Records
  <2>2. /\ DOMAIN h.cores[y].allocations = {q \in Owned(w) : h.alloc_to_core[q] = y}
        /\ \A q \in DOMAIN h.cores[y].allocations : h.cores[y].allocations[q] = w.live[q].size
        /\ h.cores[y].used = Total(h.cores[y].allocations)
    BY <2>1 DEF CoreRecords
  <2>3. {q \in Owned(x) : g.alloc_to_core[q] = y} = {q \in Owned(w) : h.alloc_to_core[q] = y}
    BY <1>10, <1>11
  <2>4. \A q \in DOMAIN h.cores[y].allocations : h.cores[y].allocations[q] = x.live[q].size
    <3>1. \A q \in DOMAIN h.cores[y].allocations : q \in DOMAIN w.live
      BY <2>2 DEF Owned
    <3> QED
      BY <1>4, <2>2, <3>1
  <2> QED
    BY <1>9, <2>2, <2>3, <2>4 DEF CoreRecords
<1>17. \A q \in DOMAIN x.live \ Owned(x) :
         q \in DOMAIN g.allocations /\ g.allocations[q] = x.live[q].size
  <2>1. \A q \in DOMAIN w.live \ Owned(w) :
          q \in DOMAIN h.allocations /\ h.allocations[q] = w.live[q].size
    BY <1>1 DEF Records
  <2> QED
    BY <1>4, <1>5, <1>10, <2>1
<1>18. Records(g, x)
  <2>1. \A y \in DOMAIN x.cores : CoreRecords(g.cores[y], y, g.alloc_to_core, x)
    BY <1>3, <1>9, <1>15, <1>16
  <2> QED
    BY <1>12, <1>14, <1>17, <2>1 DEF Records
<1>19. Paired(g, x)
  BY <1>3, <1>4, <1>5, <1>13, <1>18 DEF Paired
<1> QED
  BY <1>19 DEF g, x, live, block

LEMMA PairedAllocateOutside ==
  ASSUME NEW h, NEW w, Paired(h, w), ~w.closing, NEW p \in Pointers, NEW s \in Sizes, s > 0,
         Addressable(p, s), Bytes(p, s) \cap LiveSpan(w) = {}, p \notin w.outside
  PROVE  Paired(PlacedOutside(h, p, s),
                WithLiveOutside(w, Put(w.live, p, [size |-> s, owned |-> FALSE]), p))
<1> DEFINE g == PlacedOutside(h, p, s)
           block == [size |-> s, owned |-> FALSE]
           live == Put(w.live, p, block)
           x == WithLiveOutside(w, live, p)
<1>1. h \in Heaps /\ w \in Truths /\ WellFormed(w) /\ Follows(h, w) /\ Records(h, w)
  BY DEF Paired
<1>2. p \in Nat /\ s \in Nat \ {0} /\ p + s < Word
  <2>1. p \in Nat /\ s \in Nat
    BY ConstantsNatural
  <2> QED
    BY <2>1, AddressableFits
<1>3. x \in Truths /\ x.live = live /\ x.cores = w.cores /\ x.outside = w.outside \cup {p}
      /\ x.closing = w.closing
  <2>1. block \in Blocks
    BY DEF Blocks
  <2>2. w.live \in Maps(Pointers, Blocks)
    BY <1>1, TruthFields
  <2>3. live \in Maps(Pointers, Blocks)
    BY <2>1, <2>2, PutMap
  <2> HIDE DEF live
  <2>4. \A m \in Maps(Pointers, Blocks), q \in Pointers :
          /\ WithLiveOutside(w, m, q) \in Truths /\ WithLiveOutside(w, m, q).live = m
          /\ WithLiveOutside(w, m, q).cores = w.cores
          /\ WithLiveOutside(w, m, q).outside = w.outside \cup {q}
          /\ WithLiveOutside(w, m, q).closing = w.closing
    BY <1>1, TruthWritten
  <2> QED
    BY <2>3, <2>4
<1>4. block.size = s /\ block.owned = FALSE
  OBVIOUS
<1> HIDE DEF block
<1>5. /\ p \notin DOMAIN w.live /\ DOMAIN x.live = DOMAIN w.live \cup {p}
      /\ x.live[p] = block /\ \A q \in DOMAIN w.live : x.live[q] = w.live[q]
      /\ WellFormed(x) /\ Total(SizesOf(x.live)) = Total(SizesOf(w.live)) + s
  <2>1. x.live = Put(w.live, p, block)
    BY <1>3
  <2>2. x \in Truths /\ x.cores = w.cores /\ block.size = s
    BY <1>3, <1>4
  <2>3. w \in Truths /\ WellFormed(w) /\ s > 0 /\ p + s < Word
        /\ Bytes(p, s) \cap LiveSpan(w) = {}
    BY <1>1, <1>2
  <2> HIDE DEF x, live
  <2>4. p \notin DOMAIN w.live /\ WellFormed(x)
        /\ Total(SizesOf(x.live)) = Total(SizesOf(w.live)) + s
    BY <2>1, <2>2, <2>3, LiveAdded
  <2> QED
    BY <2>1, <2>4 DEF Put
<1>6. /\ g \in Heaps /\ g.allocations = Emplace(h.allocations, p, s)
      /\ g.used = Plus(h.used, s) /\ g.max_used = Larger(h.max_used, g.used)
      /\ g.managed = h.managed /\ g.max_managed = h.max_managed
      /\ g.cores = h.cores /\ g.alloc_to_core = h.alloc_to_core
  BY <1>1, AllocationPlacedOutside
<1> HIDE DEF g, x, live
<1>7. /\ DOMAIN g.allocations = DOMAIN h.allocations \cup {p} /\ g.allocations[p] = s
      /\ \A q \in DOMAIN h.allocations : g.allocations[q] = h.allocations[q]
      /\ DOMAIN h.allocations \subseteq w.outside
  <2>1. DOMAIN h.allocations \subseteq w.outside
    BY <1>1 DEF Follows
  <2>2. g.allocations = Put(h.allocations, p, s) /\ p \notin DOMAIN h.allocations
    BY <1>6, <2>1 DEF Emplace
  <2> QED
    BY <2>1, <2>2 DEF Put
<1>8. Owned(x) = Owned(w) /\ p \notin Owned(w)
  BY <1>4, <1>5 DEF Owned
<1>9. g.used = Total(SizesOf(x.live))
  <2>1. h.used = Total(SizesOf(w.live)) /\ h.used \in Nat
    BY <1>1, HeapFields, ConstantsNatural DEF Records
  <2>2. h.used + s \in Size
    BY <1>3, <1>5, <2>1, LiveNumbers
  <2> QED
    BY <1>2, <1>5, <1>6, <2>1, <2>2, CountersExact
<1>10. Follows(g, x)
  <2>1. g.max_used >= g.used
    <3>1. g.used \in Size /\ h.max_used \in Size
      BY <1>1, <1>6, HeapFields
    <3> QED
      BY <1>6, <3>1, LargerCovers
  <2> QED
    BY <1>1, <1>3, <1>6, <1>7, <2>1 DEF Follows
<1>11. Places(g, x)
  BY <1>1, <1>3, <1>6, <1>8 DEF Records, Places
<1>12. ASSUME NEW b \in DOMAIN w.cores
       PROVE  CoreRecords(g.cores[b], b, g.alloc_to_core, x)
  <2>1. CoreRecords(h.cores[b], b, h.alloc_to_core, w)
    BY <1>1 DEF Records
  <2>2. \A q \in DOMAIN h.cores[b].allocations : q \in DOMAIN w.live
    BY <2>1 DEF CoreRecords, Owned
  <2> QED
    BY <1>5, <1>6, <1>8, <2>1, <2>2 DEF CoreRecords
<1>13. \A q \in DOMAIN x.live \ Owned(x) :
         q \in DOMAIN g.allocations /\ g.allocations[q] = x.live[q].size
  <2>1. \A q \in DOMAIN w.live \ Owned(w) :
          q \in DOMAIN h.allocations /\ h.allocations[q] = w.live[q].size
    BY <1>1 DEF Records
  <2> QED
    BY <1>4, <1>5, <1>7, <1>8, <2>1
<1>14. Records(g, x)
  BY <1>3, <1>9, <1>11, <1>12, <1>13 DEF Records
<1>15. Paired(g, x)
  BY <1>3, <1>5, <1>6, <1>10, <1>14 DEF Paired
<1> QED
  BY <1>15 DEF g, x, live, block

-----------------------------------------------------------------------------
(***************************************************************************)
(* Freeing.                                                                *)
(***************************************************************************)
LEMMA LiveErased ==
  ASSUME NEW w \in Truths, WellFormed(w), NEW p \in DOMAIN w.live
  PROVE  LET x == WithLive(w, Erase(w.live, p))
         IN  /\ x \in Truths /\ x.cores = w.cores /\ x.outside = w.outside
             /\ x.closing = w.closing /\ DOMAIN x.live = DOMAIN w.live \ {p}
             /\ \A q \in DOMAIN w.live \ {p} : x.live[q] = w.live[q]
             /\ WellFormed(x)
             /\ Total(SizesOf(w.live)) = w.live[p].size + Total(SizesOf(x.live))
<1> DEFINE live == Erase(w.live, p)
           x == WithLive(w, live)
           f == SizesOf(w.live)
<1>1. live \in Maps(Pointers, Blocks)
  BY TruthFields, EraseMap
<1>2. x \in Truths /\ x.live = live /\ x.cores = w.cores /\ x.outside = w.outside
      /\ x.closing = w.closing
  BY <1>1, TruthWritten
<1>3. DOMAIN live = DOMAIN w.live \ {p} /\ \A q \in DOMAIN w.live \ {p} : live[q] = w.live[q]
  BY DEF Erase, Restrict
<1>4. SizesOf(live) = Erase(f, p)
  BY DEF SizesOf, Erase, Restrict
<1>5. DOMAIN f = DOMAIN w.live /\ f[p] = w.live[p].size /\ Naturals(f)
  BY LiveNumbers
<1>6. Apart(f)
  BY DEF WellFormed
<1> HIDE DEF f, live, x
<1>7. WellFormed(x)
  <2>1. Apart(SizesOf(live))
    BY <1>4, <1>6, ApartErase
  <2> QED
    BY <1>2, <1>3, <2>1 DEF WellFormed
<1>8. Total(f) = w.live[p].size + Total(SizesOf(x.live))
  BY <1>2, <1>4, <1>5, TotalErase
<1> QED
  BY <1>2, <1>3, <1>7, <1>8 DEF x, live, f

LEMMA PairedFree ==
  ASSUME NEW h, NEW w, Paired(h, w), ~w.closing, NEW p \in DOMAIN w.live, w.live[p].owned
  PROVE  InMappedCore(h, p) /\ Paired(TakenFromCore(h, p), WithLive(w, Erase(w.live, p)))
<1> DEFINE g == TakenFromCore(h, p)
           x == WithLive(w, Erase(w.live, p))
           b == h.alloc_to_core[p]
           c == h.cores[b]
           d == CoreWithout(c, p)
           s == w.live[p].size
<1>1. h \in Heaps /\ w \in Truths /\ WellFormed(w) /\ Follows(h, w) /\ Records(h, w)
  BY DEF Paired
<1>2. DOMAIN h.cores = DOMAIN w.cores
  BY <1>1 DEF Follows
<1>3. p \in Owned(w) /\ DOMAIN h.alloc_to_core = Owned(w) /\ b \in DOMAIN h.cores
  BY <1>1, <1>2 DEF Owned, Records, Places
<1>4. InMappedCore(h, p)
  BY <1>3 DEF InMappedCore
<1>5. /\ x \in Truths /\ x.cores = w.cores /\ x.outside = w.outside
      /\ x.closing = w.closing /\ DOMAIN x.live = DOMAIN w.live \ {p}
      /\ \A q \in DOMAIN w.live \ {p} : x.live[q] = w.live[q]
      /\ WellFormed(x) /\ Total(SizesOf(w.live)) = s + Total(SizesOf(x.live))
  BY <1>1, LiveErased
<1>6. /\ g \in Heaps /\ g.cores = Put(h.cores, b, d)
      /\ g.alloc_to_core = Erase(h.alloc_to_core, p)
      /\ g.used = Minus(h.used, RemovedBytes(c, p)) /\ g.max_used = h.max_used
      /\ g.managed = h.managed /\ g.max_managed = h.max_managed
      /\ g.allocations = h.allocations
  BY <1>1, <1>4, AllocationTaken
<1>7. c \in Cores
  BY <1>1, <1>3, CoreOf
<1>8. /\ d.managed = c.managed /\ d.end = c.end /\ d.allocations = Erase(c.allocations, p)
      /\ d.used = Minus(c.used, RemovedBytes(c, p))
  BY <1>7, CoreLoses
<1>9. s \in Nat
  BY <1>1, LiveNumbers
<1>10. /\ DOMAIN c.allocations = {q \in Owned(w) : h.alloc_to_core[q] = b}
       /\ \A q \in DOMAIN c.allocations : c.allocations[q] = w.live[q].size
       /\ c.used = Total(c.allocations)
  <2>1. CoreRecords(c, b, h.alloc_to_core, w)
    BY <1>1, <1>2, <1>3 DEF Records
  <2> QED
    BY <2>1 DEF CoreRecords
<1>11. p \in DOMAIN c.allocations /\ c.allocations[p] = s /\ RemovedBytes(c, p) = s
  <2>1. p \in DOMAIN c.allocations
    BY <1>3, <1>10
  <2> QED
    BY <1>10, <2>1 DEF RemovedBytes
<1> HIDE DEF g, x, b, c, d, s
<1>12. /\ DOMAIN g.cores = DOMAIN w.cores /\ g.cores[b] = d
       /\ \A y \in DOMAIN w.cores \ {b} : g.cores[y] = h.cores[y]
  BY <1>2, <1>3, <1>6 DEF Put
<1>13. Owned(x) = Owned(w) \ {p}
  BY <1>5 DEF Owned
<1>14. /\ DOMAIN g.alloc_to_core = Owned(w) \ {p}
       /\ \A q \in Owned(w) \ {p} : g.alloc_to_core[q] = h.alloc_to_core[q]
  BY <1>3, <1>6 DEF Erase, Restrict
<1>15. g.used = Total(SizesOf(x.live)) /\ g.used <= h.used
  <2>1. h.used = Total(SizesOf(w.live)) /\ h.used \in Size
    BY <1>1, HeapFields DEF Records
  <2>2. Total(SizesOf(x.live)) \in Nat
    BY <1>5, LiveNumbers, ConstantsNatural
  <2>3. h.used \in Nat /\ h.used < Word /\ s <= h.used /\ h.used - s = Total(SizesOf(x.live))
    BY <1>5, <1>9, <2>1, <2>2 DEF Size
  <2>4. g.used = h.used - s
    BY <1>6, <1>9, <1>11, <2>3, CountersExact
  <2> QED
    BY <1>9, <2>3, <2>4
<1>16. Follows(g, x)
  <2>1. \A y \in DOMAIN x.cores : g.cores[y].managed = x.cores[y] /\ g.cores[y].end = y + x.cores[y]
    BY <1>1, <1>5, <1>8, <1>12 DEF Follows, c
  <2>2. g.max_used >= g.used
    <3>1. g.used \in Nat /\ h.used \in Nat /\ h.max_used \in Nat
      BY <1>1, <1>6, HeapFields, ConstantsNatural
    <3>2. h.max_used >= h.used
      BY <1>1 DEF Follows
    <3> QED
      BY <1>6, <1>15, <3>1, <3>2
  <2> QED
    BY <1>1, <1>5, <1>6, <1>12, <2>1, <2>2 DEF Follows
<1>17. Places(g, x)
  <2>1. \A q \in Owned(w) : LET y == h.alloc_to_core[q]
                            IN  y \in DOMAIN w.cores /\ y <= q /\ q < y + w.cores[y]
    BY <1>1 DEF Records, Places
  <2> QED
    BY <1>5, <1>13, <1>14, <2>1 DEF Places
<1>18. CoreRecords(d, b, g.alloc_to_core, x)
  <2>1. DOMAIN d.allocations = DOMAIN c.allocations \ {p}
        /\ \A q \in DOMAIN c.allocations \ {p} : d.allocations[q] = c.allocations[q]
    BY <1>8 DEF Erase, Restrict
  <2>2. DOMAIN d.allocations = {q \in Owned(x) : g.alloc_to_core[q] = b}
    BY <1>10, <1>13, <1>14, <2>1
  <2>3. DOMAIN c.allocations \subseteq DOMAIN w.live
    BY <1>10 DEF Owned
  <2>4. \A q \in DOMAIN d.allocations : d.allocations[q] = x.live[q].size
    BY <1>5, <1>10, <2>1, <2>3
  <2>5. Naturals(c.allocations) /\ Total(c.allocations) \in Size
    BY <1>1, <1>10, <2>3, PartFits
  <2>6. Total(c.allocations) = s + Total(d.allocations) /\ Total(d.allocations) \in Nat
    BY <1>8, <1>11, <2>5, TotalErase, TotalNatural
  <2>7. d.used = Total(d.allocations)
    <3>1. c.used \in Nat /\ c.used < Word /\ s <= c.used /\ c.used - s = Total(d.allocations)
      BY <1>9, <1>10, <2>5, <2>6 DEF Size
    <3> QED
      BY <1>8, <1>9, <1>11, <3>1, CountersExact
  <2> QED
    BY <2>2, <2>4, <2>7 DEF CoreRecords
<1>19. ASSUME NEW y \in DOMAIN w.cores \ {b}
       PROVE  CoreRecords(g.cores[y], y, g.alloc_to_core, x)
  <2>1. CoreRecords(h.cores[y], y, h.alloc_to_core, w)
    BY <1>1 DEF Records
  <2>2. /\ DOMAIN h.cores[y].allocations = {q \in Owned(w) : h.alloc_to_core[q] = y}
        /\ \A q \in DOMAIN h.cores[y].allocations : h.cores[y].allocations[q] = w.live[q].size
        /\ h.cores[y].used = Total(h.cores[y].allocations)
    BY <2>1 DEF CoreRecords
  <2>3. {q \in Owned(x) : g.alloc_to_core[q] = y} = {q \in Owned(w) : h.alloc_to_core[q] = y}
    BY <1>13, <1>14 DEF b
  <2>4. \A q \in DOMAIN h.cores[y].allocations : h.cores[y].allocations[q] = x.live[q].size
    <3>1. \A q \in DOMAIN h.cores[y].allocations : q \in DOMAIN w.live /\ q # p
      BY <2>2 DEF Owned, b
    <3> QED
      BY <1>5, <2>2, <3>1
  <2> QED
    BY <1>12, <2>2, <2>3, <2>4 DEF CoreRecords
<1>20. \A q \in DOMAIN x.live \ Owned(x) :
         q \in DOMAIN g.allocations /\ g.allocations[q] = x.live[q].size
  <2>1. \A q \in DOMAIN w.live \ Owned(w) :
          q \in DOMAIN h.allocations /\ h.allocations[q] = w.live[q].size
    BY <1>1 DEF Records
  <2> QED
    BY <1>5, <1>6, <1>13, <2>1
<1>21. Records(g, x)
  <2>1. \A y \in DOMAIN x.cores : CoreRecords(g.cores[y], y, g.alloc_to_core, x)
    BY <1>5, <1>12, <1>18, <1>19
  <2> QED
    BY <1>15, <1>17, <1>20, <2>1 DEF Records
<1>22. Paired(g, x)
  BY <1>5, <1>6, <1>16, <1>21 DEF Paired
<1> QED
  BY <1>4, <1>22 DEF g, x

\* A free without a core leaves the entry: the address is not used again.
LEMMA PairedFreeOutside ==
  ASSUME NEW h, NEW w, Paired(h, w), ~w.closing, NEW p \in DOMAIN w.live, ~w.live[p].owned
  PROVE  /\ p \in DOMAIN h.allocations
         /\ Paired(TakenFromOutside(h, p), WithLive(w, Erase(w.live, p)))
<1> DEFINE g == TakenFromOutside(h, p)
           x == WithLive(w, Erase(w.live, p))
           s == w.live[p].size
<1>1. h \in Heaps /\ w \in Truths /\ WellFormed(w) /\ Follows(h, w) /\ Records(h, w)
  BY DEF Paired
<1>2. p \notin Owned(w) /\ p \in DOMAIN h.allocations /\ h.allocations[p] = s
  BY <1>1 DEF Owned, Records
<1>3. /\ x \in Truths /\ x.cores = w.cores /\ x.outside = w.outside
      /\ x.closing = w.closing /\ DOMAIN x.live = DOMAIN w.live \ {p}
      /\ \A q \in DOMAIN w.live \ {p} : x.live[q] = w.live[q]
      /\ WellFormed(x) /\ Total(SizesOf(w.live)) = s + Total(SizesOf(x.live))
  BY <1>1, LiveErased
<1>4. /\ g \in Heaps /\ g.used = Minus(h.used, s) /\ g.max_used = h.max_used
      /\ g.managed = h.managed /\ g.max_managed = h.max_managed
      /\ g.cores = h.cores /\ g.alloc_to_core = h.alloc_to_core
      /\ g.allocations = h.allocations
  BY <1>1, <1>2, AllocationTakenOutside
<1>5. s \in Nat
  BY <1>1, LiveNumbers
<1> HIDE DEF g, x, s
<1>6. Owned(x) = Owned(w)
  BY <1>2, <1>3 DEF Owned
<1>7. g.used = Total(SizesOf(x.live)) /\ g.used <= h.used
  <2>1. h.used = Total(SizesOf(w.live)) /\ h.used \in Size
    BY <1>1, HeapFields DEF Records
  <2>2. Total(SizesOf(x.live)) \in Nat
    BY <1>3, LiveNumbers, ConstantsNatural
  <2>3. h.used \in Nat /\ h.used < Word /\ s <= h.used /\ h.used - s = Total(SizesOf(x.live))
    BY <1>3, <1>5, <2>1, <2>2 DEF Size
  <2>4. g.used = h.used - s
    BY <1>4, <1>5, <2>3, CountersExact
  <2> QED
    BY <1>5, <2>3, <2>4
<1>8. Follows(g, x)
  <2>1. g.max_used >= g.used
    <3>1. g.used \in Nat /\ h.used \in Nat /\ h.max_used \in Nat
      BY <1>1, <1>4, HeapFields, ConstantsNatural
    <3>2. h.max_used >= h.used
      BY <1>1 DEF Follows
    <3> QED
      BY <1>4, <1>7, <3>1, <3>2
  <2> QED
    BY <1>1, <1>3, <1>4, <2>1 DEF Follows
<1>9. Places(g, x)
  BY <1>1, <1>3, <1>4, <1>6 DEF Records, Places
<1>10. ASSUME NEW b \in DOMAIN w.cores
       PROVE  CoreRecords(g.cores[b], b, g.alloc_to_core, x)
  <2>1. CoreRecords(h.cores[b], b, h.alloc_to_core, w)
    BY <1>1 DEF Records
  <2>2. \A q \in DOMAIN h.cores[b].allocations : q \in DOMAIN w.live /\ q # p
    BY <1>2, <2>1 DEF CoreRecords, Owned
  <2> QED
    BY <1>3, <1>4, <1>6, <2>1, <2>2 DEF CoreRecords
<1>11. \A q \in DOMAIN x.live \ Owned(x) :
         q \in DOMAIN g.allocations /\ g.allocations[q] = x.live[q].size
  <2>1. \A q \in DOMAIN w.live \ Owned(w) :
          q \in DOMAIN h.allocations /\ h.allocations[q] = w.live[q].size
    BY <1>1 DEF Records
  <2> QED
    BY <1>3, <1>4, <1>6, <2>1
<1>12. Records(g, x)
  BY <1>3, <1>7, <1>9, <1>10, <1>11 DEF Records
<1>13. Paired(g, x)
  BY <1>3, <1>4, <1>8, <1>12 DEF Paired
<1> QED
  BY <1>2, <1>13 DEF g, x

LEMMA PairedFreeAll ==
  ASSUME NEW h, NEW w, Paired(h, w)
  PROVE  Paired(HeapFreesAll(h), Closed(w))
<1> DEFINE g == HeapFreesAll(h)
           x == Closed(w)
<1>1. h \in Heaps /\ w \in Truths /\ WellFormed(w) /\ Follows(h, w)
  BY DEF Paired
<1>2. /\ g \in Heaps /\ DOMAIN g.cores = DOMAIN h.cores
      /\ \A b \in DOMAIN h.cores : /\ g.cores[b].managed = h.cores[b].managed
                                   /\ g.cores[b].end = h.cores[b].end
      /\ g.used = h.used /\ g.max_used = h.max_used
      /\ g.managed = h.managed /\ g.max_managed = h.max_managed
      /\ g.allocations = h.allocations
  BY <1>1, AllFreed
<1>3. x \in Truths /\ x.live = Empty /\ x.cores = w.cores /\ x.outside = w.outside
      /\ x.closing = TRUE
  BY <1>1, TruthClosed
<1> HIDE DEF g, x
<1>4. WellFormed(x)
  <2>1. DOMAIN Empty = {} /\ DOMAIN SizesOf(Empty) = {}
    BY EmptyIs DEF SizesOf
  <2>2. Apart(SizesOf(x.live))
    BY <1>3, <2>1 DEF Apart
  <2> QED
    BY <1>1, <1>3, <2>1, <2>2 DEF WellFormed
<1>5. Follows(g, x)
  BY <1>1, <1>2, <1>3 DEF Follows
<1>6. Paired(g, x)
  BY <1>2, <1>3, <1>4, <1>5 DEF Paired
<1> QED
  BY <1>6 DEF g, x

\* What is paired does not look at the time of death, nor at what is gone.
LEMMA PairedDead ==
  ASSUME NEW h, NEW w, Paired(h, w), NEW t \in Times
  PROVE  Paired(WithDeath(h, t), w)
<1>1. h \in Heaps /\ w \in Truths
  BY DEF Paired
<1> DEFINE g == WithDeath(h, t)
<1>2. /\ g \in Heaps /\ g.used = h.used /\ g.managed = h.managed
      /\ g.max_used = h.max_used /\ g.max_managed = h.max_managed
      /\ g.cores = h.cores /\ g.alloc_to_core = h.alloc_to_core /\ g.allocations = h.allocations
  BY <1>1, DeathWritten
<1> HIDE DEF g
<1>3. Paired(g, w)
  BY <1>1, <1>2, PairedLikewise
<1> QED
  BY <1>3 DEF g

LEMMA PairedGone ==
  ASSUME NEW h, NEW w, Paired(h, w)
  PROVE  Paired(h, Destroyed(w))
<1>1. h \in Heaps /\ w \in Truths
  BY DEF Paired
<1> DEFINE x == Destroyed(w)
<1>2. x \in Truths /\ x.cores = w.cores /\ x.live = w.live /\ x.outside = w.outside
      /\ x.closing = w.closing
  BY <1>1, TruthWritten
<1> HIDE DEF x
<1>3. Paired(h, x)
  BY <1>1, <1>2, PairedLikewise
<1> QED
  BY <1>3 DEF x

LEMMA PairedBacking ==
  ASSUME NEW h, NEW w, Paired(h, w), NEW other \in HeapIds
  PROVE  Paired(WithBacking(h, Append(h.backing, other)), w)
<1>1. h \in Heaps /\ w \in Truths
  BY DEF Paired
<1> DEFINE g == WithBacking(h, Append(h.backing, other))
<1>2. Append(h.backing, other) \in Seq(HeapIds)
  <2>1. h.backing \in Seq(HeapIds)
    BY <1>1, HeapFields
  <2> QED
    BY <2>1
<1>3. /\ g \in Heaps /\ g.used = h.used /\ g.managed = h.managed
      /\ g.max_used = h.max_used /\ g.max_managed = h.max_managed
      /\ g.cores = h.cores /\ g.alloc_to_core = h.alloc_to_core /\ g.allocations = h.allocations
  BY <1>1, <1>2, BackingWritten
<1> HIDE DEF g
<1>4. Paired(g, w)
  BY <1>1, <1>3, PairedLikewise
<1> QED
  BY <1>4 DEF g

-----------------------------------------------------------------------------
(***************************************************************************)
(* The steps of the program and the tool.                                  *)
(***************************************************************************)
\* The backing allocators of a heap are among the ids.
Backed(h, ids) == Range(h.backing) \subseteq ids

TracedInvariant ==
  /\ HeapsMapped /\ truth \in Maps(HeapIds, Truths) /\ crashed = FALSE
  /\ DOMAIN heaps = DOMAIN truth
  /\ \A id \in DOMAIN heaps : Paired(heaps[id], truth[id]) /\ Backed(heaps[id], DOMAIN heaps)

\* A step makes a pair or writes one.
PairPut ==
  \E id \in HeapIds : \E h, w :
    /\ Paired(h, w) /\ Backed(h, DOMAIN heaps)
    /\ heaps' = Put(heaps, id, h) /\ truth' = Put(truth, id, w)
    /\ crashed' = FALSE

LEMMA PairPutKeeps ==
  ASSUME TracedInvariant, PairPut
  PROVE  TracedInvariant'
<1>1. PICK id, h, w : /\ id \in HeapIds /\ Paired(h, w) /\ Backed(h, DOMAIN heaps)
                      /\ heaps' = Put(heaps, id, h) /\ truth' = Put(truth, id, w)
                      /\ crashed' = FALSE
  BY DEF PairPut
<1>2. /\ HeapsMapped /\ truth \in Maps(HeapIds, Truths) /\ DOMAIN heaps = DOMAIN truth
      /\ \A x \in DOMAIN heaps : Paired(heaps[x], truth[x]) /\ Backed(heaps[x], DOMAIN heaps)
  BY DEF TracedInvariant
<1>3. h \in Heaps /\ w \in Truths
  BY <1>1 DEF Paired
<1>4. heaps' \in Maps(HeapIds, Heaps)
  BY <1>1, <1>2, <1>3, PutMap DEF HeapsMapped
<1>5. truth' \in Maps(HeapIds, Truths)
  BY <1>1, <1>2, <1>3, PutMap
<1>6. /\ DOMAIN heaps' = DOMAIN heaps \cup {id} /\ heaps'[id] = h
      /\ \A x \in DOMAIN heaps \ {id} : heaps'[x] = heaps[x]
  BY <1>1 DEF Put
<1>7. /\ DOMAIN truth' = DOMAIN truth \cup {id} /\ truth'[id] = w
      /\ \A x \in DOMAIN truth \ {id} : truth'[x] = truth[x]
  BY <1>1 DEF Put
<1>8. \A x \in DOMAIN heaps' : Paired(heaps'[x], truth'[x])
  BY <1>1, <1>2, <1>6, <1>7
<1>9. \A x \in DOMAIN heaps' : Backed(heaps'[x], DOMAIN heaps')
  BY <1>1, <1>2, <1>6 DEF Backed
<1>10. DOMAIN heaps' = DOMAIN truth'
  BY <1>2, <1>6, <1>7
<1> QED
  BY <1>1, <1>4, <1>5, <1>8, <1>9, <1>10 DEF TracedInvariant, HeapsMapped

\* The pair of a heap the program uses.
LEMMA PairOf ==
  ASSUME TracedInvariant, NEW id \in DOMAIN truth
  PROVE  /\ id \in HeapIds /\ Known(id) /\ Paired(heaps[id], truth[id])
         /\ heaps[id] \in Heaps /\ truth[id] \in Truths
<1>1. id \in DOMAIN heaps /\ Paired(heaps[id], truth[id])
  BY DEF TracedInvariant
<1>2. id \in HeapIds
  BY <1>1, KnownHeap DEF TracedInvariant
<1> QED
  BY <1>1, <1>2 DEF Known, Paired

LEMMA BecomesPair ==
  ASSUME TracedInvariant, NEW id \in DOMAIN truth, NEW g, NEW x, Becomes(id, g), Does(id, x),
         Paired(g, x), g.backing = heaps[id].backing
  PROVE  PairPut
<1>1. id \in HeapIds /\ Known(id)
  BY PairOf
<1>2. heaps' = Put(heaps, id, g) /\ crashed' = FALSE
  BY <1>1, BecomesPut DEF TracedInvariant, Becomes
<1>3. truth' = Put(truth, id, x)
  BY UpdateIsPut DEF TracedInvariant, Does
<1>4. Backed(g, DOMAIN heaps)
  BY DEF TracedInvariant, Backed
<1> QED
  BY <1>1, <1>2, <1>3, <1>4 DEF PairPut

LEMMA CreateKeeps ==
  ASSUME TracedInvariant, NEW t \in Times, NEW id \in HeapIds, PHeapCreate(t, id)
  PROVE  PairPut
<1>1. id \notin DOMAIN heaps /\ truth' = Put(truth, id, NewTruth) /\ crashed' = FALSE
  BY DEF PHeapCreate, HeapCreate, TracedInvariant
<1>2. PICK m \in Garbage, u \in Garbage : heaps' = Put(heaps, id, NewHeap(t, m, u))
  BY <1>1 DEF PHeapCreate, HeapCreate, Emplace
<1> DEFINE h == NewHeap(t, m, u)
           w == NewTruth
<1>3. Paired(h, w) /\ h.backing = <<>>
  BY PairedNew, HeapMade
<1> HIDE DEF h, w
<1>4. Backed(h, DOMAIN heaps)
  BY <1>3 DEF Backed, Range
<1>5. heaps' = Put(heaps, id, h) /\ truth' = Put(truth, id, w)
  BY <1>1, <1>2 DEF h, w
<1> QED
  BY <1>1, <1>3, <1>4, <1>5 DEF PairPut

\* The death may be written to another heap than the destroyed one (the id goes
\* through an int), or to none: nothing that is paired tells them apart.
LEMMA DestroyKeeps ==
  ASSUME TracedInvariant, NEW t \in Times, NEW id \in HeapIds, PHeapDestroy(t, id)
  PROVE  TracedInvariant'
<1>1. /\ HeapsMapped /\ truth \in Maps(HeapIds, Truths) /\ crashed = FALSE
      /\ DOMAIN heaps = DOMAIN truth
      /\ \A x \in DOMAIN heaps : Paired(heaps[x], truth[x]) /\ Backed(heaps[x], DOMAIN heaps)
  BY DEF TracedInvariant
<1>2. id \in DOMAIN truth /\ truth' = [truth EXCEPT ![id] = Destroyed(truth[id])]
  BY DEF PHeapDestroy, InUse, Does, Destroyed
<1>3. \A x \in DOMAIN truth : truth[x] \in Truths /\ heaps[x] \in Heaps /\ x \in HeapIds
  BY PairOf
<1>4. /\ DOMAIN truth' = DOMAIN truth
      /\ \A x \in DOMAIN truth : truth'[x] = truth[x] \/ truth'[x] = Destroyed(truth[x])
  BY <1>1, <1>2, MapIs
<1>5. /\ DOMAIN heaps' = DOMAIN heaps /\ crashed' = FALSE /\ heaps' \in Maps(HeapIds, Heaps)
      /\ \A x \in DOMAIN heaps : heaps'[x] = heaps[x] \/ heaps'[x] = WithDeath(heaps[x], t)
  <2> DEFINE int == AsInt(id)
  <2>1. CASE Known(int)
    <3>1. Becomes(int, WithDeath(heaps[int], t))
      BY <2>1 DEF PHeapDestroy, HeapDestroy, WithDeath
    <3> HIDE DEF int
    <3>2. int \in DOMAIN heaps /\ int \in HeapIds /\ WithDeath(heaps[int], t) \in Heaps
      BY <1>1, <1>3, <2>1, DeathWritten DEF Known
    <3>3. heaps' = Put(heaps, int, WithDeath(heaps[int], t)) /\ crashed' = FALSE
      BY <1>1, <2>1, <3>1, BecomesPut DEF Becomes
    <3>4. heaps' \in Maps(HeapIds, Heaps)
      BY <1>1, <3>2, <3>3, PutMap DEF HeapsMapped
    <3> QED
      BY <3>2, <3>3, <3>4 DEF Put
  <2>2. CASE ~Known(int)
    <3>1. heaps' = heaps /\ crashed' = FALSE
      BY <1>1, <2>2 DEF PHeapDestroy, HeapDestroy, Ignored
    <3> QED
      BY <1>1, <3>1 DEF HeapsMapped
  <2> QED
    BY <2>1, <2>2
<1>6. ASSUME NEW x \in DOMAIN heaps'
      PROVE  Paired(heaps'[x], truth'[x]) /\ Backed(heaps'[x], DOMAIN heaps')
  <2>1. x \in DOMAIN heaps /\ x \in DOMAIN truth /\ Paired(heaps[x], truth[x])
    BY <1>1, <1>5
  <2>2. Paired(heaps'[x], truth[x]) /\ heaps'[x].backing = heaps[x].backing
    BY <1>3, <1>5, <2>1, PairedDead, DeathWritten
  <2>3. Paired(heaps'[x], Destroyed(truth[x]))
    BY <2>2, PairedGone
  <2> QED
    BY <1>1, <1>4, <1>5, <2>1, <2>2, <2>3 DEF Backed
<1>7. truth' \in Maps(HeapIds, Truths)
  <2> DEFINE x == Destroyed(truth[id])
  <2>1. x \in Truths
    <3>1. Paired(heaps[id], truth[id])
      BY <1>1, <1>2
    <3>2. Paired(heaps[id], x)
      BY <3>1, PairedGone
    <3> QED
      BY <3>2 DEF Paired
  <2>2. truth' = [truth EXCEPT ![id] = x] /\ id \in HeapIds /\ id \in DOMAIN truth
    BY <1>2, <1>3
  <2> HIDE DEF x
  <2>3. truth' = Put(truth, id, x)
    BY <1>1, <2>2, UpdateIsPut
  <2>4. Put(truth, id, x) \in Maps(HeapIds, Truths)
    BY <1>1, <2>1, <2>2, PutMap
  <2> QED
    BY <2>3, <2>4
<1> QED
  BY <1>1, <1>4, <1>5, <1>6, <1>7 DEF TracedInvariant, HeapsMapped

LEMMA AddCoreKeeps ==
  ASSUME TracedInvariant, NEW t \in Times, NEW id \in HeapIds, NEW b \in Pointers, NEW s \in Sizes,
         PAddCore(t, id, b, s)
  PROVE  PairPut
<1>1. id \in DOMAIN truth /\ s > 0 /\ Addressable(b, s) /\ Bytes(b, s) \cap Managed(id) = {}
  BY DEF PAddCore, Usable, InUse, Taken
<1> DEFINE h == heaps[id]
           w == truth[id]
<1>2. Known(id) /\ Paired(h, w) /\ h \in Heaps
  BY <1>1, PairOf
<1>3. /\ Does(id, WithTrueCores(w, Put(w.cores, b, s)))
      /\ Becomes(id, HeapAddCore(h, b, s))
  BY <1>2 DEF PAddCore, AddCore, WithTrueCores
<1>4. Bytes(b, s) \cap CoreSpan(w) = {}
  BY <1>1 DEF Managed, CoreBytes, CoreSpan
<1> HIDE DEF h, w
<1>5. b \notin DOMAIN h.cores /\ Paired(HeapAddCore(h, b, s), WithTrueCores(w, Put(w.cores, b, s)))
  BY <1>1, <1>2, <1>4, PairedAddCore
<1>6. HeapAddCore(h, b, s).backing = h.backing
  BY <1>2, <1>5, CoreAdded
<1> QED
  BY <1>1, <1>3, <1>5, <1>6, BecomesPair DEF h

LEMMA GrowCoreKeeps ==
  ASSUME TracedInvariant, NEW t \in Times, NEW id \in HeapIds, NEW b \in Pointers, NEW s \in Sizes,
         PGrowCore(t, id, b, s)
  PROVE  PairPut
<1> DEFINE h == heaps[id]
           w == truth[id]
<1>1. /\ id \in DOMAIN truth /\ b \in DOMAIN w.cores /\ s > 0 /\ Addressable(b, w.cores[b] + s)
      /\ Bytes(b + w.cores[b], s) \cap Managed(id) = {}
  BY DEF PGrowCore, Grows, Usable, InUse, Taken
<1>2. Known(id) /\ Paired(h, w) /\ h \in Heaps /\ w \in Truths
  BY <1>1, PairOf
<1>3. [w.cores EXCEPT ![b] = w.cores[b] + s] = Put(w.cores, b, w.cores[b] + s)
  BY <1>1, <1>2, TruthFields, UpdateIsPut
<1>4. Does(id, WithTrueCores(w, [w.cores EXCEPT ![b] = w.cores[b] + s]))
  BY DEF PGrowCore, Grows, WithTrueCores
<1>5. Becomes(id, HeapGrowCore(h, b, s))
  BY <1>2 DEF PGrowCore, GrowCore
<1>6. Bytes(b + w.cores[b], s) \cap CoreSpan(w) = {}
  BY <1>1 DEF Managed, CoreBytes, CoreSpan
<1> HIDE DEF h, w
<1>7. /\ b \in DOMAIN h.cores
      /\ Paired(HeapGrowCore(h, b, s), WithTrueCores(w, Put(w.cores, b, w.cores[b] + s)))
  BY <1>1, <1>2, <1>6, PairedGrowCore
<1>8. HeapGrowCore(h, b, s).backing = h.backing
  BY <1>2, <1>7, CoreGrown
<1> QED
  BY <1>1, <1>3, <1>4, <1>5, <1>7, <1>8, BecomesPair DEF h

LEMMA RemoveCoreKeeps ==
  ASSUME TracedInvariant, NEW t \in Times, NEW id \in HeapIds, NEW b \in Pointers,
         PRemoveCore(t, id, b)
  PROVE  PairPut
<1> DEFINE h == heaps[id]
           w == truth[id]
<1>1. id \in DOMAIN truth /\ b \in DOMAIN w.cores /\ CoreBytes(id, b) \cap LiveBytes(id) = {}
  BY DEF PRemoveCore, InUse
<1>2. Known(id) /\ Paired(h, w) /\ h \in Heaps
  BY <1>1, PairOf
<1>3. /\ Does(id, WithTrueCores(w, Erase(w.cores, b)))
      /\ Becomes(id, HeapRemoveCore(h, b))
  BY <1>2 DEF PRemoveCore, RemoveCore, WithTrueCores
<1>4. Bytes(b, w.cores[b]) \cap LiveSpan(w) = {}
  BY <1>1 DEF LiveBytes, CoreBytes, LiveSpan
<1> HIDE DEF h, w
<1>5. /\ b \in DOMAIN h.cores
      /\ Paired(HeapRemoveCore(h, b), WithTrueCores(w, Erase(w.cores, b)))
  BY <1>1, <1>2, <1>4, PairedRemoveCore
<1>6. HeapRemoveCore(h, b).backing = h.backing
  BY <1>2, <1>5, CoreRemoved
<1> QED
  BY <1>1, <1>3, <1>5, <1>6, BecomesPair DEF h

LEMMA AllocateKeeps ==
  ASSUME TracedInvariant, NEW t \in Times, NEW id \in HeapIds, NEW p \in Pointers, NEW s \in Sizes,
         PAllocate(t, id, p, s)
  PROVE  PairPut
<1> DEFINE h == heaps[id]
           w == truth[id]
           x == WithLive(w, Put(w.live, p, [size |-> s, owned |-> TRUE]))
<1>1. /\ id \in DOMAIN truth /\ ~w.closing /\ s > 0
      /\ Bytes(p, s) \subseteq Managed(id) \ LiveBytes(id)
  BY DEF PAllocate, Usable, InUse
<1>2. Known(id) /\ Paired(h, w) /\ h \in Heaps
  BY <1>1, PairOf
<1>3. Does(id, x)
  BY DEF PAllocate, WithLive
<1>4. Room(w, p, s)
  <2>1. Managed(id) = CoreSpan(w) /\ LiveBytes(id) = LiveSpan(w)
    BY DEF Managed, CoreBytes, CoreSpan, LiveBytes, LiveSpan
  <2> QED
    BY <1>1, <2>1 DEF Room
<1>5. Cardinality({b \in DOMAIN w.cores : Bytes(b, w.cores[b]) \cap Bytes(p, s) # {}}) <= 2
  BY DEF PAllocate, CoreBytes
<1>6. \E b \in Candidates(h, p, s) : IsFirst(b, Candidates(h, p, s))
  <2> HIDE DEF h, w
  <2> QED
    BY <1>1, <1>2, <1>4, <1>5, CandidateFound
<1>7. PICK b \in Candidates(h, p, s) : Becomes(id, Sample(PlacedIn(h, b, p, s), t))
  BY <1>2, <1>6 DEF PAllocate, Allocate
<1> HIDE DEF h, w, x
<1>8. b \in DOMAIN h.cores /\ Holds(w, b, p)
  BY <1>1, <1>2, <1>4, CandidateHolds
<1> DEFINE k == PlacedIn(h, b, p, s)
<1>9. Paired(k, x)
  BY <1>1, <1>2, <1>4, <1>8, PairedAllocate DEF x
<1>10. k.backing = h.backing /\ k \in Heaps
  BY <1>2, <1>8, AllocationPlacedIn
<1>11. Becomes(id, Sample(k, t))
  BY <1>7
<1> HIDE DEF k
<1>12. Paired(Sample(k, t), x) /\ Sample(k, t).backing = h.backing
  BY <1>9, <1>10, PairedSampled, Sampled
<1> QED
  BY <1>1, <1>3, <1>11, <1>12, BecomesPair DEF h

LEMMA AllocateOutsideKeeps ==
  ASSUME TracedInvariant, NEW t \in Times, NEW id \in HeapIds, NEW p \in Pointers, NEW s \in Sizes,
         PAllocateOutside(t, id, p, s)
  PROVE  PairPut
<1> DEFINE h == heaps[id]
           w == truth[id]
           x == WithLiveOutside(w, Put(w.live, p, [size |-> s, owned |-> FALSE]), p)
           k == PlacedOutside(h, p, s)
<1>1. /\ id \in DOMAIN truth /\ ~w.closing /\ s > 0 /\ Addressable(p, s) /\ p \notin w.outside
      /\ Bytes(p, s) \cap LiveBytes(id) = {}
  BY DEF PAllocateOutside, Usable, InUse, Taken
<1>2. Known(id) /\ Paired(h, w) /\ h \in Heaps
  BY <1>1, PairOf
<1>3. Does(id, x)
  BY DEF PAllocateOutside, WithLiveOutside
<1>4. Becomes(id, Sample(k, t))
  BY <1>2 DEF PAllocateOutside, Allocate
<1>5. Bytes(p, s) \cap LiveSpan(w) = {}
  BY <1>1 DEF LiveBytes, LiveSpan
<1> HIDE DEF h, w
<1>6. Paired(k, x)
  BY <1>1, <1>2, <1>5, PairedAllocateOutside
<1>7. k.backing = h.backing /\ k \in Heaps
  BY <1>2, AllocationPlacedOutside
<1> HIDE DEF k, x
<1>8. Paired(Sample(k, t), x) /\ Sample(k, t).backing = h.backing
  BY <1>6, <1>7, PairedSampled, Sampled
<1> QED
  BY <1>1, <1>3, <1>4, <1>8, BecomesPair DEF h

LEMMA FreeKeeps ==
  ASSUME TracedInvariant, NEW t \in Times, NEW id \in HeapIds, NEW p \in Pointers, PFree(t, id, p)
  PROVE  PairPut
<1> DEFINE h == heaps[id]
           w == truth[id]
           x == WithLive(w, Erase(w.live, p))
           owned == w.live[p].owned
<1>1. id \in DOMAIN truth /\ ~w.closing /\ p \in DOMAIN w.live
  BY DEF PFree, Usable, InUse
<1>2. Known(id) /\ Paired(h, w) /\ h \in Heaps
  BY <1>1, PairOf
<1>3. Does(id, x)
  BY DEF PFree, WithLive
<1>4. Free(t, id, p, owned)
  BY DEF PFree
<1>5. ASSUME NEW k \in Heaps, Becomes(id, Sample(k, t)), Paired(k, x), k.backing = h.backing
      PROVE  PairPut
  <2>1. Paired(Sample(k, t), x) /\ Sample(k, t).backing = heaps[id].backing
    BY <1>5, PairedSampled, Sampled
  <2> HIDE DEF x
  <2> QED
    BY <1>1, <1>3, <1>5, <2>1, BecomesPair
<1>6. CASE owned
  <2>1. InMappedCore(h, p) /\ Paired(TakenFromCore(h, p), x)
    <3> HIDE DEF h, w
    <3> QED
      BY <1>1, <1>2, <1>6, PairedFree
  <2>2. Becomes(id, Sample(TakenFromCore(h, p), t))
    BY <1>2, <1>4, <1>6, <2>1 DEF Free, Recorded
  <2>3. TakenFromCore(h, p) \in Heaps /\ TakenFromCore(h, p).backing = h.backing
    BY <1>2, <2>1, AllocationTaken
  <2> HIDE DEF h, x
  <2> QED
    BY <1>5, <2>1, <2>2, <2>3
<1>7. CASE ~owned
  <2>1. p \in DOMAIN h.allocations /\ Paired(TakenFromOutside(h, p), x)
    <3> HIDE DEF h, w
    <3> QED
      BY <1>1, <1>2, <1>7, PairedFreeOutside
  <2>2. Becomes(id, Sample(TakenFromOutside(h, p), t))
    BY <1>2, <1>4, <1>7, <2>1 DEF Free, Recorded
  <2>3. TakenFromOutside(h, p) \in Heaps /\ TakenFromOutside(h, p).backing = h.backing
    BY <1>2, <2>1, AllocationTakenOutside
  <2> HIDE DEF h, x
  <2> QED
    BY <1>5, <2>1, <2>2, <2>3
<1> QED
  BY <1>6, <1>7

LEMMA FreeAllKeeps ==
  ASSUME TracedInvariant, NEW t \in Times, NEW id \in HeapIds, PFreeAll(t, id)
  PROVE  PairPut
<1> DEFINE h == heaps[id]
           w == truth[id]
<1>1. id \in DOMAIN truth
  BY DEF PFreeAll, Usable, InUse
<1>2. Known(id) /\ Paired(h, w) /\ h \in Heaps
  BY <1>1, PairOf
<1>3. Does(id, Closed(w)) /\ Becomes(id, HeapFreesAll(h))
  BY <1>2 DEF PFreeAll, FreeAll, Closed
<1>4. HeapFreesAll(h).backing = h.backing
  BY <1>2, AllFreed
<1>5. Paired(HeapFreesAll(h), Closed(w))
  BY <1>2, PairedFreeAll
<1> QED
  BY <1>1, <1>3, <1>4, <1>5, BecomesPair

\* The only way into the list of backing allocators, and both are in use.
LEMMA SetBackingKeeps ==
  ASSUME TracedInvariant, NEW t \in Times, NEW id \in HeapIds, NEW other \in HeapIds,
         PSetBackingAllocator(t, id, other)
  PROVE  PairPut
<1> DEFINE h == heaps[id]
           w == truth[id]
           g == WithBacking(h, Append(h.backing, other))
<1>1. id \in DOMAIN truth /\ other \in DOMAIN truth /\ truth' = truth
  BY DEF PSetBackingAllocator, InUse
<1>2. Known(id) /\ Paired(h, w) /\ h \in Heaps
  BY <1>1, PairOf
<1>3. Becomes(id, g)
  BY <1>2 DEF PSetBackingAllocator, SetBackingAllocator, WithBacking
<1>4. heaps' = Put(heaps, id, g) /\ crashed' = FALSE
  BY <1>2, <1>3, BecomesPut DEF TracedInvariant, Becomes
<1>5. truth' = Put(truth, id, w)
  <2>1. truth = [truth EXCEPT ![id] = w]
    <3>1. truth = [y \in DOMAIN truth |-> truth[y]]
      BY MapIs DEF TracedInvariant
    <3> QED
      BY <1>1, <3>1
  <2>2. [truth EXCEPT ![id] = w] = Put(truth, id, w)
    BY <1>1, UpdateIsPut DEF TracedInvariant
  <2> QED
    BY <1>1, <2>1, <2>2
<1>6. Paired(g, w)
  BY <1>2, PairedBacking
<1>7. Backed(g, DOMAIN heaps)
  <2>1. h.backing \in Seq(HeapIds) /\ Range(h.backing) \subseteq DOMAIN heaps
        /\ other \in DOMAIN heaps
    BY <1>1, <1>2, HeapFields DEF TracedInvariant, Backed
  <2>2. Append(h.backing, other) \in Seq(HeapIds)
    BY <2>1
  <2>3. g.backing = Append(h.backing, other)
    BY <1>2, <2>2, BackingWritten
  <2>4. \A i \in DOMAIN Append(h.backing, other) :
          Append(h.backing, other)[i] \in Range(h.backing) \cup {other}
    BY <2>1 DEF Range
  <2> QED
    BY <2>1, <2>3, <2>4 DEF Backed, Range
<1> QED
  BY <1>4, <1>5, <1>6, <1>7 DEF PairPut

\* The chart finds every backing allocator.
LEMMA LookKeeps ==
  ASSUME TracedInvariant, NEW id \in HeapIds, UserLooks(id)
  PROVE  UNCHANGED <<heaps, truth, crashed>>
<1>1. Known(id) /\ crashed' = (Unnamed(id) # {}) /\ UNCHANGED <<heaps, truth>>
  BY DEF UserLooks, GetHeapInformation
<1>2. Unnamed(id) = {}
  BY <1>1 DEF TracedInvariant, Backed, Known, Unnamed
<1> QED
  BY <1>1, <1>2 DEF TracedInvariant

LEMMA OtherKeeps ==
  ASSUME NEW t, POther(t)
  PROVE  UNCHANGED <<heaps, truth, crashed>>
BY DEF POther, OtherEvent, Ignored

LEMMA PairsKept ==
  /\ TInit => TracedInvariant
  /\ TracedInvariant /\ [TNext]_tracedVars => TracedInvariant'
<1>1. ASSUME TInit
      PROVE  TracedInvariant
  <2>1. heaps = Empty /\ truth = Empty /\ crashed = FALSE
    BY <1>1 DEF TInit, Init
  <2>2. DOMAIN Empty = {} /\ Empty \in Maps(HeapIds, Heaps) /\ Empty \in Maps(HeapIds, Truths)
    BY EmptyIs
  <2> QED
    BY <2>1, <2>2 DEF TracedInvariant, HeapsMapped
<1>2. ASSUME TracedInvariant, [TNext]_tracedVars
      PROVE  TracedInvariant'
  <2>1. CASE UNCHANGED <<heaps, truth, crashed>>
    BY <1>2, <2>1 DEF TracedInvariant, HeapsMapped
  <2>2. CASE PairPut
    BY <1>2, <2>2, PairPutKeeps
  <2>3. CASE UNCHANGED tracedVars
    BY <2>1, <2>3 DEF tracedVars, vars
  <2>4. ASSUME NEW id \in HeapIds, UserLooks(id)
        PROVE  TracedInvariant'
    BY <1>2, <2>1, <2>4, LookKeeps
  <2>5. ASSUME NEW t \in Times, POther(t)
        PROVE  TracedInvariant'
    BY <2>1, <2>5, OtherKeeps
  <2>6. ASSUME NEW t \in Times, NEW id \in HeapIds,
               NextOfHeap(t, id) \/ PFreeAll(t, id)
        PROVE  TracedInvariant'
    BY <1>2, <2>2, <2>6, CreateKeeps, DestroyKeeps, FreeAllKeeps DEF NextOfHeap
  <2>7. ASSUME NEW t \in Times, NEW id \in HeapIds, NEW other \in HeapIds,
               PSetBackingAllocator(t, id, other)
        PROVE  TracedInvariant'
    BY <1>2, <2>2, <2>7, SetBackingKeeps
  <2>8. ASSUME NEW t \in Times, NEW id \in HeapIds, NEW p \in Pointers,
               PRemoveCore(t, id, p) \/ PFree(t, id, p)
        PROVE  TracedInvariant'
    BY <1>2, <2>2, <2>8, RemoveCoreKeeps, FreeKeeps
  <2>9. ASSUME NEW t \in Times, NEW id \in HeapIds, NEW p \in Pointers, NEW s \in Sizes,
               PAddCore(t, id, p, s) \/ PGrowCore(t, id, p, s)
        PROVE  TracedInvariant'
    BY <1>2, <2>2, <2>9, AddCoreKeeps, GrowCoreKeeps
  <2>10. ASSUME NEW t \in Times, NEW id \in HeapIds, NEW p \in Pointers, NEW s \in Sizes,
                PAllocate(t, id, p, s) \/ PAllocateOutside(t, id, p, s)
         PROVE  TracedInvariant'
    BY <1>2, <2>2, <2>10, AllocateKeeps, AllocateOutsideKeeps
  <2> QED
    <3>1. \A t \in Times, id \in Busy : NextOfBusy(t, id) => TracedInvariant'
      BY <2>6, <2>7, <2>8, <2>9, <2>10, ProgramAssumption DEF NextOfBusy
    <3>2. NextButGrowth => TracedInvariant'
      BY <2>4, <2>5, <2>6, <3>1 DEF NextButGrowth
    <3>3. TNext => TracedInvariant'
      BY <2>9, <3>2, ProgramAssumption DEF TNext
    <3> QED
      BY <1>2, <2>3, <3>3
<1> QED
  BY <1>1, <1>2

\* The tool handles one event, as MemoryState.tla has it.
LEMMA TracedStepIsStep ==
  ASSUME TracedInvariant, [TNext]_tracedVars
  PROVE  [Next]_vars
<1> DEFINE HeapEvent(t, id) ==
             \/ HeapCreate(t, id)
             \/ HeapDestroy(t, id)
             \/ FreeAll(t, id)
             \/ \E other \in HeapIds : SetBackingAllocator(t, id, other)
             \/ \E p \in Pointers :
                  \/ RemoveCore(t, id, p)
                  \/ \E owned \in BOOLEAN : Free(t, id, p, owned)
                  \/ \E size \in Sizes :
                       \/ AddCore(t, id, p, size)
                       \/ GrowCore(t, id, p, size)
                       \/ \E owned \in BOOLEAN : Allocate(t, id, p, size, owned)
<1>1. ASSUME NEW t \in Times, t >= last_update, NEW id \in HeapIds, HeapEvent(t, id)
      PROVE  Next
  BY <1>1 DEF Next
<1>2. ASSUME NEW t \in Times, t >= last_update, POther(t)
      PROVE  Next
  BY <1>2 DEF POther, Next
<1>3. ASSUME NEW id \in HeapIds, UserLooks(id)
      PROVE  Next
  BY <1>3 DEF UserLooks, Next
<1>4. ASSUME NEW t \in Times, NEW id \in HeapIds, NEW p \in Pointers, PFree(t, id, p)
      PROVE  \E owned \in BOOLEAN : Free(t, id, p, owned)
  <2>1. id \in DOMAIN truth /\ p \in DOMAIN truth[id].live
    BY <1>4 DEF PFree, Usable, InUse
  <2>2. truth[id].live \in Maps(Pointers, Blocks)
    BY <2>1, PairOf, TruthFields
  <2>3. truth[id].live[p] \in Blocks
    BY <2>1, <2>2, MapIs
  <2>4. truth[id].live[p].owned \in BOOLEAN
    BY <2>3 DEF Blocks
  <2>5. Free(t, id, p, truth[id].live[p].owned)
    BY <1>4 DEF PFree
  <2> QED
    BY <2>4, <2>5
<1>5. ASSUME NEW t \in Times, NEW id \in HeapIds,
             \/ PHeapCreate(t, id) \/ PHeapDestroy(t, id) \/ PFreeAll(t, id)
             \/ \E other \in HeapIds : PSetBackingAllocator(t, id, other)
      PROVE  HeapEvent(t, id)
  BY <1>5 DEF PHeapCreate, PHeapDestroy, PFreeAll, PSetBackingAllocator
<1>6. ASSUME NEW t \in Times, NEW id \in HeapIds, NEW p \in Pointers,
             PRemoveCore(t, id, p) \/ PFree(t, id, p)
      PROVE  HeapEvent(t, id)
  BY <1>4, <1>6 DEF PRemoveCore
<1>7. ASSUME NEW t \in Times, NEW id \in HeapIds, NEW p \in Pointers, NEW s \in Sizes,
             \/ PAddCore(t, id, p, s) \/ PGrowCore(t, id, p, s)
             \/ PAllocate(t, id, p, s) \/ PAllocateOutside(t, id, p, s)
      PROVE  HeapEvent(t, id)
  <2>1. AddCore(t, id, p, s) \/ GrowCore(t, id, p, s) \/ \E owned \in BOOLEAN : Allocate(t, id, p, s, owned)
    BY <1>7 DEF PAddCore, PGrowCore, PAllocate, PAllocateOutside
  <2> QED
    BY <2>1
<1> HIDE DEF HeapEvent
<1>8. \A t \in Times, id \in Busy : NextOfBusy(t, id) => HeapEvent(t, id) /\ id \in HeapIds
  BY <1>5, <1>6, <1>7, ProgramAssumption DEF NextOfBusy
<1>9. NextButGrowth => Next
  BY <1>1, <1>2, <1>3, <1>5, <1>8 DEF NextButGrowth, NextOfHeap
<1>10. TNext => Next
  BY <1>1, <1>7, <1>9, ProgramAssumption DEF TNext
<1> QED
  BY <1>10 DEF tracedVars

LEMMA TracedAlways == TSpec => []TracedInvariant /\ []HeapsInvariant
<1>1. TSpec => []TracedInvariant
  BY PairsKept, PTL DEF TSpec
<1>2. TracedInvariant /\ [TNext]_tracedVars => [Next]_vars
  BY TracedStepIsStep
<1>3. TInit => Init
  BY DEF TInit
<1> QED
  BY <1>1, <1>2, <1>3, HeapsInvariantKept, PTL DEF TSpec

-----------------------------------------------------------------------------
(***************************************************************************)
(* What the tool shows is what the program did.                            *)
(***************************************************************************)
(***************************************************************************)
(* The used memory of a heap is the size of what is allocated and not      *)
(* freed, until the program frees all of it: addAllocation and             *)
(* removeAllocation of heap.cc, whatever cores an allocation lies in.      *)
(***************************************************************************)
THEOREM UsedStaysLive == TSpec => []UsedIsLive
<1>1. TracedInvariant => UsedIsLive
  <2> SUFFICES ASSUME TracedInvariant, NEW id \in DOMAIN truth, ~truth[id].closing
               PROVE  heaps[id].used = LiveTotal(id)
    BY DEF UsedIsLive
  <2>1. Paired(heaps[id], truth[id])
    BY PairOf
  <2> QED
    BY <2>1 DEF Paired, Records, LiveTotal, SizesOf
<1> QED
  BY <1>1, TracedAlways, PTL

(***************************************************************************)
(* Heaps, cores, their ends and managed memory are the program's: addCore, *)
(* growCore and removeCore of heap.cc, for dead heaps and after            *)
(* HeapFreeAll too.                                                        *)
(***************************************************************************)
THEOREM CoresStayKnown == TSpec => []CoresAreKnown
<1>1. TracedInvariant => CoresAreKnown
  <2> SUFFICES ASSUME TracedInvariant
               PROVE  CoresAreKnown
    OBVIOUS
  <2>1. DOMAIN heaps = DOMAIN truth
    BY DEF TracedInvariant
  <2>2. \A id \in DOMAIN truth : Follows(heaps[id], truth[id])
    BY PairOf DEF Paired
  <2> QED
    BY <2>1, <2>2 DEF CoresAreKnown, Follows
<1> QED
  BY <1>1, TracedAlways, PTL

(***************************************************************************)
(* Every live allocation is recorded, with its size, where a free          *)
(* looks for it: alloc_to_core and the allocations of heap.cc and core.cc, *)
(* also for allocations over two cores and at borders cores share.         *)
(***************************************************************************)
THEOREM LiveStaysRecorded == TSpec => []LiveIsRecorded
<1>1. TracedInvariant => LiveIsRecorded
  <2> SUFFICES ASSUME TracedInvariant, NEW id \in DOMAIN truth, ~truth[id].closing
               PROVE  LET heap  == heaps[id]
                          owned == {p \in DOMAIN truth[id].live : truth[id].live[p].owned}
                      IN  /\ \A p \in DOMAIN truth[id].live \ owned :
                               /\ p \in DOMAIN heap.allocations
                               /\ heap.allocations[p] = truth[id].live[p].size
                          /\ DOMAIN heap.alloc_to_core = owned
                          /\ \A p \in owned :
                               /\ InMappedCore(heap, p)
                               /\ LET b == heap.alloc_to_core[p]
                                  IN  /\ b <= p /\ p < heap.cores[b].end
                                      /\ p \in DOMAIN heap.cores[b].allocations
                          /\ \A b \in DOMAIN heap.cores :
                               /\ \A p \in DOMAIN heap.cores[b].allocations :
                                    /\ p \in owned
                                    /\ heap.cores[b].allocations[p] = truth[id].live[p].size
                               /\ heap.cores[b].used = Total(heap.cores[b].allocations)
    BY DEF LiveIsRecorded
  <2> DEFINE h == heaps[id]
             w == truth[id]
  <2>1. Paired(h, w)
    BY PairOf
  <2>2. Records(h, w) /\ DOMAIN h.cores = DOMAIN w.cores
    BY <2>1 DEF Paired, Follows
  <2>3. Owned(w) = {p \in DOMAIN truth[id].live : truth[id].live[p].owned}
    BY DEF Owned
  <2>5. \A b \in DOMAIN h.cores : CoreRecords(h.cores[b], b, h.alloc_to_core, w)
    BY <2>2 DEF Records
  <2>4. ASSUME NEW p \in Owned(w), NEW b, b = h.alloc_to_core[p]
        PROVE  /\ InMappedCore(h, p) /\ b <= p /\ p < h.cores[b].end
               /\ p \in DOMAIN h.cores[b].allocations
    <3>1. b \in DOMAIN w.cores /\ b <= p /\ p < b + w.cores[b]
      BY <2>2, <2>4 DEF Records, Places
    <3>2. h.cores[b].end = b + w.cores[b] /\ b \in DOMAIN h.cores
      BY <2>1, <3>1 DEF Paired, Follows
    <3>3. InMappedCore(h, p)
      BY <2>2, <2>4, <3>2 DEF Records, Places, InMappedCore
    <3>4. p \in DOMAIN h.cores[b].allocations
      BY <2>4, <2>5, <3>2 DEF CoreRecords
    <3> QED
      BY <3>1, <3>2, <3>3, <3>4
  <2>6. /\ \A p \in DOMAIN w.live \ Owned(w) :
             p \in DOMAIN h.allocations /\ h.allocations[p] = w.live[p].size
        /\ DOMAIN h.alloc_to_core = Owned(w)
    BY <2>2 DEF Records, Places
  <2> QED
    BY <2>3, <2>4, <2>5, <2>6 DEF CoreRecords
<1> QED
  BY <1>1, TracedAlways, PTL

(***************************************************************************)
(* The maxima cover the present values, whatever the constructor of Heap   *)
(* left in them.                                                           *)
(***************************************************************************)
THEOREM PeaksStayAbove == TSpec => []PeaksCover
<1>1. TracedInvariant => PeaksCover
  <2> SUFFICES ASSUME TracedInvariant, NEW id \in DOMAIN heaps
               PROVE  /\ heaps[id].max_used >= heaps[id].used
                      /\ heaps[id].max_managed >= heaps[id].managed
    BY DEF PeaksCover
  <2>1. Paired(heaps[id], truth[id])
    BY DEF TracedInvariant
  <2> QED
    BY <2>1 DEF Paired, Follows
<1> QED
  BY <1>1, TracedAlways, PTL

(***************************************************************************)
(* No event of such a program and no look of the user makes the tool read  *)
(* a heap that is not there: addEvent's case of SetBackingAllocator and    *)
(* getHeapInformation, which do not test what getHeap found.               *)
(***************************************************************************)
THEOREM NoneStaysUnknown == TSpec => []NoUnknownHeap
<1>1. TracedInvariant => NoUnknownHeap
  BY DEF TracedInvariant, NoUnknownHeap
<1> QED
  BY <1>1, TracedAlways, PTL

(***************************************************************************)
(* The curve of a heap of such a program ends at its used memory.          *)
(***************************************************************************)
THEOREM TracedCurveStaysCurrent == TSpec => []CurveIsCurrent
BY InvariantCurve, TracedAlways, PTL

=============================================================================
