------------------------- MODULE BlockAllocatorProofs -------------------------
(***************************************************************************)
(* Proofs about BlockAllocator.tla for any allocators, block sizes and     *)
(* counts: the free list stays whole, the demo uses the event functions as *)
(* TracedHeaps.tla asks of a program, and what TracedHeapsProofs.tla       *)
(* proves of such a program then says what the tool shows of the demo.     *)
(***************************************************************************)
EXTENDS BlockAllocator, MemoryStateProofs

-----------------------------------------------------------------------------
(***************************************************************************)
(* What Report sends of one event, or of two.                              *)
(***************************************************************************)
LEMMA SentIs ==
  ASSUME NEW S, NEW tr \in Seq(S), NEW e \in S, NEW f \in S
  PROVE  /\ Len(<<e>>) = 1 /\ Len(<<e, f>>) = 2
         /\ tr \o SubSeq(<<e>>, 1, 0) = tr /\ tr \o SubSeq(<<e>>, 1, 1) = Append(tr, e)
         /\ tr \o SubSeq(<<e, f>>, 1, 0) = tr /\ tr \o SubSeq(<<e, f>>, 1, 1) = Append(tr, e)
         /\ tr \o SubSeq(<<e, f>>, 1, 2) = Append(Append(tr, e), f)
<1>1. <<e>> \in Seq(S) /\ <<f>> \in Seq(S) /\ <<e, f>> \in Seq(S)
  OBVIOUS
<1>2. Len(<<e>>) = 1 /\ Len(<<e, f>>) = 2
  OBVIOUS
<1>3. SubSeq(<<e>>, 1, 0) = <<>> /\ SubSeq(<<e, f>>, 1, 0) = <<>>
  <2>1. 1 \in Int /\ 0 \in Int /\ 1 > 0
    OBVIOUS
  <2> QED
    BY <1>1, <2>1, SubSeqEmpty
<1>4. SubSeq(<<e>>, 1, 1) = <<e>> /\ SubSeq(<<e, f>>, 1, 2) = <<e, f>>
  BY <1>1, <1>2, SubSeqFull
<1>5. SubSeq(<<e, f>>, 1, 1) = <<e>>
  <2> DEFINE both == <<e, f>>
             one == SubSeq(both, 1, 1)
  <2>1. 1 \in Int /\ both[1] = e
    OBVIOUS
  <2>2. \A i \in 1 .. 1 : both[i] \in S
    BY <2>1
  <2> HIDE DEF both
  <2>3. /\ one \in Seq(S)
        /\ Len(one) = IF 1 <= 1 THEN 1 - 1 + 1 ELSE 0
        /\ \A i \in 1 .. 1 - 1 + 1 : one[i] = both[1 + i - 1]
    BY <2>1, <2>2, SubSeqProperties
  <2> HIDE DEF one
  <2>4. Len(one) = 1
    BY <2>3
  <2>5. one[1] = both[1]
    <3>1. 1 \in 1 .. 1 - 1 + 1 /\ 1 + 1 - 1 = 1
      OBVIOUS
    <3> QED
      BY <2>3, <3>1
  <2>6. Len(<<e>>) = 1 /\ <<e>>[1] = e
    OBVIOUS
  <2>7. Len(one) = Len(<<e>>) /\ \A i \in 1 .. Len(one) : one[i] = <<e>>[i]
    BY <2>1, <2>4, <2>5, <2>6
  <2>8. one = <<e>>
    BY <1>1, <2>3, <2>7, SeqEqual
  <2> QED
    BY <2>8 DEF one, both
<1>6. tr \o <<>> = tr
  BY ConcatEmptySeq
<1>7. tr \o <<e>> = Append(tr, e)
  BY AppendIsConcat
<1>8. tr \o <<e, f>> = Append(Append(tr, e), f)
  <2>1. <<e>> \o <<f>> = <<e, f>>
    <3> DEFINE one == <<e>>
               both == <<e, f>>
               more == Append(one, f)
    <3>1. one \in Seq(S) /\ Len(one) = 1 /\ one[1] = e
      OBVIOUS
    <3>2. both \in Seq(S) /\ Len(both) = 2 /\ both[1] = e /\ both[2] = f
      OBVIOUS
    <3> HIDE DEF one, both
    <3>3. more \in Seq(S) /\ Len(more) = 2 /\ more[1] = one[1] /\ more[2] = f
      <4>1. /\ more \in Seq(S) /\ Len(more) = Len(one) + 1
            /\ \A i \in 1 .. Len(one) : more[i] = one[i]
            /\ more[Len(one) + 1] = f
        BY <3>1, AppendProperties
      <4>2. 1 \in 1 .. 1 /\ 1 + 1 = 2
        OBVIOUS
      <4> QED
        BY <3>1, <4>1, <4>2
    <3> HIDE DEF more
    <3>4. \A i \in 1 .. Len(more) : more[i] = both[i]
      <4>1. \A i \in 1 .. 2 : i = 1 \/ i = 2
        OBVIOUS
      <4> QED
        BY <3>1, <3>2, <3>3, <4>1
    <3>5. more = both
      BY <3>2, <3>3, <3>4, SeqEqual
    <3>6. more = one \o <<f>>
      BY <3>1, AppendIsConcat DEF more
    <3> QED
      BY <3>5, <3>6 DEF one, both
  <2>2. (tr \o <<e>>) \o <<f>> = tr \o (<<e>> \o <<f>>)
    BY <1>1, ConcatAssociative
  <2>3. Append(tr, e) \in Seq(S)
    OBVIOUS
  <2>4. Append(tr, e) \o <<f>> = Append(Append(tr, e), f)
    BY <2>3, AppendIsConcat
  <2> QED
    BY <1>7, <2>1, <2>2, <2>4
<1> QED
  BY <1>2, <1>3, <1>4, <1>5, <1>6, <1>7, <1>8

USE ConstantsAssumption, BlockAssumption

-----------------------------------------------------------------------------
(***************************************************************************)
(* The blocks of a range.                                                  *)
(***************************************************************************)
HeadersAt(a, range) == {GetHeader(a, range, i) : i \in 0 .. (ElemCount[a] - 1)}

LEMMA BlockNumbers ==
  ASSUME NEW a \in Names
  PROVE  /\ ElemSize[a] \in Nat /\ ElemSize[a] >= 1 /\ ElemSize[a] \in Sizes
         /\ ElemCount[a] \in Nat /\ ElemCount[a] >= 1 /\ 0 .. (ElemCount[a] - 1) \subseteq Nat
         /\ MemSize(a) \in Nat /\ MemSize(a) \in Sizes
         /\ MemSize(a) = ElemCount[a] * ElemSize[a]
<1>1. /\ {ElemSize[a], ElemCount[a]} \subseteq Nat \ {0}
      /\ {ElemSize[a], ElemSize[a] * ElemCount[a]} \subseteq Sizes
  BY DEF Names
<1>2. ElemSize[a] \in Nat \ {0} /\ ElemCount[a] \in Nat \ {0} /\ ElemSize[a] \in Sizes
  BY <1>1
<1>3. MemSize(a) \in Sizes
  BY <1>1 DEF MemSize
<1>4. MemSize(a) \in Nat /\ MemSize(a) = ElemCount[a] * ElemSize[a]
  BY <1>2 DEF MemSize
<1> QED
  BY <1>2, <1>3, <1>4

\* A quotient, from the multiple it is of.
LEMMA Divided ==
  ASSUME NEW i \in Nat, NEW e \in Nat, e >= 1
  PROVE  (i * e) \div e = i
OBVIOUS

LEMMA HeaderNumbers ==
  ASSUME NEW a \in Names, NEW range \in Nat
  PROVE  /\ \A i \in Nat : GetHeader(a, range, i) \in Nat /\ range <= GetHeader(a, range, i)
         /\ \A i \in Nat, j \in Nat :
              i < j => GetHeader(a, range, i) + ElemSize[a] <= GetHeader(a, range, j)
         /\ \A i \in Nat, j \in Nat :
              GetHeader(a, range, i) = GetHeader(a, range, j) => i = j
         /\ \A i \in Nat : (GetHeader(a, range, i) - range) \div ElemSize[a] = i
         /\ GetHeader(a, range, 0) = range
         /\ GetHeader(a, range, ElemCount[a]) = range + MemSize(a)
<1> DEFINE e == ElemSize[a]
           H(i) == GetHeader(a, range, i)
<1>1. e \in Nat /\ e >= 1 /\ ElemCount[a] \in Nat /\ MemSize(a) = ElemCount[a] * e
  BY BlockNumbers
<1>2. \A i : H(i) = range + i * e
  BY DEF GetHeader
<1> HIDE DEF e, H
<1>3. \A i \in Nat : i * e \in Nat
  BY <1>1
<1>4. \A i \in Nat : H(i) \in Nat /\ range <= H(i)
  BY <1>2, <1>3
<1>5. \A i \in Nat, j \in Nat : i < j => H(i) + e <= H(j)
  <2>1. \A i \in Nat, j \in Nat : i < j => i * e + e <= j * e
    BY <1>1, TimesGrow
  <2> QED
    BY <1>1, <1>2, <1>3, <2>1
<1>6. \A i \in Nat, j \in Nat : H(i) = H(j) => i = j
  <2> SUFFICES ASSUME NEW i \in Nat, NEW j \in Nat, i < j
               PROVE  H(i) < H(j)
    BY <1>4
  <2> QED
    BY <1>1, <1>4, <1>5
<1>7. \A i \in Nat : (H(i) - range) \div e = i
  <2> SUFFICES ASSUME NEW i \in Nat
               PROVE  (H(i) - range) \div e = i
    OBVIOUS
  <2>1. H(i) - range = i * e
    BY <1>2, <1>3
  <2> QED
    BY <1>1, <2>1, Divided
<1>8. H(0) = range
  <2>1. 0 * e = 0
    BY <1>1
  <2> QED
    BY <1>2, <2>1
<1>9. H(ElemCount[a]) = range + MemSize(a)
  BY <1>1, <1>2
<1> QED
  BY <1>4, <1>5, <1>6, <1>7, <1>8, <1>9 DEF e, H

-----------------------------------------------------------------------------
(***************************************************************************)
(* The list of free blocks: block s[i] is the i-th from m_FreeList, each   *)
(* linked to the next and the last to nullptr.                             *)
(***************************************************************************)
Ends(s, n, first) == s[0] = first /\ s[n] = nullptr

Links(s, n, next) == \A i \in 0 .. (n - 1) : next[s[i]] = s[i + 1]

Enumerates(s, n, free) ==
  /\ \A i \in 0 .. (n - 1) : s[i] \in free
  /\ \A b \in free : \E i \in 0 .. (n - 1) : s[i] = b
  /\ \A i \in 0 .. (n - 1), j \in 0 .. (n - 1) : s[i] = s[j] => i = j

Chained(s, n, r, free) ==
  /\ n \in Nat /\ Ends(s, n, r.free_list) /\ Links(s, n, r.next) /\ Enumerates(s, n, free)

Allocators ==
  [range : Pointers, id : HeapIds \cup {NoHeap}, held : SUBSET Pointers,
   free_list : Pointers \cup {nullptr}, next : Maps(Pointers, Pointers \cup {nullptr})]

\* The allocator a with its members r.
Whole(a, r) ==
  /\ r \in Allocators
  /\ MemRange(a, r.range) \subseteq Pointers
  /\ r.held \subseteq HeadersAt(a, r.range)
  /\ DOMAIN r.next = HeadersAt(a, r.range)
  /\ \E n \in Nat : \E s : Chained(s, n, r, HeadersAt(a, r.range) \ r.held)

LEMMA Headed ==
  ASSUME NEW a \in Names, NEW range \in Nat
  PROVE  /\ \A b \in HeadersAt(a, range) :
              \E i \in 0 .. (ElemCount[a] - 1) : b = GetHeader(a, range, i)
         /\ \A i \in 0 .. (ElemCount[a] - 1) : GetHeader(a, range, i) \in HeadersAt(a, range)
         /\ \A b \in HeadersAt(a, range) : b \in Nat /\ range <= b /\ b # nullptr
         /\ \A b \in HeadersAt(a, range) : b + ElemSize[a] <= range + MemSize(a)
         /\ \A b \in HeadersAt(a, range), d \in HeadersAt(a, range) :
              b < d => b + ElemSize[a] <= d
         /\ HeadersAt(a, range) \subseteq MemRange(a, range)
<1> DEFINE e == ElemSize[a]
           c == ElemCount[a]
           H(i) == GetHeader(a, range, i)
           top == range + MemSize(a)
<1>1. /\ e \in Nat /\ e >= 1 /\ c \in Nat /\ c >= 1 /\ MemSize(a) \in Nat
  BY BlockNumbers
<1>2. /\ \A i \in Nat : H(i) \in Nat /\ range <= H(i)
      /\ \A i \in Nat, j \in Nat : i < j => H(i) + e <= H(j)
      /\ H(c) = top
  BY HeaderNumbers
<1>3. \A b \in HeadersAt(a, range) : \E i \in 0 .. (c - 1) : b = H(i)
  BY DEF HeadersAt
<1>4. \A i \in 0 .. (c - 1) : H(i) \in HeadersAt(a, range)
  BY DEF HeadersAt
<1> HIDE DEF e, c, H, top
<1>5. \A b \in HeadersAt(a, range) : b \in Nat /\ range <= b /\ b + e <= top
  <2>1. \A i \in 0 .. (c - 1) : i \in Nat /\ c \in Nat /\ i < c
    BY <1>1
  <2>2. \A i \in 0 .. (c - 1) : H(i) \in Nat /\ range <= H(i) /\ H(i) + e <= top
    BY <1>2, <2>1
  <2> QED
    BY <1>3, <2>2
<1>6. \A b \in HeadersAt(a, range), d \in HeadersAt(a, range) : b < d => b + e <= d
  <2> SUFFICES ASSUME NEW b \in HeadersAt(a, range), NEW d \in HeadersAt(a, range), b < d
               PROVE  b + e <= d
    OBVIOUS
  <2>1. PICK i \in 0 .. (c - 1) : b = H(i)
    BY <1>3
  <2>2. PICK j \in 0 .. (c - 1) : d = H(j)
    BY <1>3
  <2>3. i \in Nat /\ j \in Nat
    BY <1>1
  <2>4. i < j
    <3>1. j < i => d + e <= b
      BY <1>2, <2>1, <2>2, <2>3
    <3>2. b \in Nat /\ d \in Nat /\ i # j
      BY <1>5, <2>1, <2>2
    <3> QED
      BY <1>1, <2>3, <3>1, <3>2
  <2> QED
    BY <1>2, <2>1, <2>2, <2>3, <2>4
<1>7. \A b \in HeadersAt(a, range) : b \in range .. (top - 1) /\ b # nullptr
  BY <1>1, <1>5 DEF top, nullptr
<1>8. HeadersAt(a, range) \subseteq MemRange(a, range)
  <2>1. MemRange(a, range) = range .. (top - 1)
    BY <1>1 DEF MemRange, top
  <2> QED
    BY <1>7, <2>1
<1>9. \A b \in HeadersAt(a, range) : \E i \in 0 .. (ElemCount[a] - 1) : b = GetHeader(a, range, i)
  BY <1>3 DEF c, H
<1>10. \A i \in 0 .. (ElemCount[a] - 1) : GetHeader(a, range, i) \in HeadersAt(a, range)
  BY <1>4 DEF c, H
<1>11. \A b \in HeadersAt(a, range) : b \in Nat /\ range <= b /\ b + ElemSize[a] <= range + MemSize(a)
  BY <1>5 DEF e, top
<1>12. \A b \in HeadersAt(a, range), d \in HeadersAt(a, range) : b < d => b + ElemSize[a] <= d
  BY <1>6 DEF e
<1> QED
  BY <1>7, <1>8, <1>9, <1>10, <1>11, <1>12

\* Taking the first block: the list is the rest.
LEMMA ChainTakes ==
  ASSUME NEW s, NEW n \in Nat, NEW r, NEW free, Chained(s, n, r, free), nullptr \notin free,
         r.free_list # nullptr,
         NEW q, q.free_list = r.next[r.free_list], q.next = r.next
  PROVE  /\ r.free_list \in free
         /\ \E m \in Nat : \E u : Chained(u, m, q, free \ {r.free_list})
<1>1. s[0] = r.free_list /\ s[n] = nullptr
  BY DEF Chained, Ends
<1>2. n # 0
  BY <1>1
<1>3. n - 1 \in Nat /\ 0 \in 0 .. (n - 1)
  BY <1>2
<1>4. /\ \A i \in 0 .. (n - 1) : s[i] \in free
      /\ \A b \in free : \E i \in 0 .. (n - 1) : s[i] = b
      /\ \A i \in 0 .. (n - 1), j \in 0 .. (n - 1) : s[i] = s[j] => i = j
  BY DEF Chained, Enumerates
<1>5. \A i \in 0 .. (n - 1) : r.next[s[i]] = s[i + 1]
  BY DEF Chained, Links
<1> DEFINE m == n - 1
           u == [i \in 0 .. m |-> s[i + 1]]
<1>6. \A i \in 0 .. m : u[i] = s[i + 1]
  OBVIOUS
<1>7. m \in Nat /\ n = m + 1
  BY <1>3
<1> HIDE DEF m, u
<1>8. Ends(u, m, q.free_list)
  <2>1. 0 \in 0 .. m /\ m \in 0 .. m
    BY <1>7
  <2>2. u[0] = s[1] /\ u[m] = s[n]
    BY <1>6, <1>7, <2>1
  <2>3. r.next[s[0]] = s[1]
    BY <1>3, <1>5
  <2> QED
    BY <1>1, <2>2, <2>3 DEF Ends
<1>9. Links(u, m, q.next)
  <2> SUFFICES ASSUME NEW i \in 0 .. (m - 1)
               PROVE  q.next[u[i]] = u[i + 1]
    BY DEF Links
  <2>1. i \in 0 .. m /\ i + 1 \in 0 .. m /\ i + 1 \in 0 .. (n - 1)
    BY <1>7
  <2> QED
    BY <1>5, <1>6, <2>1
<1>10. Enumerates(u, m, free \ {r.free_list})
  <2>1. \A i \in 0 .. (m - 1) : i \in 0 .. m /\ i + 1 \in 0 .. (n - 1) /\ i + 1 # 0
    BY <1>7
  <2>2. \A i \in 0 .. (m - 1) : u[i] \in free \ {r.free_list}
    BY <1>1, <1>3, <1>4, <1>6, <2>1
  <2>3. ASSUME NEW b \in free \ {r.free_list}
        PROVE  \E i \in 0 .. (m - 1) : u[i] = b
    <3>1. PICK j \in 0 .. (n - 1) : s[j] = b
      BY <1>4
    <3>2. j # 0
      BY <1>1, <3>1
    <3>3. j - 1 \in 0 .. (m - 1) /\ j - 1 \in 0 .. m /\ (j - 1) + 1 = j
      BY <1>7, <3>2
    <3>4. u[j - 1] = b
      BY <1>6, <3>1, <3>3
    <3> QED
      BY <3>3, <3>4
  <2>4. ASSUME NEW i \in 0 .. (m - 1), NEW j \in 0 .. (m - 1), u[i] = u[j]
        PROVE  i = j
    <3>1. s[i + 1] = s[j + 1]
      BY <1>6, <2>1, <2>4
    <3>2. i + 1 = j + 1
      BY <1>4, <2>1, <3>1
    <3> QED
      BY <1>7, <3>2
  <2> QED
    BY <2>2, <2>3, <2>4 DEF Enumerates
<1>11. Chained(u, m, q, free \ {r.free_list})
  BY <1>7, <1>8, <1>9, <1>10 DEF Chained
<1>12. r.free_list \in free
  BY <1>1, <1>3, <1>4
<1> QED
  BY <1>7, <1>11, <1>12

\* Giving a block back: it is the first of the list.
Prepends(q, r, ptr, free) ==
  /\ ptr \notin free /\ q.free_list = ptr /\ q.next[ptr] = r.free_list
  /\ \A b \in free : q.next[b] = r.next[b]

LEMMA ChainGives ==
  ASSUME NEW s, NEW n \in Nat, NEW r, NEW free, Chained(s, n, r, free),
         NEW ptr, NEW q, Prepends(q, r, ptr, free)
  PROVE  \E m \in Nat : \E u : Chained(u, m, q, free \cup {ptr})
<1>0. /\ ptr \notin free /\ q.free_list = ptr /\ q.next[ptr] = r.free_list
      /\ \A b \in free : q.next[b] = r.next[b]
  BY DEF Prepends
<1>1. s[0] = r.free_list /\ s[n] = nullptr
  BY DEF Chained, Ends
<1>2. /\ \A i \in 0 .. (n - 1) : s[i] \in free
      /\ \A b \in free : \E i \in 0 .. (n - 1) : s[i] = b
      /\ \A i \in 0 .. (n - 1), j \in 0 .. (n - 1) : s[i] = s[j] => i = j
  BY DEF Chained, Enumerates
<1>3. \A i \in 0 .. (n - 1) : r.next[s[i]] = s[i + 1]
  BY DEF Chained, Links
<1> DEFINE m == n + 1
           u == [i \in 0 .. m |-> IF i = 0 THEN ptr ELSE s[i - 1]]
<1>4. m \in Nat /\ n = m - 1
  OBVIOUS
<1>5. u[0] = ptr /\ \A i \in 1 .. m : u[i] = s[i - 1]
  <2>1. 0 \in 0 .. m /\ \A i \in 1 .. m : i \in 0 .. m /\ i # 0
    BY <1>4
  <2> QED
    BY <2>1
<1> HIDE DEF m, u
<1>6. Ends(u, m, q.free_list)
  <2>1. m \in 1 .. m
    BY <1>4
  <2>2. u[m] = nullptr
    BY <1>1, <1>4, <1>5, <2>1
  <2> QED
    BY <1>0, <1>5, <2>2 DEF Ends
<1>7. Links(u, m, q.next)
  <2> SUFFICES ASSUME NEW i \in 0 .. (m - 1)
               PROVE  q.next[u[i]] = u[i + 1]
    BY DEF Links
  <2>1. i + 1 \in 1 .. m /\ (i + 1) - 1 = i
    BY <1>4
  <2>2. u[i + 1] = s[i]
    BY <1>5, <2>1
  <2>3. CASE i = 0
    BY <1>0, <1>1, <1>5, <2>2, <2>3
  <2>4. CASE i # 0
    <3>1. i \in 1 .. m /\ i - 1 \in 0 .. (n - 1) /\ (i - 1) + 1 = i
      BY <1>4, <2>4
    <3>2. u[i] = s[i - 1] /\ s[i - 1] \in free
      BY <1>2, <1>5, <3>1
    <3>3. r.next[s[i - 1]] = s[i]
      BY <1>3, <3>1
    <3> QED
      BY <1>0, <2>2, <3>2, <3>3
  <2> QED
    BY <2>3, <2>4
<1>8. Enumerates(u, m, free \cup {ptr})
  <2>1. \A i \in 0 .. (m - 1) : i = 0 \/ (i \in 1 .. m /\ i - 1 \in 0 .. (n - 1))
    BY <1>4
  <2>2. \A i \in 0 .. (m - 1) : u[i] \in free \cup {ptr}
    BY <1>2, <1>5, <2>1
  <2>3. ASSUME NEW b \in free \cup {ptr}
        PROVE  \E i \in 0 .. (m - 1) : u[i] = b
    <3>1. CASE b = ptr
      <4>1. 0 \in 0 .. (m - 1)
        BY <1>4
      <4> QED
        BY <1>5, <3>1, <4>1
    <3>2. CASE b \in free
      <4>1. PICK j \in 0 .. (n - 1) : s[j] = b
        BY <1>2, <3>2
      <4>2. j + 1 \in 0 .. (m - 1) /\ j + 1 \in 1 .. m /\ (j + 1) - 1 = j
        BY <1>4
      <4>3. u[j + 1] = b
        BY <1>5, <4>1, <4>2
      <4> QED
        BY <4>2, <4>3
    <3> QED
      BY <3>1, <3>2
  <2>4. ASSUME NEW i \in 0 .. (m - 1), NEW j \in 0 .. (m - 1), u[i] = u[j]
        PROVE  i = j
    <3>1. CASE i = 0 \/ j = 0
      BY <1>0, <1>2, <1>5, <2>1, <2>4, <3>1
    <3>2. CASE i # 0 /\ j # 0
      <4>1. s[i - 1] = s[j - 1] /\ i - 1 \in 0 .. (n - 1) /\ j - 1 \in 0 .. (n - 1)
        BY <1>5, <2>1, <2>4, <3>2
      <4>2. i - 1 = j - 1
        BY <1>2, <4>1
      <4> QED
        BY <1>4, <4>2
    <3> QED
      BY <3>1, <3>2
  <2> QED
    BY <2>2, <2>3, <2>4 DEF Enumerates
<1>9. Chained(u, m, q, free \cup {ptr})
  BY <1>4, <1>6, <1>7, <1>8 DEF Chained
<1> QED
  BY <1>4, <1>9

-----------------------------------------------------------------------------
(***************************************************************************)
(* What the operations make of an allocator.                               *)
(***************************************************************************)
HeaderOf(a, range) ==
  [i \in 0 .. ElemCount[a] |-> IF i = ElemCount[a] THEN nullptr ELSE GetHeader(a, range, i)]

LinkedFrom(a, range, header) ==
  [h \in {header[i] : i \in 0 .. (ElemCount[a] - 1)} |-> header[(h - range) \div ElemSize[a] + 1]]

Made(range, id, first, next) ==
  [range |-> range, id |-> id, held |-> {}, free_list |-> first, next |-> next]

Given(r) == [r EXCEPT !.free_list = r.next[r.free_list], !.held = @ \cup {r.free_list}]

GivenBack(r, ptr, next) == [r EXCEPT !.next = next, !.free_list = ptr, !.held = @ \ {ptr}]

LEMMA NullIs == nullptr = -1 /\ nullptr \notin Nat /\ nullptr \notin Pointers
<1>1. nullptr = -1
  BY DEF nullptr
<1> QED
  BY <1>1, ConstantsNatural

LEMMA AllocatorFields ==
  ASSUME NEW r \in Allocators
  PROVE  /\ r.range \in Pointers /\ r.range \in Nat /\ r.id \in HeapIds \cup {NoHeap}
         /\ r.held \subseteq Pointers /\ r.free_list \in Pointers \cup {nullptr}
         /\ r.next \in Maps(Pointers, Pointers \cup {nullptr})
BY ConstantsNatural DEF Allocators

LEMMA MadeWhole ==
  ASSUME NEW a \in Names, NEW range \in Pointers, MemRange(a, range) \subseteq Pointers,
         NEW id \in HeapIds \cup {NoHeap}
  PROVE  Whole(a, Made(range, id, HeaderOf(a, range)[0],
                       LinkedFrom(a, range, HeaderOf(a, range))))
<1> DEFINE header == HeaderOf(a, range)
           c == ElemCount[a]
           e == ElemSize[a]
           H(i) == GetHeader(a, range, i)
           next == LinkedFrom(a, range, header)
           r == Made(range, id, header[0], next)
<1>1. range \in Nat /\ c \in Nat /\ c >= 1
  BY ConstantsNatural, BlockNumbers
<1>2. /\ \A i \in Nat : (H(i) - range) \div e = i
      /\ \A i \in Nat, j \in Nat : H(i) = H(j) => i = j
  BY <1>1, HeaderNumbers
<1>3. /\ \A b \in HeadersAt(a, range) : \E i \in 0 .. (c - 1) : b = H(i)
      /\ \A i \in 0 .. (c - 1) : H(i) \in HeadersAt(a, range)
      /\ HeadersAt(a, range) \subseteq Pointers
  BY <1>1, Headed
<1>4. /\ \A i \in 0 .. (c - 1) : header[i] = H(i)
      /\ header[c] = nullptr
  <2>1. \A i \in 0 .. (c - 1) : i \in 0 .. c /\ i # c
    BY <1>1
  <2>2. c \in 0 .. c
    BY <1>1
  <2> QED
    BY <2>1, <2>2 DEF HeaderOf
<1>5. {header[i] : i \in 0 .. (c - 1)} = HeadersAt(a, range)
  BY <1>3, <1>4
<1>6. DOMAIN next = HeadersAt(a, range)
  BY <1>5 DEF LinkedFrom
<1>7. next = [x \in DOMAIN next |-> next[x]]
  BY DEF LinkedFrom
<1>8. \A i \in 0 .. (c - 1) : next[header[i]] = header[i + 1]
  <2> SUFFICES ASSUME NEW i \in 0 .. (c - 1)
               PROVE  next[header[i]] = header[i + 1]
    OBVIOUS
  <2>1. header[i] \in {header[k] : k \in 0 .. (c - 1)}
    OBVIOUS
  <2>2. next[header[i]] = header[((header[i] - range) \div e) + 1]
    BY <2>1 DEF LinkedFrom
  <2>3. (header[i] - range) \div e = i
    BY <1>1, <1>2, <1>4
  <2> QED
    BY <2>2, <2>3
<1> HIDE DEF header, c, e, H, next
<1>9. \A i \in 0 .. c : header[i] \in Pointers \cup {nullptr}
  <2>1. \A i \in 0 .. c : i = c \/ i \in 0 .. (c - 1)
    BY <1>1
  <2> QED
    BY <1>3, <1>4, <2>1
<1>10. \A i \in 0 .. (c - 1) : i + 1 \in 0 .. c
  BY <1>1
<1>11. next \in Maps(Pointers, Pointers \cup {nullptr})
  <2>1. \A x \in DOMAIN next : next[x] \in Pointers \cup {nullptr}
    BY <1>3, <1>4, <1>6, <1>8, <1>9, <1>10
  <2> QED
    BY <1>3, <1>6, <1>7, <2>1, MapIs
<1>12. /\ r.range = range /\ r.held = {} /\ r.free_list = header[0] /\ r.next = next
       /\ r.id = id
  BY DEF Made
<1>13. r \in Allocators
  <2>1. 0 \in 0 .. c
    BY <1>1
  <2> QED
    BY <1>9, <1>11, <2>1 DEF Made, Allocators
<1>14. Chained(header, c, r, HeadersAt(a, range) \ r.held)
  <2>1. Ends(header, c, r.free_list)
    BY <1>4, <1>12 DEF Ends
  <2>2. Links(header, c, r.next)
    BY <1>8, <1>12 DEF Links
  <2>3. \A i \in 0 .. (c - 1) : i \in Nat
    BY <1>1
  <2>4. Enumerates(header, c, HeadersAt(a, range) \ r.held)
    BY <1>2, <1>3, <1>4, <1>12, <2>3 DEF Enumerates
  <2> QED
    BY <1>1, <2>1, <2>2, <2>4 DEF Chained
<1>15. Whole(a, r)
  BY <1>1, <1>6, <1>12, <1>13, <1>14 DEF Whole
<1> QED
  BY <1>15 DEF header, next

LEMMA GivenWhole ==
  ASSUME NEW a \in Names, NEW r, Whole(a, r), r.free_list # nullptr
  PROVE  /\ Whole(a, Given(r)) /\ r.free_list \in HeadersAt(a, r.range) \ r.held
         /\ Given(r).held = r.held \cup {r.free_list}
         /\ Given(r).range = r.range /\ Given(r).id = r.id
<1> DEFINE q == Given(r)
           heads == HeadersAt(a, r.range)
           free == heads \ r.held
<1>1. r \in Allocators
  BY DEF Whole
<1>2. /\ r.range \in Nat /\ r.free_list \in Pointers \cup {nullptr} /\ r.held \subseteq Pointers
      /\ r.next \in Maps(Pointers, Pointers \cup {nullptr}) /\ r.range \in Pointers
  BY <1>1, AllocatorFields
<1>3. PICK n \in Nat : \E s : Chained(s, n, r, free)
  BY DEF Whole
<1>4. PICK s : Chained(s, n, r, free)
  BY <1>3
<1>5. nullptr \notin free
  BY <1>2, Headed
<1>6. /\ q.range = r.range /\ q.id = r.id /\ q.next = r.next
      /\ q.free_list = r.next[r.free_list] /\ q.held = r.held \cup {r.free_list}
  BY <1>1 DEF Given, Allocators
<1>7. r.free_list \in free /\ \E m \in Nat : \E u : Chained(u, m, q, free \ {r.free_list})
  BY <1>4, <1>5, <1>6, ChainTakes
<1>8. r.next[r.free_list] \in Pointers \cup {nullptr}
  <2>1. DOMAIN r.next = heads
    BY DEF Whole
  <2> QED
    BY <1>2, <1>7, <2>1, MapIs
<1>9. q \in Allocators
  BY <1>1, <1>2, <1>7, <1>8 DEF Given, Allocators
<1>10. free \ {r.free_list} = heads \ q.held
  BY <1>6
<1>11. /\ MemRange(a, q.range) \subseteq Pointers /\ q.held \subseteq HeadersAt(a, q.range)
       /\ DOMAIN q.next = HeadersAt(a, q.range)
  BY <1>6, <1>7 DEF Whole
<1> HIDE DEF q
<1>12. Whole(a, q)
  BY <1>6, <1>7, <1>9, <1>10, <1>11 DEF Whole
<1> QED
  BY <1>6, <1>7, <1>12 DEF q

LEMMA GivenBackWhole ==
  ASSUME NEW a \in Names, NEW r, Whole(a, r), NEW ptr \in r.held,
         NEW next, next = [r.next EXCEPT ![ptr] = r.free_list]
  PROVE  /\ Whole(a, GivenBack(r, ptr, next))
         /\ GivenBack(r, ptr, next).held = r.held \ {ptr}
         /\ GivenBack(r, ptr, next).range = r.range /\ GivenBack(r, ptr, next).id = r.id
<1> DEFINE q == GivenBack(r, ptr, next)
           heads == HeadersAt(a, r.range)
           free == heads \ r.held
<1>1. r \in Allocators /\ r.held \subseteq heads /\ DOMAIN r.next = heads
  BY DEF Whole
<1>2. /\ r.range \in Nat /\ r.free_list \in Pointers \cup {nullptr} /\ r.held \subseteq Pointers
      /\ r.next \in Maps(Pointers, Pointers \cup {nullptr}) /\ r.range \in Pointers
  BY <1>1, AllocatorFields
<1>3. PICK n \in Nat : \E s : Chained(s, n, r, free)
  BY DEF Whole
<1>4. PICK s : Chained(s, n, r, free)
  BY <1>3
<1>5. next = Put(r.next, ptr, r.free_list)
  BY <1>1, <1>2, UpdateIsPut
<1>6. next \in Maps(Pointers, Pointers \cup {nullptr})
  BY <1>2, <1>5, PutMap
<1>7. DOMAIN next = heads /\ next[ptr] = r.free_list /\ \A b \in free : next[b] = r.next[b]
  BY <1>1, <1>5, PutIs
<1>8. /\ q.range = r.range /\ q.id = r.id /\ q.next = next
      /\ q.free_list = ptr /\ q.held = r.held \ {ptr}
  BY <1>1 DEF GivenBack, Allocators
<1>9. q \in Allocators
  BY <1>1, <1>2, <1>6 DEF GivenBack, Allocators
<1> HIDE DEF q
<1>10. \E m \in Nat : \E u : Chained(u, m, q, free \cup {ptr})
  <2>1. Prepends(q, r, ptr, free)
    BY <1>7, <1>8 DEF Prepends
  <2> HIDE DEF free
  <2> QED
    BY <1>4, <2>1, ChainGives
<1>11. free \cup {ptr} = HeadersAt(a, q.range) \ q.held
  BY <1>1, <1>8
<1>12. /\ MemRange(a, q.range) \subseteq Pointers /\ q.held \subseteq HeadersAt(a, q.range)
       /\ DOMAIN q.next = HeadersAt(a, q.range)
  BY <1>7, <1>8 DEF Whole
<1>13. \E m \in Nat : \E u : Chained(u, m, q, HeadersAt(a, q.range) \ q.held)
  BY <1>10, <1>11
<1>14. Whole(a, q)
  BY <1>9, <1>12, <1>13 DEF Whole
<1> QED
  BY <1>8, <1>14 DEF q

-----------------------------------------------------------------------------
(***************************************************************************)
(* The free list stays whole.                                              *)
(***************************************************************************)
AllWhole ==
  /\ allocators \in Maps(Names, Allocators)
  /\ \A a \in DOMAIN allocators : a \in Names /\ Whole(a, allocators[a])

LEMMA ConstructMakes ==
  ASSUME NEW a \in Names, NEW range \in Ranges, Construct(a, range)
  PROVE  LET id == IF active THEN next_heap_id ELSE NoHeap
             r  == Made(range, id, HeaderOf(a, range)[0], LinkedFrom(a, range, HeaderOf(a, range)))
         IN  allocators' = Put(allocators, a, r) /\ Whole(a, r)
<1> DEFINE id == IF active THEN next_heap_id ELSE NoHeap
           r == Made(range, id, HeaderOf(a, range)[0], LinkedFrom(a, range, HeaderOf(a, range)))
<1>1. id \in HeapIds \cup {NoHeap}
  BY DEF Construct
<1>2. range \in Pointers /\ MemRange(a, range) \subseteq Pointers
  BY DEF Construct
<1>3. allocators' = Put(allocators, a, r)
  BY DEF Construct, Made, HeaderOf, LinkedFrom
<1> HIDE DEF id
<1>4. Whole(a, r)
  BY <1>1, <1>2, MadeWhole
<1> QED
  BY <1>3, <1>4 DEF id

LEMMA AllocGives ==
  ASSUME AllWhole, NEW a \in Names, Alloc(a)
  PROVE  LET r == allocators[a]
         IN  /\ a \in DOMAIN allocators /\ Whole(a, r) /\ r.free_list # nullptr
             /\ allocators' = Put(allocators, a, Given(r))
<1> DEFINE r == allocators[a]
<1>1. a \in DOMAIN allocators /\ r.free_list # nullptr
  BY DEF Alloc
<1>2. Whole(a, r) /\ allocators \in Maps(Names, Allocators)
  BY <1>1 DEF AllWhole
<1>3. r \in Allocators
  BY <1>2 DEF Whole
<1>4. allocators' = [allocators EXCEPT ![a] = Given(r)]
  BY <1>1, <1>3 DEF Alloc, Given, Allocators
<1>5. allocators' = Put(allocators, a, Given(r))
  BY <1>1, <1>2, <1>4, UpdateIsPut
<1> QED
  BY <1>1, <1>2, <1>5

LEMMA FreeGivesBack ==
  ASSUME AllWhole, NEW a \in DOMAIN allocators, NEW ptr \in allocators[a].held, FreeBlock(a, ptr)
  PROVE  LET r    == allocators[a]
             next == [r.next EXCEPT ![ptr] = r.free_list]
         IN  Whole(a, r) /\ allocators' = Put(allocators, a, GivenBack(r, ptr, next))
<1> DEFINE r == allocators[a]
           next == [r.next EXCEPT ![ptr] = r.free_list]
<1>1. Whole(a, r) /\ allocators \in Maps(Names, Allocators)
  BY DEF AllWhole
<1>2. r \in Allocators
  BY <1>1 DEF Whole
<1> DEFINE q == GivenBack(r, ptr, next)
<1>3. allocators' = [allocators EXCEPT ![a] = q]
  BY <1>2 DEF FreeBlock, GivenBack, Allocators
<1> HIDE DEF q
<1>4. allocators' = Put(allocators, a, q)
  BY <1>1, <1>3, UpdateIsPut
<1> QED
  BY <1>1, <1>4 DEF q

LEMMA OnePut ==
  ASSUME AllWhole, NEW a \in Names, NEW r, Whole(a, r), allocators' = Put(allocators, a, r)
  PROVE  AllWhole'
<1>1. r \in Allocators
  BY DEF Whole
<1>2. allocators' \in Maps(Names, Allocators)
  BY <1>1, PutMap DEF AllWhole
<1>3. /\ DOMAIN allocators' = DOMAIN allocators \cup {a} /\ allocators'[a] = r
      /\ \A b \in DOMAIN allocators \ {a} : allocators'[b] = allocators[b]
  BY DEF Put
<1>4. \A b \in DOMAIN allocators' : b \in Names /\ Whole(b, allocators'[b])
  BY <1>3 DEF AllWhole
<1> QED
  BY <1>2, <1>4 DEF AllWhole

LEMMA WholeKept ==
  /\ DemoInit => AllWhole
  /\ AllWhole /\ [DemoNext]_demoVars => AllWhole'
<1>1. DemoInit => AllWhole
  BY EmptyIs DEF DemoInit, AllWhole
<1>2. ASSUME AllWhole, [DemoNext]_demoVars
      PROVE  AllWhole'
  <2>1. CASE UNCHANGED allocators
    BY <1>2, <2>1 DEF AllWhole
  <2>2. ASSUME NEW a \in Names, NEW range \in Ranges, Construct(a, range)
        PROVE  AllWhole'
    BY <1>2, <2>2, ConstructMakes, OnePut
  <2>3. ASSUME NEW a \in Names, Destruct(a)
        PROVE  AllWhole'
    <3>1. allocators' = Erase(allocators, a)
      BY <2>3 DEF Destruct
    <3>2. allocators' \in Maps(Names, Allocators)
      BY <1>2, <3>1, EraseMap DEF AllWhole
    <3>3. /\ DOMAIN allocators' = DOMAIN allocators \ {a}
          /\ \A b \in DOMAIN allocators \ {a} : allocators'[b] = allocators[b]
      BY <3>1 DEF Erase, Restrict
    <3>4. \A b \in DOMAIN allocators' : b \in Names /\ Whole(b, allocators'[b])
      <4>1. \A b \in DOMAIN allocators : b \in Names /\ Whole(b, allocators[b])
        BY <1>2 DEF AllWhole
      <4> QED
        BY <3>3, <4>1
    <3> QED
      BY <3>2, <3>4 DEF AllWhole
  <2>4. ASSUME NEW a \in Names, Alloc(a)
        PROVE  AllWhole'
    <3> DEFINE r == allocators[a]
    <3>1. Whole(a, r) /\ r.free_list # nullptr /\ allocators' = Put(allocators, a, Given(r))
      BY <1>2, <2>4, AllocGives
    <3>2. Whole(a, Given(r))
      BY <3>1, GivenWhole
    <3> QED
      BY <1>2, <3>1, <3>2, OnePut
  <2>5. ASSUME NEW a \in DOMAIN allocators, NEW ptr \in allocators[a].held, FreeBlock(a, ptr)
        PROVE  AllWhole'
    <3> DEFINE r == allocators[a]
               next == [r.next EXCEPT ![ptr] = r.free_list]
    <3>1. Whole(a, r) /\ allocators' = Put(allocators, a, GivenBack(r, ptr, next)) /\ a \in Names
      BY <1>2, <2>5, FreeGivesBack DEF AllWhole
    <3>2. Whole(a, GivenBack(r, ptr, next))
      BY <3>1, GivenBackWhole
    <3> QED
      BY <1>2, <3>1, <3>2, OnePut
  <2>6. ASSUME NEW t, Handle(t)
        PROVE  AllWhole'
    BY <2>1, <2>6 DEF Handle
  <2>7. CASE UNCHANGED demoVars
    BY <2>1, <2>7 DEF demoVars
  <2> QED
    BY <1>2, <2>2, <2>3, <2>4, <2>5, <2>6, <2>7 DEF DemoNext
<1> QED
  BY <1>1, <1>2

\* The walk along the list meets its blocks, and then nullptr.
Walked(first, next, c, w) ==
  [i \in 0 .. c |-> IF i = 0 THEN first
                    ELSE IF w[i - 1] = nullptr THEN nullptr ELSE next[w[i - 1]]]

Walk(first, next, c) == CHOOSE w : w = Walked(first, next, c, w)

LEMMA WalkIs ==
  ASSUME NEW s, NEW c \in Nat, NEW n \in 0 .. c, NEW first, NEW next,
         Ends(s, n, first), Links(s, n, next), \A i \in 0 .. (n - 1) : s[i] # nullptr
  PROVE  \A i \in 0 .. n : Walk(first, next, c)[i] = s[i]
<1> DEFINE walk == Walk(first, next, c)
           W(w) == Walked(first, next, c, w)
           u == [i \in 0 .. c |-> IF i < n THEN s[i] ELSE nullptr]
<1>1. s[0] = first /\ s[n] = nullptr
  BY DEF Ends
<1>2. \A i \in 0 .. (n - 1) : next[s[i]] = s[i + 1]
  BY DEF Links
<1>3. \A i \in 0 .. c : u[i] = IF i < n THEN s[i] ELSE nullptr
  OBVIOUS
<1>4. u = [i \in 0 .. c |-> u[i]]
  OBVIOUS
<1> HIDE DEF u
<1>5. u = W(u)
  <2>1. u[0] = first
    <3>1. 0 \in 0 .. c /\ n \in Nat
      OBVIOUS
    <3> QED
      BY <1>1, <1>3, <3>1
  <2>2. ASSUME NEW i \in 0 .. c, i # 0
        PROVE  u[i] = IF u[i - 1] = nullptr THEN nullptr ELSE next[u[i - 1]]
    <3>1. i - 1 \in 0 .. c /\ (i - 1) + 1 = i /\ n \in Nat
      BY <2>2
    <3>2. CASE i - 1 < n
      <4>1. i - 1 \in 0 .. (n - 1)
        BY <2>2, <3>1, <3>2
      <4>2. u[i - 1] = s[i - 1] /\ s[i - 1] # nullptr /\ next[s[i - 1]] = s[i]
        BY <1>2, <1>3, <3>1, <3>2, <4>1
      <4>3. i < n \/ i = n
        BY <3>1, <3>2
      <4>4. u[i] = s[i]
        BY <1>1, <1>3, <4>3
      <4> QED
        BY <4>2, <4>4
    <3>3. CASE ~(i - 1 < n)
      <4>1. ~(i < n)
        BY <3>1, <3>3
      <4> QED
        BY <1>3, <3>1, <3>3, <4>1
    <3> QED
      BY <3>2, <3>3
  <2>3. \A i \in 0 .. c : u[i] = IF i = 0 THEN first
                                 ELSE IF u[i - 1] = nullptr THEN nullptr ELSE next[u[i - 1]]
    BY <2>1, <2>2
  <2> QED
    BY <1>4, <2>3 DEF Walked
<1>6. walk = W(walk)
  <2>1. walk = CHOOSE w : w = W(w)
    BY DEF Walk
  <2> QED
    BY <1>5, <2>1
<1> HIDE DEF walk
<1>7. \A i \in 0 .. c : walk[i] = IF i = 0 THEN first
                                  ELSE IF walk[i - 1] = nullptr THEN nullptr ELSE next[walk[i - 1]]
  BY <1>6 DEF Walked
<1> HIDE DEF W
<1> DEFINE T == {i \in 0 .. n : walk[i] # s[i]}
<1>8. T = {}
  <2> SUFFICES ASSUME T # {}
               PROVE  FALSE
    OBVIOUS
  <2>1. PICK m \in T : \A k \in T : m <= k
    <3>1. T \in SUBSET Nat
      OBVIOUS
    <3> QED
      BY <3>1, LeastNumber
  <2>2. m \in 0 .. n /\ m \in 0 .. c /\ walk[m] # s[m] /\ n \in Nat
    OBVIOUS
  <2>3. m # 0
    BY <1>1, <1>7, <2>2
  <2>4. m - 1 \in 0 .. (n - 1) /\ m - 1 \in 0 .. n /\ (m - 1) + 1 = m /\ ~(m <= m - 1)
    BY <2>2, <2>3
  <2>5. walk[m - 1] = s[m - 1]
    BY <2>1, <2>4
  <2>6. s[m - 1] # nullptr /\ next[s[m - 1]] = s[m]
    BY <1>2, <2>4
  <2>7. walk[m] = s[m]
    BY <1>7, <2>2, <2>3, <2>5, <2>6
  <2> QED
    BY <2>2, <2>7
<1> QED
  BY <1>8 DEF walk

\* Its length is the number of free blocks, and a walk along it meets them all.
LEMMA ChainCounts ==
  ASSUME NEW s, NEW n \in Nat, NEW free, Enumerates(s, n, free)
  PROVE  IsFiniteSet(free) /\ Cardinality(free) = n
<1> DEFINE S == 0 .. (n - 1)
           f == [i \in S |-> s[i]]
<1>1. /\ \A i \in S : s[i] \in free
      /\ \A b \in free : \E i \in S : s[i] = b
      /\ \A i \in S, j \in S : s[i] = s[j] => i = j
  BY DEF Enumerates
<1>2. IsFiniteSet(S) /\ Cardinality(S) = n
  <2>1. 0 \in Int /\ n - 1 \in Int
    OBVIOUS
  <2>2. IsFiniteSet(S) /\ Cardinality(S) = IF 0 > n - 1 THEN 0 ELSE (n - 1) - 0 + 1
    BY <2>1, FS_Interval
  <2> QED
    BY <2>2
<1> HIDE DEF S
<1>3. f \in Surjection(S, free) /\ f \in Injection(S, free)
  BY <1>1 DEF Surjection, Injection, IsInjective
<1>4. /\ IsFiniteSet(free) /\ Cardinality(free) <= Cardinality(S)
      /\ Cardinality(free) = Cardinality(S) <=> f \in Injection(S, free)
  BY <1>2, <1>3, FS_Surjection
<1> QED
  BY <1>2, <1>3, <1>4

LEMMA HeadersCounted ==
  ASSUME NEW a \in Names, NEW range \in Nat
  PROVE  /\ IsFiniteSet(HeadersAt(a, range))
         /\ Cardinality(HeadersAt(a, range)) \in Nat
         /\ Cardinality(HeadersAt(a, range)) <= ElemCount[a]
<1> DEFINE S == 0 .. (ElemCount[a] - 1)
           f == [i \in S |-> GetHeader(a, range, i)]
<1>1. IsFiniteSet(S) /\ Cardinality(S) = ElemCount[a]
  <2>1. ElemCount[a] \in Nat /\ ElemCount[a] >= 1 /\ 0 \in Int /\ ElemCount[a] - 1 \in Int
    BY BlockNumbers
  <2>2. IsFiniteSet(S) /\ Cardinality(S) = IF 0 > ElemCount[a] - 1 THEN 0
                                           ELSE (ElemCount[a] - 1) - 0 + 1
    BY <2>1, FS_Interval
  <2> QED
    BY <2>1, <2>2
<1>2. /\ \A b \in HeadersAt(a, range) : \E i \in S : b = GetHeader(a, range, i)
      /\ \A i \in S : GetHeader(a, range, i) \in HeadersAt(a, range)
  BY Headed
<1> HIDE DEF S
<1>3. f \in Surjection(S, HeadersAt(a, range))
  BY <1>2 DEF Surjection
<1>4. /\ IsFiniteSet(HeadersAt(a, range))
      /\ Cardinality(HeadersAt(a, range)) <= Cardinality(S)
  BY <1>1, <1>3, FS_Surjection
<1>5. Cardinality(HeadersAt(a, range)) \in Nat
  BY <1>4, FS_CardinalityType
<1> QED
  BY <1>1, <1>4, <1>5

(***************************************************************************)
(* The list from m_FreeList has every block that is not held, once, and    *)
(* ends after the last: the constructor, Alloc and Free of DemoMain.cpp,   *)
(* whatever blocks are freed in whatever order.                            *)
(***************************************************************************)
THEOREM FreeListStaysIntact == DemoSpec => []FreeListIntact
<1>1. AllWhole => FreeListIntact
  <2> SUFFICES ASSUME AllWhole, NEW a \in DOMAIN allocators
               PROVE  LET free == Headers(a) \ allocators[a].held
                          walk[n \in 0 .. ElemCount[a]] ==
                            IF n = 0 THEN allocators[a].free_list
                            ELSE IF walk[n - 1] = nullptr THEN nullptr
                                 ELSE allocators[a].next[walk[n - 1]]
                      IN  /\ {walk[n] : n \in 0 .. (Cardinality(free) - 1)} = free
                          /\ walk[Cardinality(free)] = nullptr
    BY DEF FreeListIntact
  <2> DEFINE r == allocators[a]
             heads == HeadersAt(a, r.range)
             free == heads \ r.held
             c == ElemCount[a]
             first == r.free_list
             next == r.next
             walk == Walk(first, next, c)
  <2>1. a \in Names /\ Whole(a, r)
    BY DEF AllWhole
  <2>2. r.range \in Nat /\ c \in Nat
    BY <2>1, BlockNumbers, AllocatorFields DEF Whole
  <2>3. Headers(a) = heads
    BY DEF Headers, HeadersAt
  <2>4. PICK n \in Nat : \E s : Chained(s, n, r, free)
    BY <2>1 DEF Whole
  <2>5. PICK s : Chained(s, n, r, free)
    BY <2>4
  <2>6. Ends(s, n, first) /\ Links(s, n, next) /\ Enumerates(s, n, free)
    BY <2>5 DEF Chained
  <2>7. \A b \in free : b # nullptr
    BY <2>1, <2>2, Headed
  <2>8. IsFiniteSet(heads) /\ Cardinality(heads) \in Nat /\ Cardinality(heads) <= c
    BY <2>1, <2>2, HeadersCounted
  <2>9. free \in SUBSET heads
    OBVIOUS
  <2> HIDE DEF free, heads, c
  <2>10. Cardinality(free) = n
    BY <2>6, ChainCounts
  <2>11. Cardinality(free) <= Cardinality(heads)
    BY <2>8, <2>9, FS_Subset
  <2>12. n \in 0 .. c
    BY <2>2, <2>8, <2>10, <2>11
  <2>13. \A i \in 0 .. (n - 1) : s[i] # nullptr
    BY <2>6, <2>7 DEF Enumerates
  <2> HIDE DEF walk, first, next
  <2>14. \A i \in 0 .. n : walk[i] = s[i]
    BY <2>2, <2>6, <2>12, <2>13, WalkIs DEF walk
  <2>15. walk[n] = nullptr
    <3>1. n \in 0 .. n
      OBVIOUS
    <3> QED
      BY <2>6, <2>14, <3>1 DEF Ends
  <2>16. {walk[i] : i \in 0 .. (n - 1)} = free
    <3>1. \A i \in 0 .. (n - 1) : walk[i] = s[i]
      BY <2>14
    <3> QED
      BY <2>6, <3>1 DEF Enumerates
  <2>17. {walk[i] : i \in 0 .. (Cardinality(free) - 1)} = free /\ walk[Cardinality(free)] = nullptr
    BY <2>10, <2>15, <2>16
  <2> QED
    BY <2>3, <2>17 DEF free, heads, walk, first, next, c, Walk, Walked
<1> QED
  BY <1>1, WholeKept, PTL DEF DemoSpec

-----------------------------------------------------------------------------
(***************************************************************************)
(* The demo as a program of TracedHeaps.tla.  What its events ask for in a *)
(* world w, the heaps the events before them made.                         *)
(***************************************************************************)
P == INSTANCE TracedHeapsProofs WITH truth <- reported, MaxOutside <- 0, Busy <- HeapIds

BytesAt(p, size) == p .. (p + size - 1)

Standing(w, id) == id \in HeapIds /\ id \in DOMAIN w /\ ~w[id].gone
Open(w, id) == Standing(w, id) /\ ~w[id].closing

MayCreate(w, id) ==
  id \in HeapIds /\ id \notin DOMAIN w /\ \A n \in HeapIds : n < id => n \in DOMAIN w

MayAddCore(w, id, b, size) ==
  /\ Open(w, id) /\ DOMAIN w[id].cores = {} /\ DOMAIN w[id].live = {}
  /\ b \in Pointers /\ size \in Sizes /\ size > 0 /\ BytesAt(b, size) \subseteq Pointers

MayAllocate(w, id, p, size) ==
  /\ Open(w, id) /\ p \in Pointers /\ size \in Sizes /\ size > 0
  /\ \E b : DOMAIN w[id].cores = {b} /\ BytesAt(p, size) \subseteq BytesAt(b, w[id].cores[b])
  /\ \A q \in DOMAIN w[id].live : BytesAt(p, size) \cap BytesAt(q, w[id].live[q].size) = {}

MayFree(w, id, p) ==
  Open(w, id) /\ p \in Pointers /\ p \in DOMAIN w[id].live /\ w[id].live[p].owned = TRUE

MayRemoveCore(w, id, b) ==
  Standing(w, id) /\ b \in Pointers /\ b \in DOMAIN w[id].cores /\ DOMAIN w[id].live = {}

LEMMA CreateTraced ==
  ASSUME NEW t, NEW id, MayCreate(reported, id), HeapCreate(t, id),
         reported' = Put(reported, id, NewReport)
  PROVE  Traced!PHeapCreate(t, id) /\ P!PHeapCreate(t, id)
<1>1. Traced!HeapCreate(t, id)
  BY DEF HeapCreate, AddEvent, Emplace, NewHeap, Put, Empty, Traced!HeapCreate, Traced!AddEvent,
         Traced!Emplace, Traced!NewHeap, Traced!Put, Traced!Empty
<1>2. P!HeapCreate(t, id)
  BY DEF HeapCreate, AddEvent, Emplace, NewHeap, Put, Empty, P!HeapCreate, P!AddEvent,
         P!Emplace, P!NewHeap, P!Put, P!Empty
<1>3. reported' = Traced!Put(reported, id, Traced!NewTruth)
  BY DEF NewReport, Put, Empty, Traced!Put, Traced!NewTruth, Traced!Empty
<1>4. reported' = P!Put(reported, id, P!NewTruth)
  BY DEF NewReport, Put, Empty, P!Put, P!NewTruth, P!Empty
<1> QED
  BY <1>1, <1>2, <1>3, <1>4 DEF MayCreate, Traced!PHeapCreate, P!PHeapCreate

LEMMA DestroyTraced ==
  ASSUME NEW t, NEW id, Standing(reported, id), HeapDestroy(t, id),
         reported' = [reported EXCEPT ![id] = [reported[id] EXCEPT !.gone = TRUE]]
  PROVE  Traced!PHeapDestroy(t, id) /\ P!PHeapDestroy(t, id)
<1>1. Traced!HeapDestroy(t, id)
  BY DEF HeapDestroy, AsInt, AddEvent, Known, Becomes, Ignored, Traced!HeapDestroy,
         Traced!AsInt, Traced!AddEvent, Traced!Known, Traced!Becomes, Traced!Ignored
<1>2. P!HeapDestroy(t, id)
  BY DEF HeapDestroy, AsInt, AddEvent, Known, Becomes, Ignored,
         P!HeapDestroy, P!AsInt, P!AddEvent, P!Known, P!Becomes, P!Ignored
<1> QED
  BY <1>1, <1>2 DEF Standing, Traced!PHeapDestroy, Traced!InUse, Traced!Does,
                    P!PHeapDestroy, P!InUse, P!Does

LEMMA AddCoreTraced ==
  ASSUME NEW t, NEW id, NEW b, NEW size, MayAddCore(reported, id, b, size),
         AddCore(t, id, b, size),
         reported' = [reported EXCEPT ![id] = [reported[id] EXCEPT !.cores = Put(@, b, size)]]
  PROVE  Traced!PAddCore(t, id, b, size) /\ P!PAddCore(t, id, b, size)
<1>1. Traced!AddCore(t, id, b, size)
  BY DEF AddCore, AddEvent, Known, Becomes, Ignored, HeapAddCore, HeapManages, NewCore, Put, Plus,
         Larger, Empty, Traced!AddCore, Traced!AddEvent, Traced!Known, Traced!Becomes,
         Traced!Ignored, Traced!HeapAddCore, Traced!HeapManages, Traced!NewCore, Traced!Put,
         Traced!Plus, Traced!Larger, Traced!Empty
<1>2. P!AddCore(t, id, b, size)
  BY DEF AddCore, AddEvent, Known, Becomes, Ignored, HeapAddCore, HeapManages, NewCore, Put, Plus,
         Larger, Empty, P!AddCore, P!AddEvent, P!Known, P!Becomes, P!Ignored, P!HeapAddCore,
         P!HeapManages, P!NewCore, P!Put, P!Plus, P!Larger, P!Empty
<1>3. Put(reported[id].cores, b, size) = Traced!Put(reported[id].cores, b, size)
  BY DEF Put, Traced!Put
<1>4. Put(reported[id].cores, b, size) = P!Put(reported[id].cores, b, size)
  BY DEF Put, P!Put
<1>5. Traced!Taken(id) = {}
  BY DEF MayAddCore, Traced!Taken, Traced!Managed, Traced!LiveBytes
<1>6. P!Taken(id) = {}
  BY DEF MayAddCore, P!Taken, P!Managed, P!LiveBytes
<1>7. Traced!Usable(id) /\ P!Usable(id)
  BY DEF MayAddCore, Open, Standing, Traced!Usable, Traced!InUse, P!Usable, P!InUse
<1>8. Traced!Addressable(b, size) /\ P!Addressable(b, size)
  BY DEF MayAddCore, BytesAt, Traced!Addressable, Traced!Bytes, P!Addressable, P!Bytes
<1>9. Traced!PAddCore(t, id, b, size)
  BY <1>1, <1>3, <1>5, <1>7, <1>8 DEF MayAddCore, Traced!PAddCore, Traced!Does
<1>10. P!PAddCore(t, id, b, size)
  BY <1>2, <1>4, <1>6, <1>7, <1>8 DEF MayAddCore, P!PAddCore, P!Does
<1> QED
  BY <1>9, <1>10

LEMMA RemoveCoreTraced ==
  ASSUME NEW t, NEW id, NEW b, MayRemoveCore(reported, id, b), RemoveCore(t, id, b),
         reported' = [reported EXCEPT ![id] = [reported[id] EXCEPT !.cores = Erase(@, b)]]
  PROVE  Traced!PRemoveCore(t, id, b) /\ P!PRemoveCore(t, id, b)
<1>1. Traced!RemoveCore(t, id, b)
  BY DEF RemoveCore, AddEvent, Known, Becomes, Ignored, HeapRemoveCore, Erase, Restrict,
         Minus, Traced!RemoveCore, Traced!AddEvent, Traced!Known, Traced!Becomes, Traced!Ignored,
         Traced!HeapRemoveCore, Traced!Erase, Traced!Restrict, Traced!Minus
<1>2. P!RemoveCore(t, id, b)
  BY DEF RemoveCore, AddEvent, Known, Becomes, Ignored, HeapRemoveCore, Erase, Restrict,
         Minus, P!RemoveCore, P!AddEvent, P!Known, P!Becomes, P!Ignored,
         P!HeapRemoveCore, P!Erase, P!Restrict, P!Minus
<1>3. Erase(reported[id].cores, b) = Traced!Erase(reported[id].cores, b)
  BY DEF Erase, Restrict, Traced!Erase, Traced!Restrict
<1>4. Erase(reported[id].cores, b) = P!Erase(reported[id].cores, b)
  BY DEF Erase, Restrict, P!Erase, P!Restrict
<1>5. Traced!LiveBytes(id) = {} /\ P!LiveBytes(id) = {}
  BY DEF MayRemoveCore, Traced!LiveBytes, P!LiveBytes
<1>6. Traced!InUse(id) /\ P!InUse(id)
  BY DEF MayRemoveCore, Standing, Traced!InUse, P!InUse
<1>7. Traced!PRemoveCore(t, id, b)
  BY <1>1, <1>3, <1>5, <1>6 DEF MayRemoveCore, Traced!PRemoveCore, Traced!Does
<1>8. P!PRemoveCore(t, id, b)
  BY <1>2, <1>4, <1>5, <1>6 DEF MayRemoveCore, P!PRemoveCore, P!Does
<1> QED
  BY <1>7, <1>8

LEMMA SameCardinality ==
  ASSUME NEW S
  PROVE  Traced!Cardinality(S) = Cardinality(S) /\ P!Cardinality(S) = Cardinality(S)
BY DEF Cardinality, Traced!Cardinality, P!Cardinality

LEMMA AtMostOne ==
  ASSUME NEW b, NEW C \in SUBSET {b}
  PROVE  Cardinality(C) <= 2
<1>1. Cardinality({}) = 0 /\ Cardinality({b}) = 1
  BY FS_Singleton, FS_EmptySet
<1>2. CASE C = {}
  BY <1>1, <1>2
<1>3. CASE C = {b}
  BY <1>1, <1>3
<1> QED
  BY <1>2, <1>3

LEMMA AllocateTraced ==
  ASSUME NEW t, NEW id, NEW p, NEW size, MayAllocate(reported, id, p, size),
         Allocate(t, id, p, size, TRUE),
         reported' = [reported EXCEPT ![id] =
                        [reported[id] EXCEPT !.live = Put(@, p, [size |-> size, owned |-> TRUE])]]
  PROVE  Traced!PAllocate(t, id, p, size) /\ P!PAllocate(t, id, p, size)
<1>1. \A h : Candidates(h, p, size) = Traced!Candidates(h, p, size)
  BY DEF Candidates, Fitting, Spanning, AllocationInside, PointerInside, IsNext, Plus,
         Traced!Candidates, Traced!Fitting, Traced!Spanning, Traced!AllocationInside,
         Traced!PointerInside, Traced!IsNext, Traced!Plus
<1>2. \A h : Candidates(h, p, size) = P!Candidates(h, p, size)
  BY DEF Candidates, Fitting, Spanning, AllocationInside, PointerInside, IsNext, Plus,
         P!Candidates, P!Fitting, P!Spanning, P!AllocationInside,
         P!PointerInside, P!IsNext, P!Plus
<1>3. \A h, b : PlacedIn(h, b, p, size) = Traced!PlacedIn(h, b, p, size)
  BY DEF PlacedIn, HeapUses, CoreWith, Emplace, Put, Plus, Larger, Traced!PlacedIn,
         Traced!HeapUses, Traced!CoreWith, Traced!Emplace, Traced!Put, Traced!Plus, Traced!Larger
<1>4. \A h, b : PlacedIn(h, b, p, size) = P!PlacedIn(h, b, p, size)
  BY DEF PlacedIn, HeapUses, CoreWith, Emplace, Put, Plus, Larger, P!PlacedIn,
         P!HeapUses, P!CoreWith, P!Emplace, P!Put, P!Plus, P!Larger
<1>5. \A h : Sample(h, t) = Traced!Sample(h, t) /\ Sample(h, t) = P!Sample(h, t)
  BY DEF Sample, Put, Traced!Sample, Traced!Put, P!Sample, P!Put
<1>6. (Known(id) <=> Traced!Known(id)) /\ (Known(id) <=> P!Known(id))
  BY DEF Known, Traced!Known, P!Known
<1>7. Traced!Allocate(t, id, p, size, TRUE)
  BY <1>1, <1>3, <1>5, <1>6 DEF Allocate, AddEvent, Becomes, Ignored, IsFirst, Traced!Allocate,
         Traced!AddEvent, Traced!Becomes, Traced!Ignored, Traced!IsFirst
<1>8. P!Allocate(t, id, p, size, TRUE)
  BY <1>2, <1>4, <1>5, <1>6 DEF Allocate, AddEvent, Becomes, Ignored, IsFirst, P!Allocate,
         P!AddEvent, P!Becomes, P!Ignored, P!IsFirst
<1> DEFINE x == reported[id]
           block == [size |-> size, owned |-> TRUE]
<1>9. /\ Put(x.live, p, block) = Traced!Put(x.live, p, block)
      /\ Put(x.live, p, block) = P!Put(x.live, p, block)
  BY DEF Put, Traced!Put, P!Put
<1>10. PICK b : DOMAIN x.cores = {b} /\ BytesAt(p, size) \subseteq BytesAt(b, x.cores[b])
  BY DEF MayAllocate
<1>11. \A q \in DOMAIN x.live : BytesAt(p, size) \cap BytesAt(q, x.live[q].size) = {}
  BY DEF MayAllocate
<1>12. Traced!Bytes(p, size) \subseteq Traced!Managed(id) \ Traced!LiveBytes(id)
  BY <1>10, <1>11 DEF BytesAt, Traced!Bytes, Traced!Managed, Traced!CoreBytes, Traced!LiveBytes
<1>13. P!Bytes(p, size) \subseteq P!Managed(id) \ P!LiveBytes(id)
  BY <1>10, <1>11 DEF BytesAt, P!Bytes, P!Managed, P!CoreBytes, P!LiveBytes
<1>14. Traced!Cardinality({d \in DOMAIN x.cores :
                             Traced!CoreBytes(id, d) \cap Traced!Bytes(p, size) # {}}) <= 2
  <2> DEFINE C == {d \in DOMAIN x.cores : Traced!CoreBytes(id, d) \cap Traced!Bytes(p, size) # {}}
  <2>1. C \in SUBSET {b}
    BY <1>10
  <2> HIDE DEF C
  <2> QED
    BY <2>1, AtMostOne, SameCardinality DEF C
<1>15. P!Cardinality({d \in DOMAIN x.cores :
                             P!CoreBytes(id, d) \cap P!Bytes(p, size) # {}}) <= 2
  <2> DEFINE C == {d \in DOMAIN x.cores : P!CoreBytes(id, d) \cap P!Bytes(p, size) # {}}
  <2>1. C \in SUBSET {b}
    BY <1>10
  <2> HIDE DEF C
  <2> QED
    BY <2>1, AtMostOne, SameCardinality DEF C
<1>16. Traced!Usable(id) /\ P!Usable(id) /\ size > 0
  BY DEF MayAllocate, Open, Standing, Traced!Usable, Traced!InUse, P!Usable, P!InUse
<1>17. Traced!PAllocate(t, id, p, size)
  <2>1. reported' = [reported EXCEPT ![id] =
                       [reported[id] EXCEPT !.live = Traced!Put(@, p, [size |-> size, owned |-> TRUE])]]
    BY <1>9
  <2> QED
    BY <1>7, <2>1, <1>12, <1>14, <1>16 DEF Traced!PAllocate, Traced!Does
<1>18. P!PAllocate(t, id, p, size)
  <2>1. reported' = [reported EXCEPT ![id] =
                       [reported[id] EXCEPT !.live = P!Put(@, p, [size |-> size, owned |-> TRUE])]]
    BY <1>9
  <2> QED
    BY <1>8, <2>1, <1>13, <1>15, <1>16 DEF P!PAllocate, P!Does
<1> QED
  BY <1>17, <1>18

LEMMA FreeTraced ==
  ASSUME NEW t, NEW id, NEW p, MayFree(reported, id, p), Free(t, id, p, TRUE),
         reported' = [reported EXCEPT ![id] = [reported[id] EXCEPT !.live = Erase(@, p)]]
  PROVE  Traced!PFree(t, id, p) /\ P!PFree(t, id, p)
<1>1. \A h : /\ TakenFromCore(h, p) = Traced!TakenFromCore(h, p)
            /\ InMappedCore(h, p) = Traced!InMappedCore(h, p)
  BY DEF TakenFromCore, CoreWithout, RemovedBytes, Erase, Restrict, Minus, InMappedCore,
         Traced!TakenFromCore, Traced!CoreWithout, Traced!RemovedBytes, Traced!Erase,
         Traced!Restrict, Traced!Minus, Traced!InMappedCore
<1>2. \A h : /\ TakenFromCore(h, p) = P!TakenFromCore(h, p)
            /\ InMappedCore(h, p) = P!InMappedCore(h, p)
  BY DEF TakenFromCore, CoreWithout, RemovedBytes, Erase, Restrict, Minus, InMappedCore,
         P!TakenFromCore, P!CoreWithout, P!RemovedBytes, P!Erase, P!Restrict, P!Minus, P!InMappedCore
<1>3. \A h : Sample(h, t) = Traced!Sample(h, t) /\ Sample(h, t) = P!Sample(h, t)
  BY DEF Sample, Put, Traced!Sample, Traced!Put, P!Sample, P!Put
<1>4. Traced!Free(t, id, p, TRUE)
  BY <1>1, <1>3 DEF Free, AddEvent, Known, Recorded, Becomes, Ignored, Traced!Free,
         Traced!AddEvent, Traced!Known, Traced!Recorded, Traced!Becomes, Traced!Ignored
<1>5. P!Free(t, id, p, TRUE)
  BY <1>2, <1>3 DEF Free, AddEvent, Known, Recorded, Becomes, Ignored, P!Free,
         P!AddEvent, P!Known, P!Recorded, P!Becomes, P!Ignored
<1>6. /\ Erase(reported[id].live, p) = Traced!Erase(reported[id].live, p)
      /\ Erase(reported[id].live, p) = P!Erase(reported[id].live, p)
  BY DEF Erase, Restrict, Traced!Erase, Traced!Restrict, P!Erase, P!Restrict
<1>7. Traced!Usable(id) /\ P!Usable(id)
  BY DEF MayFree, Open, Standing, Traced!Usable, Traced!InUse, P!Usable, P!InUse
<1>8. Traced!PFree(t, id, p)
  BY <1>4, <1>6, <1>7 DEF MayFree, Traced!PFree, Traced!Does
<1>9. P!PFree(t, id, p)
  BY <1>5, <1>6, <1>7 DEF MayFree, P!PFree, P!Does
<1> QED
  BY <1>8, <1>9

\* The event e may come in the world w, and what it makes of it.
Legal(w, e) ==
  \/ e.type = "HeapCreate"     /\ MayCreate(w, e.id)
  \/ e.type = "HeapAddCore"    /\ MayAddCore(w, e.id, e.pointer, e.size)
  \/ e.type = "HeapAllocate"   /\ MayAllocate(w, e.id, e.pointer, e.size)
  \/ e.type = "HeapFree"       /\ MayFree(w, e.id, e.pointer)
  \/ e.type = "HeapRemoveCore" /\ MayRemoveCore(w, e.id, e.pointer)
  \/ e.type = "HeapDestroy"    /\ Standing(w, e.id)

Applied(w, e) ==
  IF e.type = "HeapCreate" THEN Put(w, e.id, NewReport)
  ELSE [w EXCEPT ![e.id] = Reported(@, e)]

LEMMA HandleIs ==
  ASSUME NEW t, Handle(t)
  PROVE  /\ trace # <<>> /\ AddsEvent(t, Head(trace)) /\ reported' = Applied(reported, Head(trace))
         /\ trace' = Tail(trace) /\ UNCHANGED <<allocators, active, next_heap_id>>
BY DEF Handle, Applied

LEMMA AppliedIs ==
  ASSUME NEW w, NEW e
  PROVE  /\ e.type = "HeapCreate" => Applied(w, e) = Put(w, e.id, NewReport)
         /\ e.type = "HeapAddCore" =>
              Applied(w, e) = [w EXCEPT ![e.id] =
                                 [w[e.id] EXCEPT !.cores = Put(@, e.pointer, e.size)]]
         /\ e.type = "HeapAllocate" =>
              Applied(w, e) = [w EXCEPT ![e.id] =
                [w[e.id] EXCEPT !.live = Put(@, e.pointer, [size |-> e.size, owned |-> TRUE])]]
         /\ e.type = "HeapFree" =>
              Applied(w, e) = [w EXCEPT ![e.id] = [w[e.id] EXCEPT !.live = Erase(@, e.pointer)]]
         /\ e.type = "HeapRemoveCore" =>
              Applied(w, e) = [w EXCEPT ![e.id] = [w[e.id] EXCEPT !.cores = Erase(@, e.pointer)]]
         /\ e.type = "HeapDestroy" =>
              Applied(w, e) = [w EXCEPT ![e.id] = [w[e.id] EXCEPT !.gone = TRUE]]
<1>1. e.type = "HeapCreate" => Applied(w, e) = Put(w, e.id, NewReport)
  BY DEF Applied
<1>2. e.type # "HeapCreate" => Applied(w, e) = [w EXCEPT ![e.id] = Reported(w[e.id], e)]
  BY DEF Applied
<1> DEFINE x == w[e.id]
<1>3. e.type = "HeapAddCore" => Reported(x, e) = [x EXCEPT !.cores = Put(@, e.pointer, e.size)]
  BY DEF Reported
<1>4. e.type = "HeapAllocate" =>
        Reported(x, e) = [x EXCEPT !.live = Put(@, e.pointer, [size |-> e.size, owned |-> TRUE])]
  BY DEF Reported
<1>5. e.type = "HeapFree" => Reported(x, e) = [x EXCEPT !.live = Erase(@, e.pointer)]
  BY DEF Reported
<1>6. e.type = "HeapRemoveCore" => Reported(x, e) = [x EXCEPT !.cores = Erase(@, e.pointer)]
  BY DEF Reported
<1>7. e.type = "HeapDestroy" => Reported(x, e) = [x EXCEPT !.gone = TRUE]
  BY DEF Reported
<1> QED
  BY <1>1, <1>2, <1>3, <1>4, <1>5, <1>6, <1>7

LEMMA AddsEventIs ==
  ASSUME NEW t, NEW e, AddsEvent(t, e)
  PROVE  /\ e.type = "HeapCreate" => HeapCreate(t, e.id)
         /\ e.type = "HeapAddCore" => AddCore(t, e.id, e.pointer, e.size)
         /\ e.type = "HeapAllocate" => Allocate(t, e.id, e.pointer, e.size, TRUE)
         /\ e.type = "HeapFree" => Free(t, e.id, e.pointer, TRUE)
         /\ e.type = "HeapRemoveCore" => RemoveCore(t, e.id, e.pointer)
         /\ e.type = "HeapDestroy" => HeapDestroy(t, e.id)
BY DEF AddsEvent

\* The tool handles an event that may come: a step of such a program.
LEMMA HandleTraced ==
  ASSUME NEW t \in Times, t >= last_update, Handle(t), Legal(reported, Head(trace))
  PROVE  Traced!TNext /\ P!TNext
<1> DEFINE e == Head(trace)
<1>1. AddsEvent(t, e) /\ reported' = Applied(reported, e)
  BY HandleIs
<1> HIDE DEF e
<1>2. CASE e.type = "HeapCreate" /\ MayCreate(reported, e.id)
  <2>1. HeapCreate(t, e.id) /\ reported' = Put(reported, e.id, NewReport)
    BY <1>1, <1>2, AddsEventIs, AppliedIs
  <2>2. Traced!PHeapCreate(t, e.id) /\ P!PHeapCreate(t, e.id) /\ e.id \in HeapIds
    BY <1>2, <2>1, CreateTraced DEF MayCreate
  <2> QED
    BY <2>2 DEF Traced!TNext, Traced!NextButGrowth, Traced!NextOfHeap, Traced!NextOfBusy,
                     P!TNext, P!NextButGrowth, P!NextOfHeap, P!NextOfBusy
<1>3. CASE e.type = "HeapAddCore" /\ MayAddCore(reported, e.id, e.pointer, e.size)
  <2>1. AddCore(t, e.id, e.pointer, e.size)
    BY <1>1, <1>3, AddsEventIs
  <2>2. reported' = [reported EXCEPT ![e.id] =
                       [reported[e.id] EXCEPT !.cores = Put(@, e.pointer, e.size)]]
    BY <1>1, <1>3, AppliedIs
  <2>3. /\ Traced!PAddCore(t, e.id, e.pointer, e.size) /\ P!PAddCore(t, e.id, e.pointer, e.size)
    BY <1>3, <2>1, <2>2, AddCoreTraced
  <2>4. e.id \in HeapIds /\ e.pointer \in Pointers /\ e.size \in Sizes
    BY <1>3 DEF MayAddCore, Open, Standing
  <2> QED
    BY <2>3, <2>4 DEF Traced!TNext, Traced!NextButGrowth, Traced!NextOfHeap, Traced!NextOfBusy,
                     P!TNext, P!NextButGrowth, P!NextOfHeap, P!NextOfBusy
<1>4. CASE e.type = "HeapAllocate" /\ MayAllocate(reported, e.id, e.pointer, e.size)
  <2>1. Allocate(t, e.id, e.pointer, e.size, TRUE)
    BY <1>1, <1>4, AddsEventIs
  <2>2. reported' = [reported EXCEPT ![e.id] =
          [reported[e.id] EXCEPT !.live = Put(@, e.pointer, [size |-> e.size, owned |-> TRUE])]]
    BY <1>1, <1>4, AppliedIs
  <2>3. Traced!PAllocate(t, e.id, e.pointer, e.size) /\ P!PAllocate(t, e.id, e.pointer, e.size)
    BY <1>4, <2>1, <2>2, AllocateTraced
  <2>4. e.id \in HeapIds /\ e.pointer \in Pointers /\ e.size \in Sizes
    BY <1>4 DEF MayAllocate, Open, Standing
  <2> QED
    BY <2>3, <2>4 DEF Traced!TNext, Traced!NextButGrowth, Traced!NextOfHeap, Traced!NextOfBusy,
                     P!TNext, P!NextButGrowth, P!NextOfHeap, P!NextOfBusy
<1>5. CASE e.type = "HeapFree" /\ MayFree(reported, e.id, e.pointer)
  <2>1. Free(t, e.id, e.pointer, TRUE)
    BY <1>1, <1>5, AddsEventIs
  <2>2. reported' = [reported EXCEPT ![e.id] =
                       [reported[e.id] EXCEPT !.live = Erase(@, e.pointer)]]
    BY <1>1, <1>5, AppliedIs
  <2>3. Traced!PFree(t, e.id, e.pointer) /\ P!PFree(t, e.id, e.pointer)
    BY <1>5, <2>1, <2>2, FreeTraced
  <2>4. e.id \in HeapIds /\ e.pointer \in Pointers
    BY <1>5 DEF MayFree, Open, Standing
  <2> QED
    BY <2>3, <2>4 DEF Traced!TNext, Traced!NextButGrowth, Traced!NextOfHeap, Traced!NextOfBusy,
                     P!TNext, P!NextButGrowth, P!NextOfHeap, P!NextOfBusy
<1>6. CASE e.type = "HeapRemoveCore" /\ MayRemoveCore(reported, e.id, e.pointer)
  <2>1. RemoveCore(t, e.id, e.pointer)
    BY <1>1, <1>6, AddsEventIs
  <2>2. reported' = [reported EXCEPT ![e.id] =
                       [reported[e.id] EXCEPT !.cores = Erase(@, e.pointer)]]
    BY <1>1, <1>6, AppliedIs
  <2>3. Traced!PRemoveCore(t, e.id, e.pointer) /\ P!PRemoveCore(t, e.id, e.pointer)
    BY <1>6, <2>1, <2>2, RemoveCoreTraced
  <2>4. e.id \in HeapIds /\ e.pointer \in Pointers
    BY <1>6 DEF MayRemoveCore, Standing
  <2> QED
    BY <2>3, <2>4 DEF Traced!TNext, Traced!NextButGrowth, Traced!NextOfHeap, Traced!NextOfBusy,
                     P!TNext, P!NextButGrowth, P!NextOfHeap, P!NextOfBusy
<1>7. CASE e.type = "HeapDestroy" /\ Standing(reported, e.id)
  <2>1. HeapDestroy(t, e.id)
    BY <1>1, <1>7, AddsEventIs
  <2>2. reported' = [reported EXCEPT ![e.id] = [reported[e.id] EXCEPT !.gone = TRUE]]
    BY <1>1, <1>7, AppliedIs
  <2>3. Traced!PHeapDestroy(t, e.id) /\ P!PHeapDestroy(t, e.id) /\ e.id \in HeapIds
    BY <1>7, <2>1, <2>2, DestroyTraced DEF Standing
  <2> QED
    BY <2>3 DEF Traced!TNext, Traced!NextButGrowth, Traced!NextOfHeap, Traced!NextOfBusy,
                     P!TNext, P!NextButGrowth, P!NextOfHeap, P!NextOfBusy
<1> QED
  BY <1>2, <1>3, <1>4, <1>5, <1>6, <1>7 DEF Legal, e

-----------------------------------------------------------------------------
(***************************************************************************)
(* The events on their way lead from the world of the tool to that of the  *)
(* demo.                                                                   *)
(***************************************************************************)
LiveBlocks == [size : Sizes, owned : BOOLEAN]

Reports == [cores : Maps(Pointers, Nat), live : Maps(Pointers, LiveBlocks),
            outside : SUBSET Pointers, closing : BOOLEAN, gone : BOOLEAN]

Worlds == Maps(HeapIds, Reports)

Replay(s, w, tr) ==
  /\ s[0] = w
  /\ \A i \in 0 .. Len(tr) : s[i] \in Worlds
  /\ \A i \in 1 .. Len(tr) : Legal(s[i - 1], tr[i]) /\ s[i] = Applied(s[i - 1], tr[i])

Leads(w, tr, v) == \E s : Replay(s, w, tr) /\ s[Len(tr)] = v

EventTypes == {"HeapCreate", "HeapAddCore", "HeapAllocate", "HeapFree", "HeapRemoveCore",
               "HeapDestroy"}

Events == [type : EventTypes, id : Int, pointer : Int, size : Int]

LEMMA LeadsNowhere ==
  /\ \A w \in Worlds : Leads(w, <<>>, w)
  /\ \A w, v : Leads(w, <<>>, v) => v = w
<1>1. Len(<<>>) = 0
  OBVIOUS
<1>2. ASSUME NEW w \in Worlds
      PROVE  Leads(w, <<>>, w)
  <2> DEFINE s == [i \in 0 .. 0 |-> w]
  <2>1. s[0] = w /\ \A i \in 0 .. 0 : s[i] \in Worlds
    OBVIOUS
  <2> HIDE DEF s
  <2>2. Replay(s, w, <<>>)
    BY <1>1, <2>1 DEF Replay
  <2> QED
    BY <1>1, <2>1, <2>2 DEF Leads
<1>3. ASSUME NEW w, NEW v, Leads(w, <<>>, v)
      PROVE  v = w
  BY <1>1, <1>3 DEF Leads, Replay
<1> QED
  BY <1>2, <1>3

LEMMA LeadsWithin ==
  ASSUME NEW w, NEW tr \in Seq(Events), NEW v, Leads(w, tr, v)
  PROVE  w \in Worlds /\ v \in Worlds
<1>1. PICK s : Replay(s, w, tr) /\ s[Len(tr)] = v
  BY DEF Leads
<1>2. 0 \in 0 .. Len(tr) /\ Len(tr) \in 0 .. Len(tr)
  OBVIOUS
<1> QED
  BY <1>1, <1>2 DEF Replay

LEMMA LeadsFurther ==
  ASSUME NEW w, NEW tr \in Seq(Events), NEW v, Leads(w, tr, v), NEW e \in Events, Legal(v, e),
         Applied(v, e) \in Worlds
  PROVE  Leads(w, Append(tr, e), Applied(v, e))
<1> DEFINE n == Len(tr)
           m == Len(tr) + 1
           more == Append(tr, e)
<1>1. PICK s : Replay(s, w, tr) /\ s[n] = v
  BY DEF Leads
<1> DEFINE u == [i \in 0 .. m |-> IF i = m THEN Applied(v, e) ELSE s[i]]
<1>2. n \in Nat /\ m = n + 1 /\ m \in Nat
  OBVIOUS
<1>3. Len(more) = m /\ more[m] = e /\ \A i \in 1 .. n : more[i] = tr[i]
  OBVIOUS
<1>4. u[m] = Applied(v, e) /\ \A i \in 0 .. n : u[i] = s[i]
  BY <1>2
<1>5. /\ s[0] = w /\ \A i \in 0 .. n : s[i] \in Worlds
      /\ \A i \in 1 .. n : Legal(s[i - 1], tr[i]) /\ s[i] = Applied(s[i - 1], tr[i])
  BY <1>1 DEF Replay
<1> HIDE DEF u, n, m, more
<1>6. \A i \in 0 .. m : i \in 0 .. n \/ i = m
  BY <1>2
<1>7. 0 \in 0 .. n /\ n \in 0 .. n /\ m - 1 = n
  BY <1>2
<1>8. \A i \in 1 .. n : i \in 0 .. n /\ i - 1 \in 0 .. n
  BY <1>2
<1>9. \A i \in 1 .. m : i \in 1 .. n \/ i = m
  BY <1>2
<1>10. u[0] = w /\ \A i \in 0 .. m : u[i] \in Worlds
  BY <1>4, <1>5, <1>6, <1>7
<1>11. \A i \in 1 .. n : Legal(u[i - 1], more[i]) /\ u[i] = Applied(u[i - 1], more[i])
  BY <1>3, <1>4, <1>5, <1>8
<1>12. Legal(u[m - 1], more[m]) /\ u[m] = Applied(u[m - 1], more[m])
  BY <1>1, <1>3, <1>4, <1>7
<1>13. Replay(u, w, more)
  BY <1>3, <1>9, <1>10, <1>11, <1>12 DEF Replay
<1>14. Leads(w, more, Applied(v, e))
  BY <1>3, <1>4, <1>13 DEF Leads
<1> QED
  BY <1>14 DEF more

LEMMA LeadsFirst ==
  ASSUME NEW w, NEW tr \in Seq(Events), NEW v, Leads(w, tr, v), tr # <<>>
  PROVE  Legal(w, Head(tr)) /\ Leads(Applied(w, Head(tr)), Tail(tr), v)
<1> DEFINE n == Len(tr)
           m == Len(tr) - 1
           less == Tail(tr)
           e == Head(tr)
<1>1. PICK s : Replay(s, w, tr) /\ s[n] = v
  BY DEF Leads
<1> DEFINE u == [i \in 0 .. m |-> s[i + 1]]
<1>2. n \in Nat /\ n >= 1 /\ n = m + 1 /\ m \in Nat
  OBVIOUS
<1>3. Len(less) = m /\ e = tr[1] /\ \A i \in 1 .. m : less[i] = tr[i + 1]
  OBVIOUS
<1>4. \A i \in 0 .. m : u[i] = s[i + 1]
  OBVIOUS
<1>5. /\ s[0] = w /\ \A i \in 0 .. n : s[i] \in Worlds
      /\ \A i \in 1 .. n : Legal(s[i - 1], tr[i]) /\ s[i] = Applied(s[i - 1], tr[i])
  BY <1>1 DEF Replay
<1> HIDE DEF u, n, m, less, e
<1>6. 1 \in 1 .. n /\ 1 - 1 = 0 /\ 0 \in 0 .. m /\ m \in 0 .. m
  BY <1>2
<1>7. \A i \in 0 .. m : i + 1 \in 0 .. n
  BY <1>2
<1>8. \A i \in 1 .. m : /\ i \in 0 .. m /\ i - 1 \in 0 .. m /\ i + 1 \in 1 .. n
                        /\ (i - 1) + 1 = i /\ (i + 1) - 1 = i
  BY <1>2
<1>9. Legal(w, e) /\ s[1] = Applied(w, e)
  BY <1>3, <1>5, <1>6
<1>10. u[0] = Applied(w, e) /\ u[m] = v
  <2>1. 0 + 1 = 1 /\ m + 1 = n
    BY <1>2
  <2> QED
    BY <1>1, <1>4, <1>6, <1>9, <2>1
<1>11. \A i \in 0 .. m : u[i] \in Worlds
  BY <1>4, <1>5, <1>7
<1>12. \A i \in 1 .. m : Legal(u[i - 1], less[i]) /\ u[i] = Applied(u[i - 1], less[i])
  <2> SUFFICES ASSUME NEW i \in 1 .. m
               PROVE  Legal(u[i - 1], less[i]) /\ u[i] = Applied(u[i - 1], less[i])
    OBVIOUS
  <2>1. u[i - 1] = s[i] /\ u[i] = s[i + 1] /\ less[i] = tr[i + 1]
    BY <1>3, <1>4, <1>8
  <2>2. Legal(s[i], tr[i + 1]) /\ s[i + 1] = Applied(s[i], tr[i + 1])
    BY <1>5, <1>8
  <2> QED
    BY <2>1, <2>2
<1>13. Replay(u, Applied(w, e), less)
  BY <1>3, <1>10, <1>11, <1>12 DEF Replay
<1>14. Leads(Applied(w, e), less, v)
  BY <1>3, <1>10, <1>13 DEF Leads
<1> QED
  BY <1>9, <1>14 DEF less, e

LEMMA ReportOne ==
  ASSUME trace \in Seq(Events), active \in BOOLEAN, NEW e \in Events, Report(<<e>>)
  PROVE  /\ active' \in BOOLEAN
         /\ \/ ~active' /\ trace' = trace
            \/ active /\ active' /\ trace' = Append(trace, e)
<1>1. PICK sent \in 0 .. (IF active THEN Len(<<e>>) ELSE 0) :
        /\ trace' = trace \o SubSeq(<<e>>, 1, sent)
        /\ active' = (active /\ sent = Len(<<e>>))
  BY DEF Report
<1>2. Len(<<e>>) = 1
  BY SentIs
<1>3. sent = 0 \/ (sent = 1 /\ active)
  BY <1>2
<1>4. active' \in BOOLEAN /\ (active' <=> active /\ sent = 1)
  BY <1>1, <1>2
<1>5. (sent = 0 => trace' = trace) /\ (sent = 1 => trace' = Append(trace, e))
  BY <1>1, SentIs
<1> QED
  BY <1>3, <1>4, <1>5

LEMMA ReportTwo ==
  ASSUME trace \in Seq(Events), active \in BOOLEAN, NEW e \in Events, NEW f \in Events,
         Report(<<e, f>>)
  PROVE  /\ active' \in BOOLEAN
         /\ \/ ~active' /\ trace' = trace
            \/ active /\ ~active' /\ trace' = Append(trace, e)
            \/ active /\ active' /\ trace' = Append(Append(trace, e), f)
<1>1. PICK sent \in 0 .. (IF active THEN Len(<<e, f>>) ELSE 0) :
        /\ trace' = trace \o SubSeq(<<e, f>>, 1, sent)
        /\ active' = (active /\ sent = Len(<<e, f>>))
  BY DEF Report
<1>2. Len(<<e, f>>) = 2
  BY SentIs
<1>3. sent = 0 \/ (sent = 1 /\ active) \/ (sent = 2 /\ active)
  BY <1>2
<1>4. active' \in BOOLEAN /\ (active' <=> active /\ sent = 2)
  BY <1>1, <1>2
<1>5. /\ sent = 0 => trace' = trace
      /\ sent = 1 => trace' = Append(trace, e)
      /\ sent = 2 => trace' = Append(Append(trace, e), f)
  BY <1>1, SentIs
<1> QED
  BY <1>3, <1>4, <1>5

-----------------------------------------------------------------------------
(***************************************************************************)
(* The world of the demo.                                                  *)
(***************************************************************************)
WithReportCores(x, c) == [x EXCEPT !.cores = c]
WithReportLive(x, l) == [x EXCEPT !.live = l]
WithReportGone(x) == [x EXCEPT !.gone = TRUE]

LEMMA ReportFields ==
  ASSUME NEW x \in Reports
  PROVE  /\ x.cores \in Maps(Pointers, Nat) /\ x.live \in Maps(Pointers, LiveBlocks)
         /\ x.closing \in BOOLEAN /\ x.gone \in BOOLEAN
BY DEF Reports

LEMMA ReportMade ==
  /\ NewReport \in Reports /\ DOMAIN NewReport.cores = {} /\ DOMAIN NewReport.live = {}
  /\ NewReport.closing = FALSE /\ NewReport.gone = FALSE
<1>1. /\ NewReport.cores = Empty /\ NewReport.live = Empty
      /\ NewReport.closing = FALSE /\ NewReport.gone = FALSE
  BY DEF NewReport
<1>2. Empty \in Maps(Pointers, Nat) /\ Empty \in Maps(Pointers, LiveBlocks)
  BY EmptyIs
<1>3. NewReport \in Reports
  BY <1>2 DEF NewReport, Reports
<1> QED
  BY <1>1, <1>3, EmptyIs

LEMMA ReportWritten ==
  ASSUME NEW x \in Reports
  PROVE  /\ \A c \in Maps(Pointers, Nat) :
              /\ WithReportCores(x, c) \in Reports /\ WithReportCores(x, c).cores = c
              /\ WithReportCores(x, c).live = x.live
              /\ WithReportCores(x, c).closing = x.closing
              /\ WithReportCores(x, c).gone = x.gone
         /\ \A l \in Maps(Pointers, LiveBlocks) :
              /\ WithReportLive(x, l) \in Reports /\ WithReportLive(x, l).live = l
              /\ WithReportLive(x, l).cores = x.cores
              /\ WithReportLive(x, l).closing = x.closing
              /\ WithReportLive(x, l).gone = x.gone
         /\ WithReportGone(x) \in Reports /\ WithReportGone(x).gone = TRUE
<1>1. ASSUME NEW c \in Maps(Pointers, Nat)
      PROVE  /\ WithReportCores(x, c) \in Reports /\ WithReportCores(x, c).cores = c
             /\ WithReportCores(x, c).live = x.live
             /\ WithReportCores(x, c).closing = x.closing
             /\ WithReportCores(x, c).gone = x.gone
  BY DEF WithReportCores, Reports
<1>2. ASSUME NEW l \in Maps(Pointers, LiveBlocks)
      PROVE  /\ WithReportLive(x, l) \in Reports /\ WithReportLive(x, l).live = l
             /\ WithReportLive(x, l).cores = x.cores
             /\ WithReportLive(x, l).closing = x.closing
             /\ WithReportLive(x, l).gone = x.gone
  BY DEF WithReportLive, Reports
<1>3. WithReportGone(x) \in Reports /\ WithReportGone(x).gone = TRUE
  BY DEF WithReportGone, Reports
<1> QED
  BY <1>1, <1>2, <1>3

\* The heap x holds what the allocator a with its members r does.
Holding(x, a, r) ==
  /\ x.gone = FALSE /\ x.closing = FALSE
  /\ DOMAIN x.cores = {r.range} /\ x.cores[r.range] = MemSize(a)
  /\ DOMAIN x.live = r.held
  /\ \A b \in r.held : x.live[b].size = ElemSize[a] /\ x.live[b].owned = TRUE

\* The world w is that of the allocators, after n heap ids: every one has its
\* heap, and the other heaps are gone.
Matches(allocs, n, w) ==
  /\ n \in Nat /\ DOMAIN w = 0 .. (n - 1)
  /\ \A a \in DOMAIN allocs : /\ allocs[a].id \in DOMAIN w
                              /\ Holding(w[allocs[a].id], a, allocs[a])
  /\ \A a, b \in DOMAIN allocs : allocs[a].id = allocs[b].id => a = b
  /\ \A id \in DOMAIN w : w[id].gone = TRUE \/ \E a \in DOMAIN allocs : allocs[a].id = id

LEMMA MatchesNew ==
  ASSUME NEW allocs, NEW n, NEW w, Matches(allocs, n, w), NEW a, a \notin DOMAIN allocs,
         NEW r, r.id = n, NEW y, Holding(y, a, r)
  PROVE  Matches(Put(allocs, a, r), n + 1, Put(w, n, y))
<1> DEFINE more == Put(allocs, a, r)
           u == Put(w, n, y)
<1>1. /\ DOMAIN more = DOMAIN allocs \cup {a} /\ more[a] = r
      /\ \A d \in DOMAIN allocs \ {a} : more[d] = allocs[d]
  BY DEF Put
<1>2. /\ DOMAIN u = DOMAIN w \cup {n} /\ u[n] = y
      /\ \A id \in DOMAIN w \ {n} : u[id] = w[id]
  BY DEF Put
<1>3. /\ n \in Nat /\ DOMAIN w = 0 .. (n - 1)
      /\ \A d \in DOMAIN allocs : allocs[d].id \in DOMAIN w /\ Holding(w[allocs[d].id], d, allocs[d])
      /\ \A d, b \in DOMAIN allocs : allocs[d].id = allocs[b].id => d = b
      /\ \A id \in DOMAIN w : w[id].gone = TRUE \/ \E d \in DOMAIN allocs : allocs[d].id = id
  BY DEF Matches
<1> HIDE DEF more, u
<1>4. n \notin DOMAIN w /\ n + 1 \in Nat /\ DOMAIN u = 0 .. ((n + 1) - 1)
  BY <1>2, <1>3
<1>5. \A d \in DOMAIN more : more[d].id \in DOMAIN u /\ Holding(u[more[d].id], d, more[d])
  BY <1>1, <1>2, <1>3, <1>4
<1>6. \A d, b \in DOMAIN more : more[d].id = more[b].id => d = b
  BY <1>1, <1>3, <1>4
<1>7. \A id \in DOMAIN u : u[id].gone = TRUE \/ \E d \in DOMAIN more : more[d].id = id
  BY <1>1, <1>2, <1>3, <1>4
<1>8. Matches(more, n + 1, u)
  BY <1>4, <1>5, <1>6, <1>7 DEF Matches
<1> QED
  BY <1>8 DEF more, u

LEMMA MatchesPut ==
  ASSUME NEW allocs, NEW n, NEW w, Matches(allocs, n, w), NEW a \in DOMAIN allocs,
         NEW r, r.id = allocs[a].id, NEW y, Holding(y, a, r)
  PROVE  Matches(Put(allocs, a, r), n, Put(w, r.id, y))
<1> DEFINE more == Put(allocs, a, r)
           k == r.id
           u == Put(w, k, y)
<1>1. /\ DOMAIN more = DOMAIN allocs \cup {a} /\ more[a] = r
      /\ \A d \in DOMAIN allocs \ {a} : more[d] = allocs[d]
  BY DEF Put
<1>2. /\ DOMAIN u = DOMAIN w \cup {k} /\ u[k] = y
      /\ \A id \in DOMAIN w \ {k} : u[id] = w[id]
  BY DEF Put
<1>3. /\ n \in Nat /\ DOMAIN w = 0 .. (n - 1)
      /\ \A d \in DOMAIN allocs : allocs[d].id \in DOMAIN w /\ Holding(w[allocs[d].id], d, allocs[d])
      /\ \A d, b \in DOMAIN allocs : allocs[d].id = allocs[b].id => d = b
      /\ \A id \in DOMAIN w : w[id].gone = TRUE \/ \E d \in DOMAIN allocs : allocs[d].id = id
  BY DEF Matches
<1> HIDE DEF more, u
<1>4. k \in DOMAIN w /\ DOMAIN u = DOMAIN w /\ DOMAIN more = DOMAIN allocs
  <2>1. k \in DOMAIN w
    BY <1>3
  <2> QED
    BY <1>1, <1>2, <2>1
<1>5. \A d \in DOMAIN more : more[d].id \in DOMAIN u /\ Holding(u[more[d].id], d, more[d])
  BY <1>1, <1>2, <1>3, <1>4
<1>6. \A d, b \in DOMAIN more : more[d].id = more[b].id => d = b
  BY <1>1, <1>3, <1>4
<1>7. \A id \in DOMAIN u : u[id].gone = TRUE \/ \E d \in DOMAIN more : more[d].id = id
  BY <1>1, <1>2, <1>3, <1>4
<1>8. Matches(more, n, u)
  BY <1>3, <1>4, <1>5, <1>6, <1>7 DEF Matches
<1> QED
  BY <1>8 DEF more, u

LEMMA MatchesErase ==
  ASSUME NEW allocs, NEW n, NEW w, Matches(allocs, n, w), NEW a \in DOMAIN allocs,
         NEW y, y.gone = TRUE
  PROVE  Matches(Erase(allocs, a), n, Put(w, allocs[a].id, y))
<1> DEFINE less == Erase(allocs, a)
           k == allocs[a].id
           u == Put(w, k, y)
<1>1. /\ DOMAIN less = DOMAIN allocs \ {a}
      /\ \A d \in DOMAIN allocs \ {a} : less[d] = allocs[d]
  BY EraseIs
<1>2. /\ DOMAIN u = DOMAIN w \cup {k} /\ u[k] = y
      /\ \A id \in DOMAIN w \ {k} : u[id] = w[id]
  BY DEF Put
<1>3. /\ n \in Nat /\ DOMAIN w = 0 .. (n - 1)
      /\ \A d \in DOMAIN allocs : allocs[d].id \in DOMAIN w /\ Holding(w[allocs[d].id], d, allocs[d])
      /\ \A d, b \in DOMAIN allocs : allocs[d].id = allocs[b].id => d = b
      /\ \A id \in DOMAIN w : w[id].gone = TRUE \/ \E d \in DOMAIN allocs : allocs[d].id = id
  BY DEF Matches
<1> HIDE DEF less, u
<1>4. k \in DOMAIN w /\ DOMAIN u = DOMAIN w
  BY <1>2, <1>3
<1>5. \A d \in DOMAIN less : less[d].id \in DOMAIN u /\ Holding(u[less[d].id], d, less[d])
  BY <1>1, <1>2, <1>3, <1>4
<1>6. \A d, b \in DOMAIN less : less[d].id = less[b].id => d = b
  BY <1>1, <1>3
<1>7. \A id \in DOMAIN u : u[id].gone = TRUE \/ \E d \in DOMAIN less : less[d].id = id
  BY <1>1, <1>2, <1>3, <1>4
<1>8. Matches(less, n, u)
  BY <1>3, <1>4, <1>5, <1>6, <1>7 DEF Matches
<1> QED
  BY <1>8 DEF less, u

LEMMA IdIs == HeapIds \cup {NoHeap} \subseteq Int /\ Nat \subseteq Int
BY DEF NoHeap

LEMMA TypesAre ==
  /\ "HeapCreate" \in EventTypes /\ "HeapAddCore" \in EventTypes /\ "HeapAllocate" \in EventTypes
  /\ "HeapFree" \in EventTypes /\ "HeapRemoveCore" \in EventTypes
  /\ "HeapDestroy" \in EventTypes
BY DEF EventTypes

LEMMA PutTwice ==
  ASSUME NEW f, NEW k, NEW x, NEW y
  PROVE  Put(Put(f, k, x), k, y) = Put(f, k, y)
BY DEF Put

LEMMA WorldWritten ==
  ASSUME NEW w \in Worlds, NEW id \in DOMAIN w, NEW y \in Reports
  PROVE  /\ [w EXCEPT ![id] = y] = Put(w, id, y) /\ Put(w, id, y) \in Worlds
         /\ id \in HeapIds /\ w[id] \in Reports
<1>1. id \in HeapIds /\ w[id] \in Reports
  BY MapIs DEF Worlds
<1> QED
  BY <1>1, UpdateIsPut, PutMap DEF Worlds

\* What the events of the demo ask for in its world, and what they make of it.
LEMMA ConstructLeads ==
  ASSUME NEW w \in Worlds, NEW n \in HeapIds, NEW allocs, Matches(allocs, n, w),
         NEW a \in Names, a \notin DOMAIN allocs, NEW range \in Pointers,
         MemRange(a, range) \subseteq Pointers,
         NEW r, r.id = n, r.range = range, r.held = {},
         NEW e, e.type = "HeapCreate", e.id = n,
         NEW f, f.type = "HeapAddCore", f.id = n, f.pointer = range, f.size = MemSize(a)
  PROVE  /\ Legal(w, e) /\ Applied(w, e) \in Worlds
         /\ Legal(Applied(w, e), f) /\ Applied(Applied(w, e), f) \in Worlds
         /\ Matches(Put(allocs, a, r), n + 1, Applied(Applied(w, e), f))
<1> DEFINE size == MemSize(a)
<1>1. size \in Nat /\ size \in Sizes /\ size > 0 /\ range \in Nat
  <2>1. ElemSize[a] \in Nat /\ ElemSize[a] >= 1 /\ ElemCount[a] \in Nat /\ ElemCount[a] >= 1
    BY BlockNumbers
  <2>2. ElemSize[a] * ElemCount[a] >= 1
    BY <2>1
  <2> QED
    BY <2>1, <2>2, BlockNumbers, ConstantsNatural DEF MemSize
<1>2. e.type = "HeapCreate" /\ e.id = n
  OBVIOUS
<1>3. f.type = "HeapAddCore" /\ f.id = n /\ f.pointer = range /\ f.size = size
  OBVIOUS
<1>4. DOMAIN w = 0 .. (n - 1) /\ n \in Nat
  BY DEF Matches
<1>5. MayCreate(w, n)
  <2>1. n \notin DOMAIN w
    BY <1>4
  <2>2. \A id \in HeapIds : id < n => id \in DOMAIN w
    <3>1. HeapIds \subseteq Nat
      OBVIOUS
    <3> QED
      BY <1>4, <3>1
  <2> QED
    BY <2>1, <2>2 DEF MayCreate
<1> DEFINE v == Put(w, n, NewReport)
<1>6. Legal(w, e) /\ Applied(w, e) = v
  <2>1. Legal(w, e)
    BY <1>2, <1>5 DEF Legal
  <2>2. Applied(w, e) = Put(w, e.id, NewReport)
    BY <1>2, AppliedIs
  <2> QED
    BY <1>2, <2>1, <2>2
<1>7. v \in Worlds
  BY ReportMade, PutMap DEF Worlds
<1>8. n \in DOMAIN v /\ v[n] = NewReport
  BY DEF Put
<1> DEFINE c == Put(NewReport.cores, range, size)
           x == NewReport
           y == WithReportCores(x, c)
<1> HIDE DEF v, x
<1>9. c \in Maps(Pointers, Nat) /\ DOMAIN c = {range} /\ c[range] = size
  <2>1. x.cores \in Maps(Pointers, Nat) /\ DOMAIN x.cores = {}
    BY ReportMade, ReportFields DEF x
  <2>2. c = Put(x.cores, range, size)
    BY DEF x
  <2>3. c \in Maps(Pointers, Nat)
    BY <1>1, <2>1, <2>2, PutMap
  <2> HIDE DEF c
  <2> QED
    BY <2>1, <2>2, <2>3 DEF Put
<1> HIDE DEF c
<1>10. x \in Reports /\ x.gone = FALSE /\ x.closing = FALSE /\ DOMAIN x.live = {} /\ DOMAIN x.cores = {}
  BY ReportMade DEF x
<1>11. y \in Reports /\ y.cores = c /\ y.live = x.live /\ y.closing = x.closing /\ y.gone = x.gone
  BY <1>9, <1>10, ReportWritten
<1>12. [v EXCEPT ![n] = [v[n] EXCEPT !.cores = Put(@, range, size)]] = [v EXCEPT ![n] = y]
  <2>1. v[n] = x
    BY <1>8 DEF x
  <2> QED
    BY <2>1 DEF WithReportCores, c, x
<1> HIDE DEF y
<1>13. BytesAt(range, size) \subseteq Pointers
  BY DEF MemRange, BytesAt
<1>14. MayAddCore(v, n, range, size)
  <2>1. v[n] = x
    BY <1>8 DEF x
  <2> QED
    BY <1>1, <1>8, <1>10, <1>13, <2>1 DEF MayAddCore, Open, Standing
<1>15. Legal(v, f) /\ Applied(v, f) = [v EXCEPT ![n] = y]
  <2>1. Legal(v, f)
    BY <1>3, <1>14 DEF Legal
  <2>2. Applied(v, f) = [v EXCEPT ![f.id] =
                           [v[f.id] EXCEPT !.cores = Put(@, f.pointer, f.size)]]
    BY <1>3, AppliedIs
  <2>3. Applied(v, f) = [v EXCEPT ![n] = [v[n] EXCEPT !.cores = Put(@, range, size)]]
    BY <1>3, <2>2
  <2> QED
    BY <1>12, <2>1, <2>3
<1>16. Applied(v, f) = Put(v, n, y) /\ Put(v, n, y) \in Worlds
  BY <1>7, <1>8, <1>11, <1>15, WorldWritten
<1>17. Put(v, n, y) = Put(w, n, y)
  BY PutTwice DEF v
<1>18. Holding(y, a, r)
  BY <1>9, <1>10, <1>11 DEF Holding
<1>19. Matches(Put(allocs, a, r), n + 1, Put(w, n, y))
  BY <1>18, MatchesNew
<1> QED
  BY <1>6, <1>7, <1>15, <1>16, <1>17, <1>19

LEMMA DestructLeads ==
  ASSUME NEW w \in Worlds, NEW n, NEW allocs, Matches(allocs, n, w),
         NEW a \in DOMAIN allocs, a \in Names, allocs[a].held = {}, allocs[a].range \in Pointers,
         NEW e, e.type = "HeapRemoveCore", e.id = allocs[a].id, e.pointer = allocs[a].range,
         NEW f, f.type = "HeapDestroy", f.id = allocs[a].id
  PROVE  /\ Legal(w, e) /\ Applied(w, e) \in Worlds
         /\ Legal(Applied(w, e), f) /\ Applied(Applied(w, e), f) \in Worlds
         /\ Matches(Erase(allocs, a), n, Applied(Applied(w, e), f))
<1> DEFINE k == allocs[a].id
           b == allocs[a].range
           x == w[k]
<1>1. k \in DOMAIN w /\ Holding(x, a, allocs[a])
  BY DEF Matches
<1>2. k \in HeapIds /\ x \in Reports
  BY <1>1, MapIs DEF Worlds
<1> HIDE DEF k, b, x
<1>3. /\ x.gone = FALSE /\ DOMAIN x.cores = {b} /\ DOMAIN x.live = {}
  BY <1>1 DEF Holding, b
<1>4. MemSize(a) \in Nat /\ b \in Nat /\ b \in Pointers
  BY BlockNumbers, ConstantsNatural DEF b
<1>5. e.type = "HeapRemoveCore" /\ e.id = k /\ e.pointer = b
  BY DEF k, b
<1>6. f.type = "HeapDestroy" /\ f.id = k
  BY DEF k
<1>7. MayRemoveCore(w, k, b)
  BY <1>1, <1>2, <1>3, <1>4 DEF MayRemoveCore, Standing, x
<1> DEFINE c == Erase(x.cores, b)
           y == WithReportCores(x, c)
<1>8. c \in Maps(Pointers, Nat)
  BY <1>2, ReportFields, EraseMap
<1>9. y \in Reports /\ y.gone = FALSE
  BY <1>2, <1>3, <1>8, ReportWritten
<1>10. Legal(w, e) /\ Applied(w, e) = [w EXCEPT ![k] = y]
  <2>1. Legal(w, e)
    BY <1>5, <1>7 DEF Legal
  <2>2. Applied(w, e) = [w EXCEPT ![k] = [w[k] EXCEPT !.cores = Erase(@, b)]]
    BY <1>5, AppliedIs
  <2> QED
    BY <2>1, <2>2 DEF WithReportCores, x
<1> HIDE DEF y
<1> DEFINE v == Put(w, k, y)
<1>11. Applied(w, e) = v /\ v \in Worlds
  BY <1>1, <1>9, <1>10, WorldWritten
<1>12. k \in DOMAIN v /\ v[k] = y
  BY DEF Put
<1> HIDE DEF v
<1> DEFINE z == WithReportGone(y)
<1>13. z \in Reports /\ z.gone = TRUE
  BY <1>9, ReportWritten
<1>14. Legal(v, f) /\ Applied(v, f) = [v EXCEPT ![k] = z]
  <2>1. Standing(v, k)
    BY <1>2, <1>9, <1>12 DEF Standing
  <2>2. Legal(v, f)
    BY <1>6, <2>1 DEF Legal
  <2>3. Applied(v, f) = [v EXCEPT ![k] = [v[k] EXCEPT !.gone = TRUE]]
    BY <1>6, AppliedIs
  <2> QED
    BY <1>12, <2>2, <2>3 DEF WithReportGone
<1> HIDE DEF z
<1>15. Applied(v, f) = Put(v, k, z) /\ Put(v, k, z) \in Worlds
  BY <1>11, <1>12, <1>13, <1>14, WorldWritten
<1>16. Put(v, k, z) = Put(w, k, z)
  BY PutTwice DEF v
<1>17. Matches(Erase(allocs, a), n, Put(w, k, z))
  BY <1>13, MatchesErase DEF k
<1> QED
  BY <1>10, <1>11, <1>14, <1>15, <1>16, <1>17

LEMMA BlocksApart ==
  ASSUME NEW a \in Names, NEW range \in Nat, NEW p \in HeadersAt(a, range)
  PROVE  /\ BytesAt(p, ElemSize[a]) \subseteq BytesAt(range, MemSize(a))
         /\ \A q \in HeadersAt(a, range) \ {p} :
              BytesAt(p, ElemSize[a]) \cap BytesAt(q, ElemSize[a]) = {}
<1> DEFINE e == ElemSize[a]
           m == MemSize(a)
           heads == HeadersAt(a, range)
<1>1. e \in Nat /\ m \in Nat
  BY BlockNumbers
<1>2. /\ \A b \in heads : b \in Nat /\ range <= b /\ b + e <= range + m
      /\ \A b \in heads, d \in heads : b < d => b + e <= d
  BY Headed
<1> HIDE DEF e, m, heads
<1>3. \A b \in Nat, s \in Nat :
        \A y : y \in BytesAt(b, s) <=> y \in Int /\ b <= y /\ y < b + s
  BY DEF BytesAt
<1>4. p \in heads
  BY DEF heads
<1>5. BytesAt(p, e) \subseteq BytesAt(range, m)
  <2> SUFFICES ASSUME NEW y \in BytesAt(p, e)
               PROVE  y \in BytesAt(range, m)
    OBVIOUS
  <2>1. p \in Nat /\ range <= p /\ p + e <= range + m
    BY <1>2, <1>4
  <2>2. y \in Int /\ p <= y /\ y < p + e
    BY <1>1, <1>3, <2>1
  <2>3. range <= y /\ y < range + m
    BY <1>1, <2>1, <2>2
  <2> QED
    BY <1>1, <1>3, <2>2, <2>3
<1>6. \A q \in heads \ {p} : BytesAt(p, e) \cap BytesAt(q, e) = {}
  <2> SUFFICES ASSUME NEW q \in heads, q # p, NEW y \in BytesAt(p, e), y \in BytesAt(q, e)
               PROVE  FALSE
    OBVIOUS
  <2>1. p \in Nat /\ q \in Nat
    BY <1>2, <1>4
  <2>2. y \in Int /\ p <= y /\ y < p + e /\ q <= y /\ y < q + e
    BY <1>1, <1>3, <2>1
  <2>3. p + e <= q \/ q + e <= p
    BY <1>2, <1>4, <2>1
  <2> QED
    BY <1>1, <2>1, <2>2, <2>3
<1> QED
  BY <1>5, <1>6 DEF e, m, heads

LEMMA AllocLeads ==
  ASSUME NEW w \in Worlds, NEW n, NEW allocs, Matches(allocs, n, w),
         NEW a \in DOMAIN allocs, a \in Names, Whole(a, allocs[a]),
         NEW p, p = allocs[a].free_list, p # nullptr,
         NEW e, e.type = "HeapAllocate", e.id = allocs[a].id, e.pointer = p, e.size = ElemSize[a]
  PROVE  /\ Legal(w, e) /\ Applied(w, e) \in Worlds
         /\ Matches(Put(allocs, a, Given(allocs[a])), n, Applied(w, e))
<1> DEFINE r == allocs[a]
           k == r.id
           x == w[k]
           s == ElemSize[a]
           q == Given(r)
<1>1. k \in DOMAIN w /\ Holding(x, a, r)
  BY DEF Matches
<1>2. k \in HeapIds /\ x \in Reports
  BY <1>1, MapIs DEF Worlds
<1>3. Whole(a, r) /\ r.free_list # nullptr
  OBVIOUS
<1>4. s \in Nat /\ s >= 1 /\ s \in Sizes
  BY BlockNumbers
<1>5. e.type = "HeapAllocate" /\ e.id = k /\ e.pointer = p /\ e.size = s
  OBVIOUS
<1> HIDE DEF r, k, x, s, q
<1>6. /\ x.gone = FALSE /\ x.closing = FALSE
      /\ DOMAIN x.cores = {r.range} /\ x.cores[r.range] = MemSize(a)
      /\ DOMAIN x.live = r.held
      /\ \A b \in r.held : x.live[b].size = s /\ x.live[b].owned = TRUE
  BY <1>1 DEF Holding, s
<1>7. r \in Allocators /\ r.held \subseteq HeadersAt(a, r.range)
  BY <1>3 DEF Whole
<1>8. r.range \in Nat /\ p \in Pointers
  BY <1>7, AllocatorFields DEF r
<1>9. /\ p \in HeadersAt(a, r.range) \ r.held /\ q.held = r.held \cup {p}
      /\ q.range = r.range /\ q.id = k
  BY <1>3, GivenWhole DEF q, r, k
<1>10. MayAllocate(w, k, p, s)
  <2>1. /\ BytesAt(p, s) \subseteq BytesAt(r.range, x.cores[r.range])
        /\ \A b \in r.held : BytesAt(p, s) \cap BytesAt(b, s) = {}
    BY <1>6, <1>7, <1>8, <1>9, BlocksApart DEF s
  <2>2. \A b \in DOMAIN x.live : BytesAt(p, s) \cap BytesAt(b, x.live[b].size) = {}
    BY <1>6, <2>1
  <2>3. Open(w, k)
    BY <1>1, <1>2, <1>6 DEF Open, Standing, x
  <2> QED
    BY <1>4, <1>6, <1>8, <2>1, <2>2, <2>3 DEF MayAllocate, x
<1> DEFINE block == [size |-> s, owned |-> TRUE]
           l == Put(x.live, p, block)
           y == WithReportLive(x, l)
<1>11. Legal(w, e) /\ Applied(w, e) = [w EXCEPT ![k] = y]
  <2>1. Legal(w, e)
    BY <1>5, <1>10 DEF Legal
  <2>2. Applied(w, e) = [w EXCEPT ![e.id] =
          [w[e.id] EXCEPT !.live = Put(@, e.pointer, [size |-> e.size, owned |-> TRUE])]]
    BY <1>5, AppliedIs
  <2> QED
    BY <1>5, <2>1, <2>2 DEF WithReportLive, x
<1>12. block \in LiveBlocks /\ block.size = s /\ block.owned = TRUE
  BY <1>4 DEF LiveBlocks
<1> HIDE DEF block
<1>13. l \in Maps(Pointers, LiveBlocks)
  BY <1>2, <1>8, <1>12, ReportFields, PutMap
<1>14. /\ DOMAIN l = DOMAIN x.live \cup {p} /\ l[p] = block
       /\ \A b \in DOMAIN x.live \ {p} : l[b] = x.live[b]
  BY DEF Put
<1> HIDE DEF l
<1>15. /\ y \in Reports /\ y.live = l /\ y.cores = x.cores
       /\ y.closing = x.closing /\ y.gone = x.gone
  BY <1>2, <1>13, ReportWritten
<1> HIDE DEF y
<1>16. Applied(w, e) = Put(w, k, y) /\ Put(w, k, y) \in Worlds
  BY <1>1, <1>11, <1>15, WorldWritten
<1>17. Holding(y, a, q)
  BY <1>6, <1>9, <1>12, <1>14, <1>15 DEF Holding, s
<1>18. Matches(Put(allocs, a, q), n, Put(w, k, y))
  <2>1. q.id = allocs[a].id
    BY <1>9 DEF k, r
  <2>2. Matches(Put(allocs, a, q), n, Put(w, q.id, y))
    BY <1>17, <2>1, MatchesPut
  <2> QED
    BY <1>9, <2>2
<1> QED
  BY <1>11, <1>16, <1>18 DEF q, r

LEMMA FreeLeads ==
  ASSUME NEW w \in Worlds, NEW n, NEW allocs, Matches(allocs, n, w),
         NEW a \in DOMAIN allocs, a \in Names, Whole(a, allocs[a]), NEW p \in allocs[a].held,
         NEW next, next = [allocs[a].next EXCEPT ![p] = allocs[a].free_list],
         NEW e, e.type = "HeapFree", e.id = allocs[a].id, e.pointer = p
  PROVE  /\ Legal(w, e) /\ Applied(w, e) \in Worlds
         /\ Matches(Put(allocs, a, GivenBack(allocs[a], p, next)), n, Applied(w, e))
<1> DEFINE r == allocs[a]
           k == r.id
           x == w[k]
           q == GivenBack(r, p, next)
<1>1. k \in DOMAIN w /\ Holding(x, a, r)
  BY DEF Matches
<1>2. k \in HeapIds /\ x \in Reports
  BY <1>1, MapIs DEF Worlds
<1>3. Whole(a, r) /\ p \in r.held /\ next = [r.next EXCEPT ![p] = r.free_list]
  OBVIOUS
<1>4. q.held = r.held \ {p} /\ q.range = r.range /\ q.id = k
  BY GivenBackWhole
<1>5. e.type = "HeapFree" /\ e.id = k /\ e.pointer = p
  OBVIOUS
<1> HIDE DEF r, k, x, q
<1>6. /\ x.gone = FALSE /\ x.closing = FALSE
      /\ DOMAIN x.cores = {r.range} /\ x.cores[r.range] = MemSize(a)
      /\ DOMAIN x.live = r.held
      /\ \A b \in r.held : x.live[b].size = ElemSize[a] /\ x.live[b].owned = TRUE
  BY <1>1 DEF Holding
<1>7. r \in Allocators
  BY <1>3 DEF Whole
<1>8. p \in Pointers
  BY <1>3, <1>7, AllocatorFields
<1>9. MayFree(w, k, p)
  BY <1>1, <1>2, <1>3, <1>6, <1>8 DEF MayFree, Open, Standing, x
<1> DEFINE l == Erase(x.live, p)
           y == WithReportLive(x, l)
<1>10. Legal(w, e) /\ Applied(w, e) = [w EXCEPT ![k] = y]
  <2>1. Legal(w, e)
    BY <1>5, <1>9 DEF Legal
  <2>2. Applied(w, e) = [w EXCEPT ![e.id] = [w[e.id] EXCEPT !.live = Erase(@, e.pointer)]]
    BY <1>5, AppliedIs
  <2> QED
    BY <1>5, <2>1, <2>2 DEF WithReportLive, x
<1>11. l \in Maps(Pointers, LiveBlocks)
  BY <1>2, ReportFields, EraseMap
<1>12. /\ DOMAIN l = DOMAIN x.live \ {p}
       /\ \A b \in DOMAIN x.live \ {p} : l[b] = x.live[b]
  BY DEF Erase, Restrict
<1> HIDE DEF l
<1>13. /\ y \in Reports /\ y.live = l /\ y.cores = x.cores
       /\ y.closing = x.closing /\ y.gone = x.gone
  BY <1>2, <1>11, ReportWritten
<1> HIDE DEF y
<1>14. Applied(w, e) = Put(w, k, y) /\ Put(w, k, y) \in Worlds
  BY <1>1, <1>10, <1>13, WorldWritten
<1>15. Holding(y, a, q)
  BY <1>4, <1>6, <1>12, <1>13 DEF Holding
<1>16. Matches(Put(allocs, a, q), n, Put(w, k, y))
  <2>1. q.id = allocs[a].id
    BY <1>4 DEF k, r
  <2>2. Matches(Put(allocs, a, q), n, Put(w, q.id, y))
    BY <1>15, <2>1, MatchesPut
  <2> QED
    BY <1>4, <2>2
<1> QED
  BY <1>10, <1>14, <1>16 DEF q, r

-----------------------------------------------------------------------------
(***************************************************************************)
(* The invariant: the events on their way lead from what the tool knows to *)
(* a world, which is that of the allocators as long as there is a          *)
(* connection.                                                             *)
(***************************************************************************)
OnTheWay(w, tr, connected, allocs, n) ==
  /\ tr \in Seq(Events) /\ connected \in BOOLEAN
  /\ \E v : Leads(w, tr, v) /\ (connected => Matches(allocs, n, v))

Tracked == OnTheWay(reported, trace, active, allocators, next_heap_id)

DemoInvariant == AllWhole /\ Tracked

LEMMA OneReported ==
  ASSUME DemoInvariant, NEW e \in Events, Report(<<e>>), reported' = reported,
         \A v \in Worlds : active /\ Matches(allocators, next_heap_id, v) =>
           /\ Legal(v, e) /\ Applied(v, e) \in Worlds
           /\ Matches(allocators', next_heap_id', Applied(v, e))
  PROVE  Tracked'
<1>1. trace \in Seq(Events) /\ active \in BOOLEAN
  BY DEF DemoInvariant, Tracked, OnTheWay
<1>2. PICK v : Leads(reported, trace, v) /\ (active => Matches(allocators, next_heap_id, v))
  BY DEF DemoInvariant, Tracked, OnTheWay
<1>3. v \in Worlds
  BY <1>1, <1>2, LeadsWithin
<1>4. active' \in BOOLEAN
  BY <1>1, ReportOne
<1>5. CASE ~active' /\ trace' = trace
  BY <1>1, <1>2, <1>4, <1>5 DEF Tracked, OnTheWay
<1>6. CASE active /\ active' /\ trace' = Append(trace, e)
  <2>1. /\ Legal(v, e) /\ Applied(v, e) \in Worlds
        /\ Matches(allocators', next_heap_id', Applied(v, e))
    BY <1>2, <1>3, <1>6
  <2>2. Leads(reported, Append(trace, e), Applied(v, e))
    BY <1>1, <1>2, <2>1, LeadsFurther
  <2>3. trace' \in Seq(Events)
    BY <1>1, <1>6
  <2> QED
    BY <1>4, <1>6, <2>1, <2>2, <2>3 DEF Tracked, OnTheWay
<1> QED
  BY <1>1, <1>5, <1>6, ReportOne

LEMMA TwoReported ==
  ASSUME DemoInvariant, NEW e \in Events, NEW f \in Events, Report(<<e, f>>), reported' = reported,
         \A v \in Worlds : active /\ Matches(allocators, next_heap_id, v) =>
           /\ Legal(v, e) /\ Applied(v, e) \in Worlds
           /\ Legal(Applied(v, e), f) /\ Applied(Applied(v, e), f) \in Worlds
           /\ Matches(allocators', next_heap_id', Applied(Applied(v, e), f))
  PROVE  Tracked'
<1>1. trace \in Seq(Events) /\ active \in BOOLEAN
  BY DEF DemoInvariant, Tracked, OnTheWay
<1>2. PICK v : Leads(reported, trace, v) /\ (active => Matches(allocators, next_heap_id, v))
  BY DEF DemoInvariant, Tracked, OnTheWay
<1>3. v \in Worlds
  BY <1>1, <1>2, LeadsWithin
<1>4. active' \in BOOLEAN
  BY <1>1, ReportTwo
<1>5. CASE ~active' /\ trace' = trace
  BY <1>1, <1>2, <1>4, <1>5 DEF Tracked, OnTheWay
<1> DEFINE u == Applied(v, e)
           z == Applied(u, f)
           once == Append(trace, e)
           twice == Append(once, f)
<1>6. once \in Seq(Events) /\ twice \in Seq(Events)
  BY <1>1
<1>7. ASSUME active
      PROVE  /\ Leads(reported, once, u) /\ Leads(reported, twice, z)
             /\ Matches(allocators', next_heap_id', z)
  <2>1. /\ Legal(v, e) /\ u \in Worlds /\ Legal(u, f) /\ z \in Worlds
        /\ Matches(allocators', next_heap_id', z)
    BY <1>2, <1>3, <1>7
  <2>2. Leads(reported, once, u)
    BY <1>1, <1>2, <2>1, LeadsFurther
  <2> HIDE DEF u, once
  <2>3. Leads(reported, twice, z)
    BY <1>6, <2>1, <2>2, LeadsFurther
  <2> QED
    BY <2>1, <2>2, <2>3
<1> HIDE DEF u, z
<1>8. CASE active /\ ~active' /\ trace' = once
  BY <1>4, <1>6, <1>7, <1>8 DEF Tracked, OnTheWay
<1>9. CASE active /\ active' /\ trace' = twice
  BY <1>4, <1>6, <1>7, <1>9 DEF Tracked, OnTheWay
<1> QED
  BY <1>1, <1>5, <1>8, <1>9, ReportTwo

LEMMA ConstructKeeps ==
  ASSUME DemoInvariant, NEW a \in Names, NEW range \in Ranges, Construct(a, range)
  PROVE  Tracked'
<1> DEFINE id == IF active THEN next_heap_id ELSE NoHeap
           r == Made(range, id, HeaderOf(a, range)[0], LinkedFrom(a, range, HeaderOf(a, range)))
           e == Event("HeapCreate", id, 0, 0)
           f == Event("HeapAddCore", id, range, MemSize(a))
<1>1. allocators' = Put(allocators, a, r)
  BY ConstructMakes
<1>2. /\ a \notin DOMAIN allocators /\ MemRange(a, range) \subseteq Pointers
      /\ active => next_heap_id \in HeapIds
      /\ Report(<<e, f>>) /\ reported' = reported
      /\ next_heap_id' = IF active THEN next_heap_id + 1 ELSE next_heap_id
  BY DEF Construct, Quiet
<1>3. id \in HeapIds \cup {NoHeap} /\ (active => id = next_heap_id)
  BY <1>2
<1>4. r.id = id /\ r.range = range /\ r.held = {}
  BY DEF Made
<1>5. range \in Pointers /\ range \in Nat /\ MemSize(a) \in Nat
  BY BlockNumbers, ConstantsNatural
<1> HIDE DEF id, r
<1>6. e \in Events /\ e.type = "HeapCreate" /\ e.id = id
  BY <1>3, TypesAre, IdIs DEF Event, Events
<1>7. /\ f \in Events /\ f.type = "HeapAddCore" /\ f.id = id
      /\ f.pointer = range /\ f.size = MemSize(a)
  BY <1>3, <1>5, TypesAre, IdIs DEF Event, Events
<1> HIDE DEF e, f
<1>8. ASSUME NEW v \in Worlds, active, Matches(allocators, next_heap_id, v)
      PROVE  /\ Legal(v, e) /\ Applied(v, e) \in Worlds
             /\ Legal(Applied(v, e), f) /\ Applied(Applied(v, e), f) \in Worlds
             /\ Matches(allocators', next_heap_id', Applied(Applied(v, e), f))
  <2> DEFINE n == next_heap_id
  <2>1. n \in HeapIds /\ r.id = n /\ e.id = n /\ f.id = n /\ next_heap_id' = n + 1
    BY <1>2, <1>3, <1>4, <1>6, <1>7, <1>8
  <2> HIDE DEF n
  <2>2. Matches(allocators, n, v)
    BY <1>8 DEF n
  <2>3. /\ Legal(v, e) /\ Applied(v, e) \in Worlds
        /\ Legal(Applied(v, e), f) /\ Applied(Applied(v, e), f) \in Worlds
        /\ Matches(Put(allocators, a, r), n + 1, Applied(Applied(v, e), f))
    BY <1>2, <1>4, <1>5, <1>6, <1>7, <2>1, <2>2, ConstructLeads
  <2> QED
    BY <1>1, <2>1, <2>3
<1> QED
  BY <1>2, <1>6, <1>7, <1>8, TwoReported

LEMMA DestructKeeps ==
  ASSUME DemoInvariant, NEW a \in Names, Destruct(a)
  PROVE  Tracked'
<1> DEFINE r == allocators[a]
           e == Event("HeapRemoveCore", r.id, r.range, MemSize(a))
           f == Event("HeapDestroy", r.id, 0, 0)
<1>1. /\ a \in DOMAIN allocators /\ r.held = {}
      /\ Report(<<e, f>>) /\ reported' = reported
      /\ allocators' = Erase(allocators, a) /\ next_heap_id' = next_heap_id
  BY DEF Destruct, Quiet
<1>2. r \in Allocators
  BY <1>1 DEF DemoInvariant, AllWhole, Whole
<1>3. r.id \in HeapIds \cup {NoHeap} /\ r.range \in Pointers /\ r.range \in Nat /\ MemSize(a) \in Nat
  BY <1>2, AllocatorFields, BlockNumbers
<1>4. e \in Events /\ e.type = "HeapRemoveCore" /\ e.id = r.id /\ e.pointer = r.range
  BY <1>3, TypesAre, IdIs DEF Event, Events
<1>5. f \in Events /\ f.type = "HeapDestroy" /\ f.id = r.id
  BY <1>3, TypesAre, IdIs DEF Event, Events
<1> HIDE DEF e, f
<1>6. ASSUME NEW v \in Worlds, active, Matches(allocators, next_heap_id, v)
      PROVE  /\ Legal(v, e) /\ Applied(v, e) \in Worlds
             /\ Legal(Applied(v, e), f) /\ Applied(Applied(v, e), f) \in Worlds
             /\ Matches(allocators', next_heap_id', Applied(Applied(v, e), f))
  BY <1>1, <1>3, <1>4, <1>5, <1>6, DestructLeads
<1> QED
  BY <1>1, <1>4, <1>5, <1>6, TwoReported

LEMMA AllocKeeps ==
  ASSUME DemoInvariant, NEW a \in Names, Alloc(a)
  PROVE  Tracked'
<1> DEFINE r == allocators[a]
           p == r.free_list
           e == Event("HeapAllocate", r.id, p, ElemSize[a])
<1>1. /\ a \in DOMAIN allocators /\ Whole(a, r) /\ p # nullptr
      /\ allocators' = Put(allocators, a, Given(r))
  BY AllocGives DEF DemoInvariant
<1>2. Report(<<e>>) /\ reported' = reported /\ next_heap_id' = next_heap_id
  BY DEF Alloc, Quiet
<1>3. r \in Allocators
  BY <1>1 DEF Whole
<1>4. r.id \in HeapIds \cup {NoHeap} /\ p \in Nat /\ ElemSize[a] \in Nat
  <2>1. p \in Pointers
    BY <1>1, <1>3, AllocatorFields
  <2> QED
    BY <1>3, <2>1, AllocatorFields, BlockNumbers, ConstantsNatural
<1>5. /\ e \in Events /\ e.type = "HeapAllocate" /\ e.id = r.id
      /\ e.pointer = p /\ e.size = ElemSize[a]
  BY <1>4, TypesAre, IdIs DEF Event, Events
<1> HIDE DEF e
<1>6. ASSUME NEW v \in Worlds, active, Matches(allocators, next_heap_id, v)
      PROVE  /\ Legal(v, e) /\ Applied(v, e) \in Worlds
             /\ Matches(allocators', next_heap_id', Applied(v, e))
  BY <1>1, <1>2, <1>5, <1>6, AllocLeads
<1> QED
  BY <1>2, <1>5, <1>6, OneReported

LEMMA FreeKeepsTrack ==
  ASSUME DemoInvariant, NEW a \in DOMAIN allocators, NEW ptr \in allocators[a].held,
         FreeBlock(a, ptr)
  PROVE  Tracked'
<1> DEFINE r == allocators[a]
           next == [r.next EXCEPT ![ptr] = r.free_list]
           e == Event("HeapFree", r.id, ptr, 0)
<1>1. Whole(a, r) /\ allocators' = Put(allocators, a, GivenBack(r, ptr, next))
  BY FreeGivesBack DEF DemoInvariant
<1>2. Report(<<e>>) /\ reported' = reported /\ next_heap_id' = next_heap_id
  BY DEF FreeBlock, Quiet
<1>3. r \in Allocators /\ a \in Names
  BY <1>1 DEF Whole, DemoInvariant, AllWhole
<1>4. r.id \in HeapIds \cup {NoHeap} /\ ptr \in Nat
  BY <1>3, AllocatorFields, ConstantsNatural
<1>5. e \in Events /\ e.type = "HeapFree" /\ e.id = r.id /\ e.pointer = ptr
  BY <1>4, TypesAre, IdIs DEF Event, Events
<1> HIDE DEF e, next
<1>6. ASSUME NEW v \in Worlds, active, Matches(allocators, next_heap_id, v)
      PROVE  /\ Legal(v, e) /\ Applied(v, e) \in Worlds
             /\ Matches(allocators', next_heap_id', Applied(v, e))
  <2>1. next = [allocators[a].next EXCEPT ![ptr] = allocators[a].free_list]
    BY DEF next
  <2> QED
    BY <1>1, <1>2, <1>3, <1>5, <1>6, <2>1, FreeLeads
<1> QED
  BY <1>2, <1>5, <1>6, OneReported

\* What the tool handles was to come, and what is still to come leads on.
LEMMA HandleKeeps ==
  ASSUME DemoInvariant, NEW t, Handle(t)
  PROVE  /\ Legal(reported, Head(trace))
         /\ Tracked'
<1>1. /\ trace # <<>> /\ reported' = Applied(reported, Head(trace))
      /\ trace' = Tail(trace) /\ active' = active /\ allocators' = allocators
      /\ next_heap_id' = next_heap_id
  BY HandleIs
<1>2. trace \in Seq(Events) /\ active \in BOOLEAN
  BY DEF DemoInvariant, Tracked, OnTheWay
<1>3. PICK v : Leads(reported, trace, v) /\ (active => Matches(allocators, next_heap_id, v))
  BY DEF DemoInvariant, Tracked, OnTheWay
<1>4. Legal(reported, Head(trace)) /\ Leads(Applied(reported, Head(trace)), Tail(trace), v)
  BY <1>1, <1>2, <1>3, LeadsFirst
<1>5. Tail(trace) \in Seq(Events)
  BY <1>1, <1>2
<1> QED
  BY <1>1, <1>2, <1>3, <1>4, <1>5 DEF Tracked, OnTheWay

LEMMA DemoInvariantKept ==
  /\ DemoInit => DemoInvariant
  /\ DemoInvariant /\ [DemoNext]_demoVars => DemoInvariant'
<1>1. ASSUME DemoInit
      PROVE  DemoInvariant
  <2>1. /\ reported = Empty /\ trace = <<>> /\ active = TRUE /\ allocators = Empty
        /\ next_heap_id = 0
    BY <1>1 DEF DemoInit
  <2>2. Empty \in Worlds /\ DOMAIN Empty = {}
    BY EmptyIs DEF Worlds
  <2>3. Matches(Empty, 0, Empty)
    <3>1. 0 .. (0 - 1) = {}
      OBVIOUS
    <3> QED
      BY <2>2, <3>1 DEF Matches
  <2>4. Leads(Empty, <<>>, Empty)
    BY <2>2, LeadsNowhere
  <2>5. <<>> \in Seq(Events)
    OBVIOUS
  <2>6. Tracked
    BY <2>1, <2>3, <2>4, <2>5 DEF Tracked, OnTheWay
  <2> QED
    BY <1>1, <2>6, WholeKept DEF DemoInvariant
<1>2. ASSUME DemoInvariant, [DemoNext]_demoVars
      PROVE  DemoInvariant'
  <2>1. AllWhole'
    BY <1>2, WholeKept DEF DemoInvariant
  <2>2. ASSUME NEW a \in Names, NEW range \in Ranges, Construct(a, range)
        PROVE  Tracked'
    BY <1>2, <2>2, ConstructKeeps
  <2>3. ASSUME NEW a \in Names, Destruct(a)
        PROVE  Tracked'
    BY <1>2, <2>3, DestructKeeps
  <2>4. ASSUME NEW a \in Names, Alloc(a)
        PROVE  Tracked'
    BY <1>2, <2>4, AllocKeeps
  <2>5. ASSUME NEW a \in DOMAIN allocators, NEW ptr \in allocators[a].held, FreeBlock(a, ptr)
        PROVE  Tracked'
    BY <1>2, <2>5, FreeKeepsTrack
  <2>6. ASSUME NEW t, Handle(t)
        PROVE  Tracked'
    BY <1>2, <2>6, HandleKeeps
  <2>7. ASSUME UNCHANGED demoVars
        PROVE  Tracked'
    <3>1. /\ reported' = reported /\ trace' = trace /\ active' = active
          /\ allocators' = allocators /\ next_heap_id' = next_heap_id
      BY <2>7 DEF demoVars
    <3>2. Tracked
      BY <1>2 DEF DemoInvariant
    <3> QED
      BY <3>1, <3>2 DEF Tracked, OnTheWay
  <2>8. Tracked'
    <3>1. DemoNext \/ UNCHANGED demoVars
      BY <1>2
    <3>2. CASE DemoNext
      BY <2>2, <2>3, <2>4, <2>5, <2>6, <3>2 DEF DemoNext
    <3> QED
      BY <2>7, <3>1, <3>2
  <2> QED
    BY <2>1, <2>8 DEF DemoInvariant
<1> QED
  BY <1>1, <1>2

LEMMA DemoAlways == DemoSpec => []DemoInvariant
BY DemoInvariantKept, PTL DEF DemoSpec

\* Every step of the demo is one of such a program with the tool, or leaves
\* the tool and what was reported as they are.
LEMMA DemoStepIsTraced ==
  DemoInvariant /\ [DemoNext]_demoVars =>
    [Traced!TNext]_(Traced!tracedVars) /\ [P!TNext]_(P!tracedVars)
<1> SUFFICES ASSUME DemoInvariant, [DemoNext]_demoVars
             PROVE  [Traced!TNext]_(Traced!tracedVars) /\ [P!TNext]_(P!tracedVars)
  OBVIOUS
<1>1. CASE Quiet
  BY <1>1 DEF Quiet, vars, Traced!tracedVars, Traced!vars, P!tracedVars, P!vars
<1>2. ASSUME NEW t \in {s \in Times : s >= last_update}, Handle(t)
      PROVE  Traced!TNext /\ P!TNext
  BY <1>2, HandleKeeps, HandleTraced
<1>3. ASSUME NEW a \in Names, NEW range \in Ranges, Construct(a, range)
      PROVE  Quiet
  BY <1>3 DEF Construct
<1>4. ASSUME NEW a \in Names, Destruct(a)
      PROVE  Quiet
  BY <1>4 DEF Destruct
<1>5. ASSUME NEW a \in Names, Alloc(a)
      PROVE  Quiet
  BY <1>5 DEF Alloc
<1>6. ASSUME NEW a \in DOMAIN allocators, NEW ptr \in allocators[a].held, FreeBlock(a, ptr)
      PROVE  Quiet
  BY <1>6 DEF FreeBlock
<1>7. CASE UNCHANGED demoVars
  BY <1>1, <1>7 DEF demoVars, Quiet
<1> QED
  BY <1>1, <1>2, <1>3, <1>4, <1>5, <1>6, <1>7 DEF DemoNext

\* UsesTraceProperly: the demo reports its heaps in the way TracedHeaps.tla
\* asks of a program, whatever blocks it takes and gives back in whatever
\* order, also when the connection breaks in the middle of a report
\* (BlockAllocator of DemoMain.cpp:16-95 over the event functions).
THEOREM DemoUsesTraceProperly == DemoSpec => UsesTraceProperly
<1>1. DemoInit => Traced!TInit
  BY DEF DemoInit, Init, Empty, Traced!TInit, Traced!Init, Traced!Empty
<1>2. DemoInvariant /\ [DemoNext]_demoVars => [Traced!TNext]_(Traced!tracedVars)
  BY DemoStepIsTraced
<1> QED
  BY <1>1, <1>2, DemoAlways, PTL DEF DemoSpec, UsesTraceProperly, Traced!TSpec

-----------------------------------------------------------------------------
(***************************************************************************)
(* What the tool shows of the demo.  The assumptions of the proofs about   *)
(* such a program hold here.                                               *)
(***************************************************************************)
LEMMA ProgramIsTraced == P!ConstantsAssumption /\ P!ProgramAssumption
<1>1. P!ConstantsAssumption
  BY DEF ConstantsAssumption, P!ConstantsAssumption
<1>2. P!ProgramAssumption
  BY DEF BlockAssumption, P!ProgramAssumption
<1> QED
  BY <1>1, <1>2

LEMMA SameHeaps == P!Heaps = Heaps /\ P!Truths = Reports
<1>1. /\ \A Key, Value : P!Maps(Key, Value) = Maps(Key, Value)
      /\ P!Size = Size
  BY DEF Maps, P!Maps, Size, P!Size
<1>2. P!Usages = Usages /\ P!Cores = Cores
  BY <1>1 DEF Usages, P!Usages, Cores, P!Cores
<1>3. P!Heaps = Heaps
  BY <1>1, <1>2 DEF Heaps, P!Heaps
<1>4. P!Blocks = LiveBlocks
  BY DEF LiveBlocks, P!Blocks
<1> QED
  BY <1>1, <1>3, <1>4 DEF Reports, P!Truths

\* A heap that holds blocks of one size.
LEMMA ShownOf ==
  ASSUME NEW h, NEW x, P!Paired(h, x), NEW a \in Names, NEW r, Holding(x, a, r)
  PROVE  /\ h.used = ElemSize[a] * Cardinality(r.held) /\ h.managed = MemSize(a)
         /\ DOMAIN h.alloc_to_core = r.held
<1>1. x \in P!Truths /\ P!WellFormed(x) /\ P!Follows(h, x) /\ (~x.closing => P!Records(h, x))
  BY DEF P!Paired
<1>2. /\ x.closing = FALSE /\ DOMAIN x.cores = {r.range} /\ x.cores[r.range] = MemSize(a)
      /\ DOMAIN x.live = r.held
      /\ \A b \in r.held : x.live[b].size = ElemSize[a] /\ x.live[b].owned = TRUE
  BY DEF Holding
<1>3. P!Records(h, x)
  BY <1>1, <1>2
<1>4. ElemSize[a] \in Nat /\ MemSize(a) \in Nat
  BY BlockNumbers
<1>5. P!IsFiniteSet(DOMAIN x.live) /\ P!IsFiniteSet(DOMAIN x.cores)
  BY <1>1, ProgramIsTraced, P!LiveNumbers, P!CoreNumbers
<1>6. h.used = ElemSize[a] * Cardinality(r.held)
  <2>1. h.used = P!Total(P!SizesOf(x.live))
    BY <1>3 DEF P!Records
  <2>2. P!SizesOf(x.live) = [b \in r.held |-> ElemSize[a]]
    BY <1>2 DEF P!SizesOf
  <2>3. P!Total([b \in r.held |-> ElemSize[a]]) = ElemSize[a] * P!Cardinality(r.held)
    BY <1>2, <1>4, <1>5, ProgramIsTraced, P!TotalConstant
  <2> QED
    BY <2>1, <2>2, <2>3, SameCardinality
<1>7. h.managed = MemSize(a)
  <2>1. h.managed = P!Total(x.cores)
    BY <1>1 DEF P!Follows
  <2>2. x.cores \in P!Maps(Pointers, Nat)
    BY <1>1, P!TruthFields
  <2>3. x.cores = [b \in DOMAIN x.cores |-> x.cores[b]]
    BY <2>2, P!MapIs
  <2>4. x.cores = [b \in {r.range} |-> MemSize(a)]
    BY <1>2, <2>3
  <2>5. P!Total([b \in {r.range} |-> MemSize(a)]) = MemSize(a) * P!Cardinality({r.range})
    BY <1>2, <1>4, <1>5, ProgramIsTraced, P!TotalConstant
  <2>6. P!Cardinality({r.range}) = 1
    BY SameCardinality, FS_Singleton
  <2>7. MemSize(a) * 1 = MemSize(a)
    BY <1>4
  <2> QED
    BY <2>1, <2>4, <2>5, <2>6, <2>7
<1>8. DOMAIN h.alloc_to_core = r.held
  <2>1. DOMAIN h.alloc_to_core = P!Owned(x)
    BY <1>3 DEF P!Records, P!Places
  <2>2. P!Owned(x) = r.held
    BY <1>2 DEF P!Owned
  <2> QED
    BY <2>1, <2>2
<1> QED
  BY <1>6, <1>7, <1>8

\* The heaps shown as dead are those reported as destroyed.
Deaths ==
  \A id \in DOMAIN heaps : heaps[id].death = 0 <=> reported[id].gone = FALSE

\* Only HeapDestroy writes the time of death.
LEMMA DeathIsKept ==
  ASSUME NEW h \in Heaps
  PROVE  /\ \A b, s : HeapAddCore(h, b, s).death = h.death
         /\ \A b : HeapRemoveCore(h, b).death = h.death
         /\ \A b, p, s, t : Sample(PlacedIn(h, b, p, s), t).death = h.death
         /\ \A p, t : Sample(TakenFromCore(h, p), t).death = h.death
<1>1. \A b, s : HeapAddCore(h, b, s).death = h.death
  BY DEF HeapAddCore, HeapManages, Heaps
<1>2. \A b : HeapRemoveCore(h, b).death = h.death
  BY DEF HeapRemoveCore, Heaps
<1>3. \A b, p, s, t : Sample(PlacedIn(h, b, p, s), t).death = h.death
  BY DEF Sample, PlacedIn, HeapUses, Heaps
<1>4. \A p, t : Sample(TakenFromCore(h, p), t).death = h.death
  BY DEF Sample, TakenFromCore, Heaps
<1> QED
  BY <1>1, <1>2, <1>3, <1>4

BookInvariant == DemoInvariant /\ P!TracedInvariant /\ Deaths

LEMMA BookIs ==
  ASSUME DemoInvariant, P!TracedInvariant
  PROVE  /\ DOMAIN heaps = DOMAIN reported /\ reported \in Worlds
         /\ \A id \in DOMAIN heaps : /\ heaps[id] \in Heaps /\ P!Paired(heaps[id], reported[id])
                                     /\ reported[id] \in Reports
<1>1. /\ DOMAIN heaps = DOMAIN reported
      /\ \A id \in DOMAIN heaps : P!Paired(heaps[id], reported[id])
  BY DEF P!TracedInvariant
<1>2. \A id \in DOMAIN heaps : heaps[id] \in Heaps /\ reported[id] \in Reports
  BY <1>1, SameHeaps DEF P!Paired
<1>3. PICK v : Leads(reported, trace, v)
  BY DEF DemoInvariant, Tracked, OnTheWay
<1>4. trace \in Seq(Events)
  BY DEF DemoInvariant, Tracked, OnTheWay
<1>5. reported \in Worlds
  BY <1>3, <1>4, LeadsWithin
<1> QED
  BY <1>1, <1>2, <1>5

LEMMA DeathsAsBefore ==
  ASSUME Deaths, DOMAIN heaps = DOMAIN reported, NEW id \in DOMAIN heaps,
         \/ heaps' = heaps
         \/ \E g : heaps' = [heaps EXCEPT ![id] = g] /\ g.death = heaps[id].death,
         NEW y, reported' = [reported EXCEPT ![id] = y], y.gone = reported[id].gone
  PROVE  Deaths'
<1>1. \A k \in DOMAIN heaps : heaps[k].death = 0 <=> reported[k].gone = FALSE
  BY DEF Deaths
<1>2. DOMAIN heaps' = DOMAIN heaps /\ \A k \in DOMAIN heaps : heaps'[k].death = heaps[k].death
  <2>1. CASE heaps' = heaps
    BY <2>1
  <2>2. ASSUME NEW g, heaps' = [heaps EXCEPT ![id] = g], g.death = heaps[id].death
        PROVE  /\ DOMAIN heaps' = DOMAIN heaps
               /\ \A k \in DOMAIN heaps : heaps'[k].death = heaps[k].death
    BY <2>2
  <2> QED
    BY <2>1, <2>2
<1>3. \A k \in DOMAIN heaps : reported'[k].gone = reported[k].gone
  OBVIOUS
<1> QED
  BY <1>1, <1>2, <1>3 DEF Deaths

\* The ids of the demo fit into an int.
LEMMA SmallId ==
  ASSUME NEW id \in HeapIds
  PROVE  AsInt(id) = id
<1>1. \A a \in Nat, b \in Nat \ {0} : a < b => a % b = a
  OBVIOUS
<1>2. id \in Nat /\ id < IntLimit /\ IntLimit \in Nat \ {0}
  BY DEF BlockAssumption, ConstantsAssumption
<1>3. 2 * IntLimit \in Nat \ {0} /\ id < 2 * IntLimit
  BY <1>2
<1>4. id % (2 * IntLimit) = id
  BY <1>1, <1>2, <1>3
<1> QED
  BY <1>2, <1>4 DEF AsInt

LEMMA DeathsKept ==
  ASSUME DemoInvariant, P!TracedInvariant, Deaths, NEW t \in Times, Handle(t)
  PROVE  Deaths'
<1> DEFINE e == Head(trace)
           id == e.id
           h == heaps[id]
           x == reported[id]
<1>1. AddsEvent(t, e) /\ reported' = Applied(reported, e) /\ Legal(reported, e)
  BY HandleIs, HandleKeeps
<1>2. /\ DOMAIN heaps = DOMAIN reported
      /\ \A k \in DOMAIN heaps : heaps[k] \in Heaps /\ reported[k] \in Reports
  BY BookIs
<1>3. \A k \in DOMAIN heaps : heaps[k].death = 0 <=> reported[k].gone = FALSE
  BY DEF Deaths
<1> HIDE DEF e
<1>4. CASE e.type = "HeapCreate" /\ MayCreate(reported, id)
  <2>1. HeapCreate(t, id) /\ reported' = Put(reported, id, NewReport)
    BY <1>1, <1>4, AddsEventIs, AppliedIs
  <2>2. id \notin DOMAIN heaps
    BY <1>2, <1>4 DEF MayCreate
  <2>3. PICK m \in Garbage, u \in Garbage : heaps' = Put(heaps, id, NewHeap(t, m, u))
    BY <2>1, <2>2 DEF HeapCreate, Emplace
  <2>4. NewHeap(t, m, u).death = 0 /\ NewReport.gone = FALSE
    BY DEF NewHeap, NewReport
  <2> QED
    BY <1>2, <1>3, <2>1, <2>3, <2>4 DEF Put, Deaths
<1>5. CASE e.type = "HeapDestroy" /\ Standing(reported, id)
  <2>1. HeapDestroy(t, id) /\ reported' = [reported EXCEPT ![id] = WithReportGone(x)]
    <3>1. HeapDestroy(t, id)
      BY <1>1, <1>5, AddsEventIs
    <3>2. reported' = [reported EXCEPT ![id] = [reported[id] EXCEPT !.gone = TRUE]]
      BY <1>1, <1>5, AppliedIs
    <3> QED
      BY <3>1, <3>2 DEF WithReportGone
  <2>2. id \in DOMAIN heaps
    BY <1>2, <1>5 DEF Standing
  <2>3. heaps' = [heaps EXCEPT ![id] = WithDeath(h, t)]
    <3>1. id \in HeapIds
      BY <1>5 DEF Standing
    <3>2. AsInt(id) = id
      BY <3>1, SmallId
    <3> QED
      BY <2>1, <2>2, <3>2 DEF HeapDestroy, Known, Becomes, WithDeath
  <2>4. WithDeath(h, t).death = t /\ t # 0 /\ WithReportGone(x).gone = TRUE
    <3>1. h \in Heaps /\ x \in Reports
      BY <1>2, <2>2
    <3>2. WithDeath(h, t).death = t
      BY <3>1 DEF WithDeath, Heaps
    <3>3. t # 0
      OBVIOUS
    <3>4. WithReportGone(x).gone = TRUE
      BY <3>1, ReportWritten
    <3> QED
      BY <3>2, <3>3, <3>4
  <2> QED
    BY <1>2, <1>3, <2>1, <2>2, <2>3, <2>4 DEF Deaths
<1>6. CASE e.type = "HeapAddCore" /\ MayAddCore(reported, id, e.pointer, e.size)
  <2>1. AddCore(t, id, e.pointer, e.size)
    BY <1>1, <1>6, AddsEventIs
  <2>2. id \in DOMAIN heaps
    BY <1>2, <1>6 DEF MayAddCore, Open, Standing
  <2>3. heaps' = [heaps EXCEPT ![id] = HeapAddCore(h, e.pointer, e.size)]
    BY <2>1, <2>2 DEF AddCore, Known, Becomes
  <2>4. HeapAddCore(h, e.pointer, e.size).death = h.death
    BY <1>2, <2>2, DeathIsKept
  <2> DEFINE y == [x EXCEPT !.cores = Put(@, e.pointer, e.size)]
  <2>5. reported' = [reported EXCEPT ![id] = y]
    BY <1>1, <1>6, AppliedIs
  <2>6. y.gone = x.gone
    BY <1>2, <2>2 DEF Reports
  <2> HIDE DEF y
  <2> QED
    BY <1>2, <2>2, <2>3, <2>4, <2>5, <2>6, DeathsAsBefore
<1>7. CASE e.type = "HeapAllocate" /\ MayAllocate(reported, id, e.pointer, e.size)
  <2>1. Allocate(t, id, e.pointer, e.size, TRUE)
    BY <1>1, <1>7, AddsEventIs
  <2>2. id \in DOMAIN heaps
    BY <1>2, <1>7 DEF MayAllocate, Open, Standing
  <2>3. \/ heaps' = heaps
        \/ \E g : heaps' = [heaps EXCEPT ![id] = g] /\ g.death = h.death
    <3>1. \/ heaps' = heaps
          \/ \E b : heaps' = [heaps EXCEPT ![id] =
                                Sample(PlacedIn(h, b, e.pointer, e.size), t)]
      BY <2>1 DEF Allocate, Becomes, Ignored
    <3>2. \A b : Sample(PlacedIn(h, b, e.pointer, e.size), t).death = h.death
      BY <1>2, <2>2, DeathIsKept
    <3> QED
      BY <3>1, <3>2
  <2> DEFINE y == [x EXCEPT !.live = Put(@, e.pointer, [size |-> e.size, owned |-> TRUE])]
  <2>4. reported' = [reported EXCEPT ![id] = y]
    BY <1>1, <1>7, AppliedIs
  <2>5. y.gone = x.gone
    BY <1>2, <2>2 DEF Reports
  <2> HIDE DEF y
  <2> QED
    BY <1>2, <2>2, <2>3, <2>4, <2>5, DeathsAsBefore
<1>8. CASE e.type = "HeapFree" /\ MayFree(reported, id, e.pointer)
  <2>1. Free(t, id, e.pointer, TRUE)
    BY <1>1, <1>8, AddsEventIs
  <2>2. id \in DOMAIN heaps
    BY <1>2, <1>8 DEF MayFree, Open, Standing
  <2>3. \/ heaps' = heaps
        \/ \E g : heaps' = [heaps EXCEPT ![id] = g] /\ g.death = h.death
    <3>1. \/ heaps' = heaps
          \/ heaps' = [heaps EXCEPT ![id] = Sample(TakenFromCore(h, e.pointer), t)]
      BY <2>1 DEF Free, Becomes, Ignored
    <3>2. Sample(TakenFromCore(h, e.pointer), t).death = h.death
      BY <1>2, <2>2, DeathIsKept
    <3> QED
      BY <3>1, <3>2
  <2> DEFINE y == [x EXCEPT !.live = Erase(@, e.pointer)]
  <2>4. reported' = [reported EXCEPT ![id] = y]
    BY <1>1, <1>8, AppliedIs
  <2>5. y.gone = x.gone
    BY <1>2, <2>2 DEF Reports
  <2> HIDE DEF y
  <2> QED
    BY <1>2, <2>2, <2>3, <2>4, <2>5, DeathsAsBefore
<1>9. CASE e.type = "HeapRemoveCore" /\ MayRemoveCore(reported, id, e.pointer)
  <2>1. RemoveCore(t, id, e.pointer)
    BY <1>1, <1>9, AddsEventIs
  <2>2. id \in DOMAIN heaps
    BY <1>2, <1>9 DEF MayRemoveCore, Standing
  <2>3. heaps' = [heaps EXCEPT ![id] = HeapRemoveCore(h, e.pointer)]
    BY <2>1, <2>2 DEF RemoveCore, Known, Becomes
  <2>4. HeapRemoveCore(h, e.pointer).death = h.death
    BY <1>2, <2>2, DeathIsKept
  <2> DEFINE y == [x EXCEPT !.cores = Erase(@, e.pointer)]
  <2>5. reported' = [reported EXCEPT ![id] = y]
    BY <1>1, <1>9, AppliedIs
  <2>6. y.gone = x.gone
    BY <1>2, <2>2 DEF Reports
  <2> HIDE DEF y
  <2> QED
    BY <1>2, <2>2, <2>3, <2>4, <2>5, <2>6, DeathsAsBefore
<1> QED
  BY <1>1, <1>4, <1>5, <1>6, <1>7, <1>8, <1>9 DEF Legal

LEMMA BookKept ==
  /\ DemoInit => BookInvariant
  /\ BookInvariant /\ [DemoNext]_demoVars => BookInvariant'
<1>1. ASSUME DemoInit
      PROVE  BookInvariant
  <2>1. DemoInvariant
    BY <1>1, DemoInvariantKept
  <2>2. P!TInit
    BY <1>1 DEF DemoInit, Init, Empty, P!TInit, P!Init, P!Empty
  <2>3. P!TracedInvariant
    BY <2>2, P!PairsKept
  <2>4. Deaths
    BY <1>1 DEF DemoInit, Init, Empty, Deaths
  <2> QED
    BY <2>1, <2>3, <2>4 DEF BookInvariant
<1>2. ASSUME BookInvariant, [DemoNext]_demoVars
      PROVE  BookInvariant'
  <2>1. DemoInvariant /\ P!TracedInvariant /\ Deaths
    BY <1>2 DEF BookInvariant
  <2>2. DemoInvariant'
    BY <1>2, <2>1, DemoInvariantKept
  <2>3. [P!TNext]_(P!tracedVars)
    BY <1>2, <2>1, DemoStepIsTraced
  <2>4. P!TracedInvariant'
    BY <2>1, <2>3, P!PairsKept
  <2>5. Deaths'
    <3>1. ASSUME UNCHANGED <<heaps, reported>>
          PROVE  Deaths'
      BY <2>1, <3>1 DEF Deaths
    <3>2. ASSUME NEW t \in {s \in Times : s >= last_update}, Handle(t)
          PROVE  Deaths'
      BY <2>1, <3>2, DeathsKept
    <3>3. ASSUME NEW a \in Names, NEW range \in Ranges, Construct(a, range)
          PROVE  Deaths'
      BY <3>1, <3>3 DEF Construct, Quiet, vars
    <3>4. ASSUME NEW a \in Names, Destruct(a)
          PROVE  Deaths'
      BY <3>1, <3>4 DEF Destruct, Quiet, vars
    <3>5. ASSUME NEW a \in Names, Alloc(a)
          PROVE  Deaths'
      BY <3>1, <3>5 DEF Alloc, Quiet, vars
    <3>6. ASSUME NEW a \in DOMAIN allocators, NEW ptr \in allocators[a].held, FreeBlock(a, ptr)
          PROVE  Deaths'
      BY <3>1, <3>6 DEF FreeBlock, Quiet, vars
    <3>7. ASSUME UNCHANGED demoVars
          PROVE  Deaths'
      BY <3>1, <3>7 DEF demoVars, vars
    <3>8. DemoNext \/ UNCHANGED demoVars
      BY <1>2
    <3>9. ASSUME DemoNext
          PROVE  Deaths'
      BY <3>2, <3>3, <3>4, <3>5, <3>6, <3>9 DEF DemoNext
    <3> QED
      BY <3>7, <3>8, <3>9
  <2> QED
    BY <2>2, <2>4, <2>5 DEF BookInvariant
<1> QED
  BY <1>1, <1>2

\* When nothing is on its way, the tool shows what the allocators hold, their
\* ranges, and which are alive: the events of BlockAllocator (DemoMain.cpp:16-95)
\* handled by heap.cc and memory_state.cc.
THEOREM ToolCatchesUp == DemoSpec => []CaughtUp
<1>1. BookInvariant => CaughtUp
  <2> SUFFICES ASSUME BookInvariant, active, trace = <<>>
               PROVE  /\ \A a \in DOMAIN allocators :
                           LET heap == heaps[allocators[a].id]
                           IN  /\ heap.used = ElemSize[a] * Cardinality(allocators[a].held)
                               /\ heap.managed = MemSize(a)
                               /\ DOMAIN heap.alloc_to_core = allocators[a].held
                      /\ \A id \in DOMAIN heaps :
                           heaps[id].death = 0 <=>
                             \E a \in DOMAIN allocators : allocators[a].id = id
    BY DEF CaughtUp
  <2>1. DemoInvariant /\ P!TracedInvariant /\ Deaths
    BY DEF BookInvariant
  <2>2. PICK v : Leads(reported, trace, v) /\ (active => Matches(allocators, next_heap_id, v))
    BY <2>1 DEF DemoInvariant, Tracked, OnTheWay
  <2>3. v = reported
    BY <2>2, LeadsNowhere
  <2>4. Matches(allocators, next_heap_id, reported)
    BY <2>2, <2>3
  <2>5. /\ DOMAIN heaps = DOMAIN reported
        /\ \A id \in DOMAIN heaps : P!Paired(heaps[id], reported[id]) /\ reported[id] \in Reports
    BY <2>1, BookIs
  <2>6. ASSUME NEW a \in DOMAIN allocators
        PROVE  LET heap == heaps[allocators[a].id]
               IN  /\ heap.used = ElemSize[a] * Cardinality(allocators[a].held)
                   /\ heap.managed = MemSize(a)
                   /\ DOMAIN heap.alloc_to_core = allocators[a].held
    <3> DEFINE k == allocators[a].id
    <3>1. k \in DOMAIN reported /\ Holding(reported[k], a, allocators[a])
      BY <2>4 DEF Matches
    <3>2. P!Paired(heaps[k], reported[k])
      BY <2>5, <3>1
    <3>3. a \in Names
      BY <2>1 DEF DemoInvariant, AllWhole
    <3> QED
      BY <3>1, <3>2, <3>3, ShownOf
  <2>7. ASSUME NEW id \in DOMAIN heaps
        PROVE  heaps[id].death = 0 <=> \E a \in DOMAIN allocators : allocators[a].id = id
    <3>1. heaps[id].death = 0 <=> reported[id].gone = FALSE
      BY <2>1 DEF Deaths
    <3>2. reported[id].gone = TRUE \/ reported[id].gone = FALSE
      BY <2>5, ReportFields
    <3>3. reported[id].gone = TRUE \/ \E a \in DOMAIN allocators : allocators[a].id = id
      BY <2>4, <2>5 DEF Matches
    <3>4. \A a \in DOMAIN allocators : reported[allocators[a].id].gone = FALSE
      BY <2>4 DEF Matches, Holding
    <3> QED
      BY <3>1, <3>2, <3>3, <3>4
  <2> QED
    BY <2>6, <2>7
<1>2. DemoSpec => []BookInvariant
  BY BookKept, PTL DEF DemoSpec
<1> QED
  BY <1>1, <1>2, PTL

=============================================================================
