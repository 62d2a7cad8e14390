----------------------------- MODULE DecoderProofs -----------------------------
(***************************************************************************)
(* Proofs about Decoder.tla: whatever is traced and however the bytes are  *)
(* cut into chunks, the decoder passes on the events that were sent, in    *)
(* order, and a file is converted to rows that read as its events.         *)
(*                                                                         *)
(*  - The codec: a number is decoded to what was encoded (NumberRoundTrip),*)
(*    and so are a string, the arguments of an event, and the event        *)
(*    (EventRoundTrip); what has not arrived as a whole is not decoded.    *)
(*    oneStep depends on the unread bytes only, so all of this is said of  *)
(*    a Window of the ring, wherever in the storage it is.                 *)
(*  - The stream: Ends says where each event begins (StreamIs), so that the*)
(*    place of a cursor, num_read, says what oneStep finds there: AtNext,  *)
(*    AtLast, and, by the assumption on the traces, Between.               *)
(*  - The decoder: DecoderInv says that the ring holds what has arrived and*)
(*    is not read, at which places the cursor and the record that          *)
(*    loadRollback takes can be in each phase, and that exactly the        *)
(*    registered events have been passed on.                               *)
(*  - The chunks: when each fits into the room that is left (ChunksFit) a  *)
(*    call ends with all events that have arrived (FitInv).                *)
(*  - The file: the text of a row reads as its event when no name has a    *)
(*    separator in it (FilesFitColumns), and so the file does (CsvInv).    *)
(*                                                                         *)
(* The lemmas of the first sections replace induction over the natural     *)
(* numbers and over sequences: a recursive function is its equation        *)
(* (Recursion), a set of numbers has a least one (LeastNumber).            *)
(***************************************************************************)
EXTENDS Decoder, WellFoundedInduction, FiniteSetTheorems, SequenceTheorems, TLAPS

(***************************************************************************)
(* Induction, from the least number of a set.                              *)
(***************************************************************************)
LEMMA LeastNumber ==
  ASSUME NEW T \in SUBSET Nat, T # {}
  PROVE  \E m \in T : \A k \in T : m <= k
<1> DEFINE F == {0 .. k : k \in T}
<1>1. F \subseteq FiniteSubsetsOf(Nat) /\ F # {}
  <2>1. \A k \in T : IsFiniteSet(0 .. k)
    BY FS_Interval
  <2>2. \A k \in T : 0 .. k \in FiniteSubsetsOf(Nat)
    <3>1. \A k \in T : 0 .. k \subseteq Nat
      OBVIOUS
    <3> QED
      BY <2>1, <3>1 DEF FiniteSubsetsOf
  <2> QED
    BY <2>2
<1>2. \E x \in F : \A y \in F : ~(<<y, x>> \in StrictSubsetOrdering(Nat))
  BY <1>1, FS_StrictSubsetOrderingWellFounded, WFMin
<1>3. PICK m \in T : \A k \in T : ~(<<0 .. k, 0 .. m>> \in StrictSubsetOrdering(Nat))
  BY <1>2
<1>4. ASSUME NEW k \in T, k < m
      PROVE  FALSE
  <2>1. 0 .. k \in SUBSET Nat /\ 0 .. m \in SUBSET Nat
    OBVIOUS
  <2>2. 0 .. k \subseteq 0 .. m /\ m \in 0 .. m /\ m \notin 0 .. k
    BY <1>4
  <2> QED
    BY <1>3, <2>1, <2>2 DEF StrictSubsetOrdering
<1> QED
  BY <1>4

\* Induction over the natural numbers, about a set of them.
LEMMA Induction ==
  ASSUME NEW T \in SUBSET Nat, 0 \in T, \A n \in T : n + 1 \in T
  PROVE  T = Nat
<1> SUFFICES ASSUME Nat \ T # {}
             PROVE  FALSE
  OBVIOUS
<1>1. PICK m \in Nat \ T : \A k \in Nat \ T : m <= k
  BY LeastNumber
<1>2. m - 1 \in Nat /\ m - 1 \notin Nat \ T
  BY <1>1
<1>3. m - 1 + 1 = m
  OBVIOUS
<1> QED
  BY <1>1, <1>2, <1>3

(***************************************************************************)
(* A recursive function is there: a step S that makes a function from a    *)
(* function, and looks at smaller arguments only, has a fixed point.       *)
(***************************************************************************)
Iterates(f, V, start, S) ==
  f \in [Nat -> V] /\ f[0] = start /\ \A n \in Nat : f[n + 1] = S[f[n]]

LEMMA Iteration ==
  ASSUME NEW V, NEW start \in V, NEW S \in [V -> V]
  PROVE  \E f : Iterates(f, V, start, S)
<1> DEFINE Upto(g, n) == /\ g \in [0 .. n -> V] /\ g[0] = start
                         /\ \A i \in 0 .. (n - 1) : g[i + 1] = S[g[i]]
           T == {n \in Nat : \E g : Upto(g, n)}
<1>1. T = Nat
  <2>1. 0 \in T
    <3>1. Upto([i \in 0 .. 0 |-> start], 0)
      OBVIOUS
    <3> QED
      BY <3>1
  <2>2. ASSUME NEW n \in T
        PROVE  n + 1 \in T
    <3>1. PICK g : Upto(g, n)
      OBVIOUS
    <3> DEFINE h == [i \in 0 .. (n + 1) |-> IF i <= n THEN g[i] ELSE S[g[n]]]
    <3>2. n \in Nat /\ g \in [0 .. n -> V] /\ g[0] = start
      BY <3>1
    <3>3. \A i \in 0 .. (n - 1) : g[i + 1] = S[g[i]]
      BY <3>1
    <3> HIDE DEF T, Upto
    <3>4. h \in [0 .. (n + 1) -> V] /\ h[0] = start
      BY <3>2
    <3>5. ASSUME NEW i \in 0 .. n
          PROVE  h[i + 1] = S[h[i]]
      <4>1. CASE i = n
        BY <4>1, <3>2
      <4>2. CASE i < n
        <5>1. i \in 0 .. (n - 1) /\ i + 1 <= n
          BY <4>2, <3>2
        <5>2. h[i + 1] = g[i + 1] /\ h[i] = g[i]
          BY <5>1, <3>2
        <5> QED
          BY <5>1, <5>2, <3>3
      <4> QED
        BY <4>1, <4>2, <3>2
    <3>6. Upto(h, n + 1)
      <4> HIDE DEF h
      <4>1. n + 1 - 1 = n
        BY <3>2
      <4>2. \A i \in 0 .. (n + 1 - 1) : h[i + 1] = S[h[i]]
        BY <3>5, <4>1
      <4> QED
        BY <3>2, <3>4, <4>2 DEF Upto
    <3> QED
      BY <3>2, <3>6 DEF T
  <2> HIDE DEF T
  <2>3. T \in SUBSET Nat
    BY DEF T
  <2> QED
    BY <2>1, <2>2, <2>3, Induction
<1> DEFINE G(n) == CHOOSE g : Upto(g, n)
           f == [n \in Nat |-> G(n)[n]]
<1>2. \A n \in Nat : Upto(G(n), n)
  BY <1>1
<1> HIDE DEF G, T
<1>3. ASSUME NEW n \in Nat, NEW m \in Nat, NEW g, NEW h, Upto(g, n), Upto(h, m), n <= m
      PROVE  g[n] = h[n]
  <2> DEFINE A == {i \in Nat : i <= n => g[i] = h[i]}
  <2>1. 0 \in A
    BY <1>3
  <2>2. ASSUME NEW i \in A
        PROVE  i + 1 \in A
    <3>1. CASE i + 1 <= n
      <4>1. i \in 0 .. (n - 1) /\ i \in 0 .. (m - 1) /\ i <= n
        BY <3>1, <1>3
      <4>2. g[i + 1] = S[g[i]] /\ h[i + 1] = S[h[i]] /\ g[i] = h[i]
        BY <4>1, <1>3
      <4> QED
        BY <4>2
    <3> QED
      BY <3>1
  <2>3. A \in SUBSET Nat
    OBVIOUS
  <2>4. A = Nat
    <3> HIDE DEF A
    <3> QED
      BY <2>1, <2>2, <2>3, Induction
  <2> QED
    BY <2>4
<1>4. ASSUME NEW n \in Nat
      PROVE  f[n + 1] = S[f[n]]
  <2>1. Upto(G(n), n) /\ Upto(G(n + 1), n + 1) /\ n + 1 \in Nat /\ n <= n + 1
    BY <1>2
  <2>2. G(n)[n] = G(n + 1)[n]
    <3> HIDE DEF Upto
    <3> QED
      BY <1>3, <2>1
  <2>3. G(n + 1)[n + 1] = S[G(n + 1)[n]]
    BY <2>1
  <2> QED
    BY <2>2, <2>3
<1>5. f \in [Nat -> V] /\ f[0] = start
  <2>1. \A n \in Nat : G(n) \in [0 .. n -> V] /\ G(n)[0] = start
    BY <1>2
  <2> HIDE DEF Upto
  <2>2. \A n \in Nat : G(n)[n] \in V
    BY <2>1
  <2> QED
    BY <2>1, <2>2
<1> HIDE DEF f
<1> QED
  BY <1>4, <1>5 DEF Iterates

LooksBack(S, size, D, V) ==
  /\ V # {} /\ size \in [D -> Nat] /\ S \in [[D -> V] -> [D -> V]]
  /\ \A g, h \in [D -> V] : \A x \in D :
       (\A y \in D : size[y] < size[x] => g[y] = h[y]) => S[g][x] = S[h][x]

Fixed(f, S, D, V) == f \in [D -> V] /\ f = S[f]

LEMMA Recursion ==
  ASSUME NEW D, NEW V, NEW size, NEW S, LooksBack(S, size, D, V)
  PROVE  \E f : Fixed(f, S, D, V)
<1>0. /\ V # {} /\ size \in [D -> Nat] /\ S \in [[D -> V] -> [D -> V]]
      /\ \A g, h \in [D -> V] : \A x \in D :
           (\A y \in D : size[y] < size[x] => g[y] = h[y]) => S[g][x] = S[h][x]
  BY DEF LooksBack
<1>1. PICK v : v \in V
  BY <1>0
<1> DEFINE start == [x \in D |-> v]
<1>2. start \in [D -> V]
  BY <1>1
<1> HIDE DEF start
<1>3. PICK F : Iterates(F, [D -> V], start, S)
  BY <1>0, <1>2, Iteration
<1>a. F \in [Nat -> [D -> V]] /\ F[0] = start /\ \A n \in Nat : F[n + 1] = S[F[n]]
  BY <1>3 DEF Iterates
<1> DEFINE A == {n \in Nat : \A x \in D : size[x] <= n => F[n + 1][x] = F[n + 2][x]}
<1>4. A = Nat
  <2>1. ASSUME NEW n \in Nat, \A x \in D : size[x] < n => F[n][x] = F[n + 1][x]
        PROVE  n \in A
    <3> SUFFICES ASSUME NEW x \in D, size[x] <= n
                 PROVE  F[n + 1][x] = F[n + 2][x]
      OBVIOUS
    <3>1. F[n + 1] = S[F[n]] /\ F[n + 2] = S[F[n + 1]]
      <4>1. n + 1 \in Nat /\ n + 1 + 1 = n + 2
        OBVIOUS
      <4> QED
        BY <1>a, <1>0, <4>1
    <3>2. F[n] \in [D -> V] /\ F[n + 1] \in [D -> V]
      BY <1>a, <1>0
    <3>3. \A y \in D : size[y] < size[x] => F[n][y] = F[n + 1][y]
      BY <1>0, <2>1
    <3>4. S[F[n]][x] = S[F[n + 1]][x]
      BY <1>0, <3>2, <3>3
    <3> QED
      BY <3>1, <3>4
  <2>2. 0 \in A
    <3>1. \A x \in D : ~(size[x] < 0)
      BY <1>0
    <3> QED
      BY <2>1, <3>1
  <2>3. ASSUME NEW n \in A
        PROVE  n + 1 \in A
    <3>1. n \in Nat /\ \A x \in D : size[x] <= n => F[n + 1][x] = F[n + 2][x]
      OBVIOUS
    <3>2. n + 1 + 1 = n + 2 /\ n + 1 \in Nat /\ \A x \in D : size[x] < n + 1 => size[x] <= n
      BY <1>0, <3>1
    <3> HIDE DEF A
    <3> QED
      BY <2>1, <3>1, <3>2
  <2>4. A \in SUBSET Nat
    OBVIOUS
  <2> HIDE DEF A
  <2> QED
    BY <2>2, <2>3, <2>4, Induction
<1>5. ASSUME NEW x \in D, NEW n \in Nat
      PROVE  F[size[x] + 1 + n][x] = F[size[x] + 1][x]
  <2> DEFINE B == {k \in Nat : F[size[x] + 1 + k][x] = F[size[x] + 1][x]}
  <2>1. 0 \in B /\ B \in SUBSET Nat
    BY <1>0
  <2>2. ASSUME NEW k \in B
        PROVE  k + 1 \in B
    <3>1. size[x] + k \in A /\ size[x] <= size[x] + k /\ size[x] \in Nat
      BY <1>0, <1>4
    <3>2. F[size[x] + k + 1][x] = F[size[x] + k + 2][x]
      BY <3>1
    <3>3. size[x] + k + 1 = size[x] + 1 + k /\ size[x] + k + 2 = size[x] + 1 + (k + 1)
      BY <3>1
    <3> QED
      BY <1>0, <3>2, <3>3
  <2>3. B = Nat
    <3> HIDE DEF B
    <3> QED
      BY <2>1, <2>2, Induction
  <2> QED
    BY <2>3
<1> HIDE DEF A
<1> DEFINE f == [x \in D |-> F[size[x] + 1][x]]
<1>6. f \in [D -> V]
  BY <1>a, <1>0
<1>7. ASSUME NEW x \in D
      PROVE  f[x] = S[f][x]
  <2>1. F[size[x] + 1] = S[F[size[x]]] /\ F[size[x]] \in [D -> V]
    BY <1>a, <1>0
  <2>2. ASSUME NEW y \in D, size[y] < size[x]
        PROVE  F[size[x]][y] = f[y]
    <3>1. size[x] - size[y] - 1 \in Nat /\ size[y] + 1 + (size[x] - size[y] - 1) = size[x]
      BY <1>0, <2>2
    <3>2. F[size[y] + 1 + (size[x] - size[y] - 1)][y] = F[size[y] + 1][y]
      BY <1>5, <3>1
    <3> QED
      BY <3>1, <3>2
  <2> HIDE DEF f
  <2>3. S[F[size[x]]][x] = S[f][x]
    BY <1>0, <2>1, <2>2, <1>6
  <2> QED
    BY <2>1, <2>3 DEF f
<1>8. S[f] \in [D -> V]
  <2> HIDE DEF f
  <2> QED
    BY <1>0, <1>6
<1> HIDE DEF f
<1>9. f = S[f]
  BY <1>6, <1>7, <1>8
<1> QED
  BY <1>6, <1>9 DEF Fixed

(***************************************************************************)
(* Remainders, for the numbers of a word.                                  *)
(***************************************************************************)
LEMMA OneRemainder ==
  ASSUME NEW w \in Nat \ {0}, NEW q \in Int, NEW k \in Int,
         NEW r \in 0 .. (w - 1), NEW s \in 0 .. (w - 1), w * q + r = w * k + s
  PROVE  r = s
<1>1. w * (q - k) = s - r
  OBVIOUS
<1>2. CASE q - k >= 1
  <2>1. w * (q - k) = w + w * (q - k - 1) /\ w * (q - k - 1) >= 0
    BY <1>2
  <2> QED
    BY <1>1, <2>1
<1>3. CASE q - k <= -1
  <2>1. w * (q - k) = -w - w * (k - q - 1) /\ w * (k - q - 1) >= 0
    BY <1>3
  <2> QED
    BY <1>1, <2>1
<1>4. CASE q = k
  BY <1>4
<1> QED
  BY <1>2, <1>3, <1>4

LEMMA Remainder ==
  ASSUME NEW w \in Nat \ {0}, NEW a \in Int
  PROVE  /\ a % w \in 0 .. (w - 1) /\ a \div w \in Int
         /\ a = w * (a \div w) + (a % w)
         /\ a \in 0 .. (w - 1) => a % w = a
OBVIOUS

LEMMA SameRemainder ==
  ASSUME NEW w \in Nat \ {0}, NEW a \in Int, NEW b \in Int, NEW k \in Int, a = b + w * k
  PROVE  a % w = b % w
<1> DEFINE q == a \div w
           r == a % w
           d == b \div w
           s == b % w
<1>1. a = w * q + r /\ q \in Int /\ r \in 0 .. (w - 1)
  BY Remainder
<1>2. b = w * d + s /\ d \in Int /\ s \in 0 .. (w - 1)
  BY Remainder
<1> HIDE DEF q, r, d, s
<1>3. w * d + w * k = w * (d + k) /\ d + k \in Int
  BY <1>2
<1>4. w * q + r = w * (d + k) + s
  BY <1>1, <1>2, <1>3
<1>5. r = s
  BY <1>1, <1>2, <1>3, <1>4, OneRemainder
<1> QED
  BY <1>5 DEF r, s

(***************************************************************************)
(* The recursive functions of Codec.tla by their equations.                *)
(***************************************************************************)
LEMMA PowerOfTwoIs ==
  /\ PowerOfTwo \in [Nat -> Nat \ {0}] /\ PowerOfTwo[0] = 1
  /\ \A n \in Nat : PowerOfTwo[n + 1] = 2 * PowerOfTwo[n]
<1> DEFINE V == Nat \ {0}
           size == [n \in Nat |-> n]
           S == [g \in [Nat -> V] |-> [n \in Nat |-> IF n = 0 THEN 1 ELSE 2 * g[n - 1]]]
<1>1. S \in [[Nat -> V] -> [Nat -> V]]
  <2>1. ASSUME NEW g \in [Nat -> V], NEW n \in Nat
        PROVE  (IF n = 0 THEN 1 ELSE 2 * g[n - 1]) \in V
    <3>1. CASE n # 0
      <4>1. n - 1 \in Nat
        BY <3>1
      <4>2. g[n - 1] \in V
        BY <4>1
      <4> QED
        BY <3>1, <4>2
    <3> QED
      BY <3>1
  <2> HIDE DEF V
  <2> QED
    BY <2>1
<1>2. ASSUME NEW g \in [Nat -> V], NEW h \in [Nat -> V], NEW x \in Nat,
             \A y \in Nat : size[y] < size[x] => g[y] = h[y]
      PROVE  S[g][x] = S[h][x]
  <2>1. x # 0 => x - 1 \in Nat /\ g[x - 1] = h[x - 1]
    BY <1>2
  <2> HIDE DEF V
  <2> QED
    BY <2>1
<1>3. size \in [Nat -> Nat] /\ V # {}
  OBVIOUS
<1>4. PICK h : Fixed(h, S, Nat, V)
  <2> HIDE DEF S, V, size
  <2>1. LooksBack(S, size, Nat, V)
    BY <1>1, <1>2, <1>3 DEF LooksBack
  <2> QED
    BY <2>1, Recursion
<1>5. PICK f \in [Nat -> V] : f = [n \in Nat |-> IF n = 0 THEN 1 ELSE 2 * f[n - 1]]
  BY <1>4 DEF Fixed
<1>6. PowerOfTwo = [n \in Nat |-> IF n = 0 THEN 1 ELSE 2 * PowerOfTwo[n - 1]]
  BY <1>5 DEF PowerOfTwo
<1>7. ASSUME NEW n \in Nat
      PROVE  PowerOfTwo[n + 1] = 2 * PowerOfTwo[n]
  <2>1. n + 1 \in Nat /\ n + 1 # 0 /\ n + 1 - 1 = n
    OBVIOUS
  <2> QED
    BY <1>6, <2>1
<1>8. PowerOfTwo[0] = 1
  BY <1>6
<1>9. {n \in Nat : PowerOfTwo[n] \in Nat \ {0}} = Nat
  <2> DEFINE T == {n \in Nat : PowerOfTwo[n] \in Nat \ {0}}
  <2>1. 0 \in T /\ T \in SUBSET Nat
    BY <1>8
  <2>2. \A n \in T : n + 1 \in T
    BY <1>7
  <2> HIDE DEF T
  <2>3. T = Nat
    BY <2>1, <2>2, Induction
  <2> QED
    BY <2>3 DEF T
<1>10. PowerOfTwo \in [Nat -> Nat \ {0}]
  BY <1>6, <1>9
<1> QED
  BY <1>7, <1>8, <1>10

LEMMA WordIs ==
  /\ Word \in Nat \ {0} /\ Word >= 256
  /\ \E bits \in Nat : bits >= 8 /\ Word = PowerOfTwo[bits]
<1>1. PICK bits \in 8 .. 64 : Word = PowerOfTwo[bits]
  BY WordAssumption
<1>2. bits \in Nat /\ bits >= 8 /\ Word \in Nat \ {0}
  BY <1>1, PowerOfTwoIs
<1>3. PowerOfTwo[8] = 256
  <2>1. /\ PowerOfTwo[0 + 1] = 2 * PowerOfTwo[0] /\ PowerOfTwo[1 + 1] = 2 * PowerOfTwo[1]
        /\ PowerOfTwo[2 + 1] = 2 * PowerOfTwo[2] /\ PowerOfTwo[3 + 1] = 2 * PowerOfTwo[3]
        /\ PowerOfTwo[4 + 1] = 2 * PowerOfTwo[4] /\ PowerOfTwo[5 + 1] = 2 * PowerOfTwo[5]
        /\ PowerOfTwo[6 + 1] = 2 * PowerOfTwo[6] /\ PowerOfTwo[7 + 1] = 2 * PowerOfTwo[7]
    BY PowerOfTwoIs
  <2> QED
    BY <2>1, PowerOfTwoIs
<1>4. {k \in Nat : PowerOfTwo[8 + k] >= 256} = Nat
  <2> DEFINE T == {k \in Nat : PowerOfTwo[8 + k] >= 256}
  <2>1. 0 \in T /\ T \in SUBSET Nat
    BY <1>3
  <2>2. ASSUME NEW k \in T
        PROVE  k + 1 \in T
    <3>1. PowerOfTwo[8 + k + 1] = 2 * PowerOfTwo[8 + k] /\ PowerOfTwo[8 + k] \in Nat
      BY PowerOfTwoIs
    <3>2. 8 + (k + 1) = 8 + k + 1
      OBVIOUS
    <3> QED
      BY <3>1, <3>2
  <2> HIDE DEF T
  <2>3. T = Nat
    BY <2>1, <2>2, Induction
  <2> QED
    BY <2>3 DEF T
<1>5. bits - 8 \in Nat /\ 8 + (bits - 8) = bits
  BY <1>2
<1>6. PowerOfTwo[8 + (bits - 8)] >= 256
  BY <1>4, <1>5
<1> QED
  BY <1>1, <1>2, <1>5, <1>6

LEMMA MulIs ==
  /\ Mul \in [Nat -> 0 .. (Word - 1)] /\ Mul[0] = 1
  /\ \A n \in Nat : Mul[n + 1] = (Half * Mul[n]) % Word
<1> DEFINE V == 0 .. (Word - 1)
           size == [n \in Nat |-> n]
           S == [g \in [Nat -> V] |-> [n \in Nat |-> IF n = 0 THEN 1 ELSE (Half * g[n - 1]) % Word]]
<1>0. \A a \in Nat : a % Word \in V
  BY WordIs
<1>1. S \in [[Nat -> V] -> [Nat -> V]]
  <2>1. ASSUME NEW g \in [Nat -> V], NEW n \in Nat
        PROVE  (IF n = 0 THEN 1 ELSE (Half * g[n - 1]) % Word) \in V
    <3>1. CASE n # 0
      <4>1. n - 1 \in Nat
        BY <3>1
      <4>2. g[n - 1] \in V
        BY <4>1
      <4>3. Half * g[n - 1] \in Nat
        BY <4>2 DEF Half
      <4> HIDE DEF V
      <4> QED
        BY <3>1, <4>3, <1>0
    <3> QED
      BY <3>1, WordIs
  <2> HIDE DEF V
  <2> QED
    BY <2>1
<1>2. ASSUME NEW g \in [Nat -> V], NEW h \in [Nat -> V], NEW x \in Nat,
             \A y \in Nat : size[y] < size[x] => g[y] = h[y]
      PROVE  S[g][x] = S[h][x]
  <2>1. x # 0 => x - 1 \in Nat /\ g[x - 1] = h[x - 1]
    BY <1>2
  <2> HIDE DEF V
  <2> QED
    BY <2>1
<1>3. size \in [Nat -> Nat] /\ V # {}
  BY WordIs
<1>4. PICK f : Fixed(f, S, Nat, V)
  <2> HIDE DEF S, V, size
  <2>1. LooksBack(S, size, Nat, V)
    BY <1>1, <1>2, <1>3 DEF LooksBack
  <2> QED
    BY <2>1, Recursion
<1>5. f \in [Nat -> V] /\ f = [n \in Nat |-> IF n = 0 THEN 1 ELSE (Half * f[n - 1]) % Word]
  BY <1>4 DEF Fixed
<1>6. Mul = [n \in Nat |-> IF n = 0 THEN 1 ELSE (Half * Mul[n - 1]) % Word]
  BY <1>5 DEF Mul
<1>7. ASSUME NEW n \in Nat
      PROVE  Mul[n + 1] = (Half * Mul[n]) % Word
  <2>1. n + 1 \in Nat /\ n + 1 # 0 /\ n + 1 - 1 = n
    OBVIOUS
  <2> QED
    BY <1>6, <2>1
<1>8. Mul[0] = 1
  BY <1>6
<1>9. {n \in Nat : Mul[n] \in V} = Nat
  <2> DEFINE T == {n \in Nat : Mul[n] \in V}
  <2>1. 0 \in T /\ T \in SUBSET Nat
    BY <1>8, WordIs
  <2>2. ASSUME NEW n \in T
        PROVE  n + 1 \in T
    <3>1. Half * Mul[n] \in Nat
      BY DEF Half
    <3> HIDE DEF V
    <3> QED
      BY <3>1, <1>0, <1>7
  <2> HIDE DEF T
  <2>3. T = Nat
    BY <2>1, <2>2, Induction
  <2> QED
    BY <2>3 DEF T
<1>10. Mul \in [Nat -> V]
  <2> HIDE DEF V
  <2> QED
    BY <1>6, <1>9
<1> QED
  BY <1>7, <1>8, <1>10

LEMMA UnsignedIs ==
  /\ Unsigned \in [Nat -> Seq(Byte)]
  /\ \A v \in Nat : /\ v < Half => Unsigned[v] = <<v + Half>>
                    /\ v >= Half => Unsigned[v] = <<v % Half>> \o Unsigned[v \div Half]
<1> DEFINE V == Seq(Byte)
           size == [n \in Nat |-> n]
           S == [g \in [Nat -> V] |-> [v \in Nat |->
                   IF v < Half THEN <<v + Half>> ELSE <<v % Half>> \o g[v \div Half]]]
<1>0. \A v \in Nat : /\ v < Half => v + Half \in Byte
                     /\ v >= Half => v % Half \in Byte /\ v \div Half \in Nat /\ v \div Half < v
  BY OctetAssumption DEF Half
<1>1. S \in [[Nat -> V] -> [Nat -> V]]
  <2>1. ASSUME NEW g \in [Nat -> V], NEW v \in Nat
        PROVE  (IF v < Half THEN <<v + Half>> ELSE <<v % Half>> \o g[v \div Half]) \in V
    <3>1. CASE v < Half
      BY <3>1, <1>0
    <3>2. CASE ~(v < Half)
      <4>1. v >= Half
        BY <3>2 DEF Half
      <4>2. v % Half \in Byte /\ g[v \div Half] \in Seq(Byte)
        BY <4>1, <1>0
      <4>3. <<v % Half>> \o g[v \div Half] \in Seq(Byte)
        BY <4>2
      <4> QED
        BY <3>2, <4>3
    <3> QED
      BY <3>1, <3>2
  <2> HIDE DEF V
  <2> QED
    BY <2>1
<1>2. ASSUME NEW g \in [Nat -> V], NEW h \in [Nat -> V], NEW x \in Nat,
             \A y \in Nat : size[y] < size[x] => g[y] = h[y]
      PROVE  S[g][x] = S[h][x]
  <2>1. ~(x < Half) => x >= Half
    BY DEF Half
  <2>2. ~(x < Half) => g[x \div Half] = h[x \div Half]
    <3> HIDE DEF V
    <3> QED
      BY <1>2, <2>1, <1>0
  <2> HIDE DEF V
  <2> QED
    BY <2>2
<1>3. size \in [Nat -> Nat] /\ V # {}
  <2>1. <<>> \in V
    OBVIOUS
  <2> QED
    BY <2>1
<1>4. PICK f : Fixed(f, S, Nat, V)
  <2> HIDE DEF S, V, size
  <2>1. LooksBack(S, size, Nat, V)
    BY <1>1, <1>2, <1>3 DEF LooksBack
  <2> QED
    BY <2>1, Recursion
<1>5. f \in [Nat -> V] /\ f = [v \in Nat |-> IF v < Half THEN <<v + Half>> ELSE <<v % Half>> \o f[v \div Half]]
  BY <1>4 DEF Fixed
<1>6. Unsigned = [v \in Nat |-> IF v < Half THEN <<v + Half>> ELSE <<v % Half>> \o Unsigned[v \div Half]]
  BY <1>5 DEF Unsigned
<1>7. ASSUME NEW v \in Nat
      PROVE  /\ v < Half => Unsigned[v] = <<v + Half>>
             /\ v >= Half => Unsigned[v] = <<v % Half>> \o Unsigned[v \div Half]
  <2>1. v >= Half => ~(v < Half)
    BY DEF Half
  <2> QED
    BY <1>6, <2>1
<1>8. {v \in Nat : \A k \in 0 .. v : Unsigned[k] \in Seq(Byte)} = Nat
  <2> DEFINE T == {v \in Nat : \A k \in 0 .. v : Unsigned[k] \in Seq(Byte)}
  <2>1. ASSUME NEW v \in Nat, \A k \in 0 .. (v - 1) : Unsigned[k] \in Seq(Byte)
        PROVE  Unsigned[v] \in Seq(Byte)
    <3>1. CASE v < Half
      <4>1. Unsigned[v] = <<v + Half>> /\ v + Half \in Byte
        BY <3>1, <1>7, <1>0
      <4> QED
        BY <4>1
    <3>2. CASE ~(v < Half)
      <4>1. v >= Half
        BY <3>2 DEF Half
      <4>2. v \div Half \in 0 .. (v - 1)
        BY <4>1, <1>0
      <4>3. Unsigned[v \div Half] \in Seq(Byte) /\ v % Half \in Byte
        BY <4>1, <4>2, <2>1, <1>0
      <4>4. <<v % Half>> \o Unsigned[v \div Half] \in Seq(Byte)
        BY <4>3
      <4> QED
        BY <4>1, <4>4, <1>7
    <3> QED
      BY <3>1, <3>2
  <2>2. 0 \in T
    <3>1. Unsigned[0] \in Seq(Byte)
      BY <2>1
    <3> QED
      BY <3>1
  <2>3. ASSUME NEW v \in T
        PROVE  v + 1 \in T
    <3>1. v + 1 \in Nat /\ \A k \in 0 .. ((v + 1) - 1) : Unsigned[k] \in Seq(Byte)
      OBVIOUS
    <3>2. Unsigned[v + 1] \in Seq(Byte)
      <4> HIDE DEF T
      <4> QED
        BY <2>1, <3>1
    <3> QED
      BY <3>1, <3>2
  <2>4. T \in SUBSET Nat
    OBVIOUS
  <2> HIDE DEF T
  <2>5. T = Nat
    BY <2>2, <2>3, <2>4, Induction
  <2> QED
    BY <2>5 DEF T
<1>9. \A v \in Nat : Unsigned[v] \in Seq(Byte)
  <2>1. \A v \in Nat : v \in 0 .. v
    OBVIOUS
  <2> QED
    BY <1>8, <2>1
<1> QED
  BY <1>6, <1>7, <1>9

LEMMA RetIs ==
  /\ Ret \in [Seq(Nat) -> 0 .. (Word - 1)] /\ Ret[<<>>] = 0
  /\ \A s \in Seq(Nat) : s # <<>> => Ret[s] = (Head(s) + Half * Ret[Tail(s)]) % Word
<1> DEFINE D == Seq(Nat)
           V == 0 .. (Word - 1)
           size == [s \in D |-> Len(s)]
           S == [g \in [D -> V] |-> [s \in D |->
                   IF s = <<>> THEN 0 ELSE (Head(s) + Half * g[Tail(s)]) % Word]]
<1>0. /\ \A a \in Nat : a % Word \in V
      /\ 0 \in V
      /\ \A a \in Nat, b \in V : a + Half * b \in Nat
  BY WordIs DEF Half
<1>a. \A s \in D : s # <<>> => Head(s) \in Nat /\ Tail(s) \in D /\ Len(Tail(s)) < Len(s)
  OBVIOUS
<1>b. \A s \in D : Len(s) \in Nat
  OBVIOUS
<1>c. <<>> \in D
  OBVIOUS
<1> HIDE DEF D, V
<1>1. S \in [[D -> V] -> [D -> V]]
  <2>1. ASSUME NEW g \in [D -> V], NEW s \in D
        PROVE  (IF s = <<>> THEN 0 ELSE (Head(s) + Half * g[Tail(s)]) % Word) \in V
    <3>1. CASE s # <<>>
      <4>1. Head(s) \in Nat /\ g[Tail(s)] \in V
        BY <3>1, <1>a
      <4>2. Head(s) + Half * g[Tail(s)] \in Nat
        BY <4>1, <1>0
      <4> QED
        BY <3>1, <4>2, <1>0
    <3> QED
      BY <3>1, <1>0
  <2> QED
    BY <2>1
<1>2. ASSUME NEW g \in [D -> V], NEW h \in [D -> V], NEW x \in D,
             \A y \in D : size[y] < size[x] => g[y] = h[y]
      PROVE  S[g][x] = S[h][x]
  <2>1. x # <<>> => g[Tail(x)] = h[Tail(x)]
    BY <1>2, <1>a
  <2> QED
    BY <2>1
<1>3. size \in [D -> Nat] /\ V # {}
  BY <1>0, <1>b
<1>4. PICK f : Fixed(f, S, D, V)
  <2> HIDE DEF S, size
  <2>1. LooksBack(S, size, D, V)
    BY <1>1, <1>2, <1>3 DEF LooksBack
  <2> QED
    BY <2>1, Recursion
<1>5. f \in [D -> V] /\ f = [s \in D |-> IF s = <<>> THEN 0 ELSE (Head(s) + Half * f[Tail(s)]) % Word]
  BY <1>4 DEF Fixed
<1>6. Ret = [s \in D |-> IF s = <<>> THEN 0 ELSE (Head(s) + Half * Ret[Tail(s)]) % Word]
  BY <1>5 DEF Ret, D
<1>7. ASSUME NEW s \in D, s # <<>>
      PROVE  Ret[s] = (Head(s) + Half * Ret[Tail(s)]) % Word
  BY <1>6, <1>7
<1>8. Ret[<<>>] = 0
  BY <1>6, <1>c
<1>9. {n \in Nat : \A s \in D : Len(s) <= n => Ret[s] \in V} = Nat
  <2> DEFINE T == {n \in Nat : \A s \in D : Len(s) <= n => Ret[s] \in V}
  <2>1. ASSUME NEW s \in D, s = <<>> \/ Ret[Tail(s)] \in V
        PROVE  Ret[s] \in V
    <3>1. CASE s # <<>>
      <4>1. Head(s) + Half * Ret[Tail(s)] \in Nat
        BY <3>1, <2>1, <1>a, <1>0
      <4> QED
        BY <3>1, <4>1, <1>0, <1>7
    <3> QED
      BY <3>1, <1>8, <1>0
  <2>2. 0 \in T
    <3>1. \A s \in D : Len(s) <= 0 => s = <<>>
      BY DEF D
    <3> QED
      BY <2>1, <3>1
  <2>3. ASSUME NEW n \in T
        PROVE  n + 1 \in T
    <3> SUFFICES ASSUME NEW s \in D, Len(s) <= n + 1, s # <<>>
                 PROVE  Ret[s] \in V
      BY <2>1
    <3>1. Len(Tail(s)) <= n /\ Tail(s) \in D
      BY <1>a, <1>b
    <3>2. Ret[Tail(s)] \in V
      BY <3>1
    <3> QED
      BY <2>1, <3>2
  <2>4. T \in SUBSET Nat
    OBVIOUS
  <2> HIDE DEF T
  <2>5. T = Nat
    BY <2>2, <2>3, <2>4, Induction
  <2> QED
    BY <2>5 DEF T
<1>10. \A s \in D : Ret[s] \in V
  <2>1. \A s \in D : Len(s) <= Len(s)
    BY <1>b
  <2> QED
    BY <1>9, <1>b, <2>1
<1>11. Ret \in [D -> V]
  BY <1>6, <1>10
<1> QED
  BY <1>7, <1>8, <1>11 DEF D, V

(***************************************************************************)
(* mul is 128^n until it leaves the word, and then 0: a power of two of    *)
(* which the word is a multiple.                                           *)
(***************************************************************************)
MulSteps(m, next) ==
  \/ m = 0 /\ next = 0
  \/ m # 0 /\ next = Half * m /\ 2 * next <= Word
  \/ m # 0 /\ next = 0 /\ \E j \in Nat : Half * m = Word * j

LEMMA MulStep == \A n \in Nat : MulSteps(Mul[n], Mul[n + 1])
<1> DEFINE Divides(m) == \E k \in Nat : k >= 1 /\ Word = m * PowerOfTwo[k]
<1>1. ASSUME NEW m \in 0 .. (Word - 1), m # 0, Divides(m)
      PROVE  /\ MulSteps(m, (Half * m) % Word)
             /\ (Half * m) % Word = 0 \/ Divides((Half * m) % Word)
  <2>1. PICK k \in Nat : k >= 1 /\ Word = m * PowerOfTwo[k]
    BY <1>1
  <2>2. CASE k >= 8
    <3> DEFINE q == PowerOfTwo[k - 7]
    <3>1. PowerOfTwo[k] = Half * q /\ q \in Nat /\ q >= 2
      <4>1. /\ k - 8 \in Nat /\ k - 7 \in Nat /\ k - 6 \in Nat /\ k - 5 \in Nat /\ k - 4 \in Nat
            /\ k - 3 \in Nat /\ k - 2 \in Nat /\ k - 1 \in Nat
            /\ (k - 8) + 1 = k - 7 /\ (k - 7) + 1 = k - 6 /\ (k - 6) + 1 = k - 5
            /\ (k - 5) + 1 = k - 4 /\ (k - 4) + 1 = k - 3 /\ (k - 3) + 1 = k - 2
            /\ (k - 2) + 1 = k - 1 /\ (k - 1) + 1 = k
        BY <2>2
      <4>2. /\ PowerOfTwo[k - 7] = 2 * PowerOfTwo[k - 8] /\ PowerOfTwo[k - 6] = 2 * PowerOfTwo[k - 7]
            /\ PowerOfTwo[k - 5] = 2 * PowerOfTwo[k - 6] /\ PowerOfTwo[k - 4] = 2 * PowerOfTwo[k - 5]
            /\ PowerOfTwo[k - 3] = 2 * PowerOfTwo[k - 4] /\ PowerOfTwo[k - 2] = 2 * PowerOfTwo[k - 3]
            /\ PowerOfTwo[k - 1] = 2 * PowerOfTwo[k - 2] /\ PowerOfTwo[k] = 2 * PowerOfTwo[k - 1]
        BY <4>1, PowerOfTwoIs
      <4>3. PowerOfTwo[k - 8] \in Nat /\ PowerOfTwo[k - 8] >= 1
        BY <4>1, PowerOfTwoIs
      <4> QED
        BY <4>2, <4>3 DEF Half
    <3> HIDE DEF q
    <3>2. Word = (Half * m) * q /\ Half * m \in Nat \ {0}
      BY <2>1, <3>1, <1>1 DEF Half
    <3>3. 2 * (Half * m) <= Word
      <4> DEFINE a == Half * m
      <4>1. a \in Nat /\ Word = a * q
        BY <3>2
      <4> HIDE DEF a
      <4>2. \E b \in Nat : a * q = 2 * a + b
        <5>1. a * q = 2 * a + a * (q - 2) /\ a * (q - 2) \in Nat
          BY <4>1, <3>1
        <5> QED
          BY <5>1
      <4>3. 2 * a <= Word
        BY <4>1, <4>2
      <4> QED
        BY <4>3 DEF a
    <3>4. (Half * m) % Word = Half * m
      <4> DEFINE a == Half * m
      <4>1. a \in 0 .. (Word - 1)
        BY <3>2, <3>3, WordIs
      <4> HIDE DEF a
      <4>2. a % Word = a
        BY <4>1, WordIs
      <4> QED
        BY <4>2 DEF a
    <3>5. Divides(Half * m)
      <4>1. k - 7 \in Nat /\ k - 7 >= 1
        BY <2>2
      <4> QED
        BY <4>1, <3>2 DEF q
    <3> QED
      BY <3>3, <3>4, <3>5, <1>1 DEF MulSteps
  <2>3. CASE k <= 7
    <3>1. /\ PowerOfTwo[0 + 1] = 2 * PowerOfTwo[0] /\ PowerOfTwo[1 + 1] = 2 * PowerOfTwo[1]
          /\ PowerOfTwo[2 + 1] = 2 * PowerOfTwo[2] /\ PowerOfTwo[3 + 1] = 2 * PowerOfTwo[3]
          /\ PowerOfTwo[4 + 1] = 2 * PowerOfTwo[4] /\ PowerOfTwo[5 + 1] = 2 * PowerOfTwo[5]
          /\ PowerOfTwo[6 + 1] = 2 * PowerOfTwo[6] /\ PowerOfTwo[0] = 1
      BY PowerOfTwoIs
    <3>2. /\ PowerOfTwo[1] = 2 /\ PowerOfTwo[2] = 4 /\ PowerOfTwo[3] = 8 /\ PowerOfTwo[4] = 16
          /\ PowerOfTwo[5] = 32 /\ PowerOfTwo[6] = 64 /\ PowerOfTwo[7] = 128
      BY <3>1
    <3>3. k \in {1, 2, 3, 4, 5, 6, 7}
      BY <2>1, <2>3
    <3>4. \E j \in Nat : Half * m = Word * j
      <4>1. k = 1 => Half * m = Word * 64
        BY <2>1, <3>2, <1>1 DEF Half
      <4>2. k = 2 => Half * m = Word * 32
        BY <2>1, <3>2, <1>1 DEF Half
      <4>3. k = 3 => Half * m = Word * 16
        BY <2>1, <3>2, <1>1 DEF Half
      <4>4. k = 4 => Half * m = Word * 8
        BY <2>1, <3>2, <1>1 DEF Half
      <4>5. k = 5 => Half * m = Word * 4
        BY <2>1, <3>2, <1>1 DEF Half
      <4>6. k = 6 => Half * m = Word * 2
        BY <2>1, <3>2, <1>1 DEF Half
      <4>7. k = 7 => Half * m = Word * 1
        BY <2>1, <3>2, <1>1 DEF Half
      <4> QED
        BY <3>3, <4>1, <4>2, <4>3, <4>4, <4>5, <4>6, <4>7
    <3>5. (Half * m) % Word = 0
      <4>1. PICK j \in Nat : Half * m = Word * j
        BY <3>4
      <4>2. Half * m = 0 + Word * j /\ Half * m \in Int /\ 0 \in Int /\ j \in Int /\ Word \in Nat \ {0}
        BY <4>1, <1>1, WordIs DEF Half
      <4> DEFINE a == Half * m
      <4> HIDE DEF a
      <4>3. a % Word = 0 % Word
        <5>1. a = 0 + Word * j /\ a \in Int
          BY <4>2 DEF a
        <5> QED
          BY <5>1, WordIs, SameRemainder
      <4> QED
        BY <4>3, WordIs DEF a
    <3> QED
      BY <3>4, <3>5, <1>1 DEF MulSteps
  <2> QED
    BY <2>1, <2>2, <2>3
<1> DEFINE T == {n \in Nat : Mul[n] = 0 \/ Divides(Mul[n])}
<1>2. T = Nat
  <2>1. 0 \in T
    <3>1. PICK bits \in Nat : bits >= 8 /\ Word = PowerOfTwo[bits]
      BY WordIs
    <3>2. Word = 1 * PowerOfTwo[bits]
      BY <3>1, WordIs
    <3>3. Divides(1)
      BY <3>1, <3>2
    <3> HIDE DEF Divides
    <3> QED
      BY <3>3, MulIs
  <2>2. ASSUME NEW n \in T
        PROVE  n + 1 \in T
    <3>1. n \in Nat /\ (Mul[n] = 0 \/ Divides(Mul[n])) /\ Mul[n] \in 0 .. (Word - 1)
      BY MulIs
    <3>2. Mul[n + 1] = (Half * Mul[n]) % Word
      BY <3>1, MulIs
    <3> HIDE DEF Divides
    <3>3. Mul[n] = 0 => Mul[n + 1] = 0
      BY <3>2, WordIs DEF Half
    <3> QED
      BY <1>1, <3>1, <3>2, <3>3
  <2> HIDE DEF Divides
  <2>3. T \in SUBSET Nat
    OBVIOUS
  <2> HIDE DEF T
  <2> QED
    BY <2>1, <2>2, <2>3, Induction
<1> HIDE DEF Divides
<1> SUFFICES ASSUME NEW n \in Nat
             PROVE  MulSteps(Mul[n], Mul[n + 1])
  OBVIOUS
<1>3. Mul[n + 1] = (Half * Mul[n]) % Word /\ Mul[n] \in 0 .. (Word - 1)
  BY MulIs
<1>4. Mul[n] = 0 \/ Divides(Mul[n])
  BY <1>2
<1>5. CASE Mul[n] = 0
  BY <1>3, <1>5, WordIs DEF MulSteps, Half
<1>6. CASE Mul[n] # 0
  BY <1>1, <1>3, <1>4, <1>6
<1> QED
  BY <1>5, <1>6

(***************************************************************************)
(* Numbers: decodeValue's loop over the bytes of one number.               *)
(***************************************************************************)
LEMMA StrongInduction ==
  ASSUME NEW T \in SUBSET Nat, \A n \in Nat : (\A k \in Nat : k < n => k \in T) => n \in T
  PROVE  T = Nat
<1> SUFFICES ASSUME Nat \ T # {}
             PROVE  FALSE
  OBVIOUS
<1>1. PICK m \in Nat \ T : \A k \in Nat \ T : m <= k
  BY LeastNumber
<1>2. \A k \in Nat : k < m => k \in T
  BY <1>1
<1> QED
  BY <1>1, <1>2

\* The bytes of one number: the top bit is set in the last and only there.
Digits(s) ==
  /\ s \in Seq(Byte) /\ Len(s) >= 1 /\ s[Len(s)] >= Half
  /\ \A i \in 1 .. (Len(s) - 1) : s[i] < Half

LEMMA TailOf ==
  ASSUME NEW D, NEW s \in Seq(D), s # <<>>
  PROVE  /\ Tail(s) \in Seq(D) /\ Head(s) \in D /\ Head(s) = s[1] /\ s = <<Head(s)>> \o Tail(s)
         /\ Len(Tail(s)) = Len(s) - 1 /\ Len(s) >= 1 /\ \A i \in 1 .. (Len(s) - 1) : Tail(s)[i] = s[i + 1]
OBVIOUS

LEMMA SeqIn ==
  ASSUME NEW D, NEW E, D \subseteq E, NEW s \in Seq(D)
  PROVE  s \in Seq(E)
OBVIOUS

LEMMA NoneIn ==
  ASSUME NEW D, NEW s \in Seq(D), Len(s) = 0
  PROVE  s = <<>>
OBVIOUS

LEMMA InWord == \A a \in Nat : a < Word => a % Word = a
<1> SUFFICES ASSUME NEW a \in Nat, a < Word PROVE a % Word = a
  OBVIOUS
<1>1. Word \in Nat \ {0}
  BY WordIs
<1> QED
  BY <1>1

LEMMA RetNat ==
  /\ \A s \in Seq(Nat) : Ret[s] \in Nat /\ Ret[s] < Word
  /\ \A n \in Nat : Mul[n] \in Nat
  /\ Mul[1] = Half
<1>1. Word \in Nat /\ Ret \in [Seq(Nat) -> 0 .. (Word - 1)] /\ Mul \in [Nat -> 0 .. (Word - 1)]
  BY WordIs, RetIs, MulIs
<1>2. \A s \in Seq(Nat) : Ret[s] \in 0 .. (Word - 1)
  BY <1>1
<1>3. \A n \in Nat : Mul[n] \in 0 .. (Word - 1)
  BY <1>1
<1>4. Mul[1] = Half
  <2>1. Mul[0 + 1] = (Half * Mul[0]) % Word /\ Mul[0] = 1
    BY MulIs
  <2>2. 128 % Word = 128 /\ Half * 1 = 128 /\ 0 + 1 = 1
    BY InWord, WordIs DEF Half
  <2> QED
    BY <2>1, <2>2 DEF Half
<1> QED
  BY <1>1, <1>2, <1>3, <1>4

LEMMA DigitsShape ==
  ASSUME NEW s, Digits(s)
  PROVE  /\ s \in Seq(Nat) /\ s # <<>> /\ Head(s) \in 0 .. 255 /\ Tail(s) \in Seq(Nat) /\ Len(s) >= 1
         /\ Len(s) \in Nat /\ Len(Tail(s)) = Len(s) - 1
         /\ Len(s) = 1 => Head(s) >= Half /\ Tail(s) = <<>>
         /\ Len(s) # 1 => Head(s) < Half /\ Digits(Tail(s))
<1>0. s \in Seq(Byte) /\ s # <<>> /\ Byte \subseteq Nat
  BY OctetAssumption DEF Digits
<1>1. /\ Tail(s) \in Seq(Byte) /\ Head(s) \in Byte /\ Head(s) = s[1]
      /\ Len(Tail(s)) = Len(s) - 1 /\ \A i \in 1 .. (Len(s) - 1) : Tail(s)[i] = s[i + 1]
  BY <1>0, TailOf
<1>2. s \in Seq(Nat) /\ Tail(s) \in Seq(Nat)
  BY <1>0, <1>1, SeqIn
<1>3. Len(s) \in Nat /\ Len(s) >= 1
  BY <1>0
<1>4. ASSUME Len(s) = 1 PROVE Head(s) >= Half /\ Tail(s) = <<>>
  <2>1. Tail(s) = <<>>
    <3>1. Len(Tail(s)) = 0 /\ Tail(s) \in Seq(Byte)
      BY <1>1, <1>4
    <3> DEFINE t == Tail(s)
    <3> HIDE DEF t
    <3>2. t = <<>>
      BY <3>1, NoneIn DEF t
    <3> QED
      BY <3>2 DEF t
  <2> QED
    BY <1>1, <1>4, <2>1 DEF Digits
<1>5. ASSUME Len(s) # 1 PROVE Head(s) < Half /\ Digits(Tail(s))
  <2>1. Head(s) < Half
    BY <1>1, <1>3, <1>5 DEF Digits
  <2>2. Len(Tail(s)) >= 1 /\ Tail(s)[Len(Tail(s))] = s[Len(s)]
    BY <1>1, <1>3, <1>5
  <2>3. \A i \in 1 .. (Len(Tail(s)) - 1) : Tail(s)[i] < Half
    BY <1>1, <1>3 DEF Digits
  <2>4. s[Len(s)] >= Half
    BY DEF Digits
  <2> QED
    BY <2>1, <2>2, <2>3, <2>4, <1>1 DEF Digits
<1> QED
  BY <1>0, <1>1, <1>2, <1>3, <1>4, <1>5, OctetAssumption

\* While mul has not left the word, the bytes read so far have their top bit at mul.
LEMMA RetAbove ==
  \A s : Digits(s) => /\ Ret[s] \in Nat /\ Mul[Len(s)] \in Nat /\ Ret[s] < Word
                      /\ Mul[Len(s)] <= Ret[s]
                      /\ Mul[Len(s)] # 0 => Ret[s] < 2 * Mul[Len(s)]
<1> DEFINE P(s) == /\ Mul[Len(s)] <= Ret[s]
                   /\ Mul[Len(s)] # 0 => Ret[s] < 2 * Mul[Len(s)]
           T == {n \in Nat : \A s : Digits(s) /\ Len(s) = n => P(s)}
<1>1. ASSUME NEW n \in Nat, \A k \in Nat : k < n => k \in T, NEW s, Digits(s), Len(s) = n
      PROVE  P(s)
  <2>1. /\ s \in Seq(Nat) /\ s # <<>> /\ Head(s) \in 0 .. 255 /\ Tail(s) \in Seq(Nat) /\ Len(s) >= 1
        /\ Len(s) \in Nat /\ Len(Tail(s)) = Len(s) - 1
        /\ Len(s) = 1 => Head(s) >= Half /\ Tail(s) = <<>>
        /\ Len(s) # 1 => Head(s) < Half /\ Digits(Tail(s))
    BY <1>1, DigitsShape
  <2> DEFINE h == Head(s)
  <2> HIDE DEF h
  <2>0. h \in 0 .. 255 /\ (Len(s) = 1 => h >= Half)
    BY <2>1 DEF h
  <2>2. Ret[s] = (Head(s) + Half * Ret[Tail(s)]) % Word /\ Ret[Tail(s)] \in Nat
    BY <2>1, RetIs, RetNat
  <2>3. CASE n = 1
    <3>1. Ret[s] = Head(s)
      <4>1. Ret[Tail(s)] = 0
        BY <2>1, <2>3, <1>1, RetIs
      <4>2. Ret[s] = Head(s) % Word
        BY <4>1, <2>1, <2>2 DEF Half
      <4>3. h \in Nat /\ h < Word
        BY <2>0, WordIs
      <4> QED
        BY <4>2, <4>3, InWord DEF h
    <3>2. Mul[Len(s)] = 128
      BY RetNat, <2>3, <1>1 DEF Half
    <3>3. h \in 128 .. 255
      BY <2>0, <2>3, <1>1 DEF Half
    <3>4. Ret[s] = h
      BY <3>1 DEF h
    <3> DEFINE m == Mul[Len(s)]
               r == Ret[s]
    <3> HIDE DEF m, r
    <3>5. m <= r /\ (m # 0 => r < 2 * m)
      <4>1. m = 128 /\ r = h
        BY <3>2, <3>4 DEF m, r
      <4> QED
        BY <4>1, <3>3
    <3> QED
      BY <3>5 DEF m, r
  <2>4. CASE n # 1
    <3> DEFINE m == Mul[n - 1]
               r == Ret[Tail(s)]
               next == Mul[n]
    <3>1. n - 1 \in Nat /\ (n - 1) + 1 = n /\ n - 1 < n
      BY <1>1, <2>1, <2>4
    <3>2. MulSteps(m, next) /\ m \in Nat /\ next \in Nat
      <4>1. MulSteps(Mul[n - 1], Mul[(n - 1) + 1])
        BY <3>1, MulStep
      <4> QED
        BY <4>1, <3>1, MulIs
    <3>3. P(Tail(s))
      <4> HIDE DEF P
      <4> QED
        BY <1>1, <2>1, <2>4, <3>1
    <3>4. m <= r /\ (m # 0 => r < 2 * m) /\ r \in Nat
      BY <3>3, <2>1, <2>2, <1>1
    <3>5. CASE next = 0
      BY <3>5, <1>1, <2>1, RetIs
    <3>6. CASE next # 0
      <4> HIDE DEF m, r, next
      <4>1. next = Half * m /\ 2 * next <= Word /\ m # 0
        BY <3>2, <3>6 DEF MulSteps
      <4>2. Head(s) + Half * r \in next .. (2 * next - 1)
        BY <4>1, <3>4, <3>2, <2>1, <2>4, <1>1 DEF Half
      <4>3. Head(s) + Half * r \in 0 .. (Word - 1)
        BY <4>1, <4>2, <3>2, WordIs
      <4>4. (Head(s) + Half * r) % Word = Head(s) + Half * r
        <5> DEFINE a == Head(s) + Half * r
        <5>1. a \in 0 .. (Word - 1)
          BY <4>3
        <5> HIDE DEF a
        <5>2. a % Word = a
          BY <5>1, WordIs
        <5> QED
          BY <5>2 DEF a
      <4>5. Ret[s] = Head(s) + Half * r
        BY <4>4, <2>2 DEF r
      <4> QED
        BY <4>5, <4>2, <3>2, <1>1 DEF next
    <3> QED
      BY <3>5, <3>6
  <2> QED
    BY <2>3, <2>4
<1> HIDE DEF P
<1>2. \A n \in Nat : (\A k \in Nat : k < n => k \in T) => n \in T
  BY <1>1
<1>3. T \in SUBSET Nat
  OBVIOUS
<1> HIDE DEF T
<1>4. T = Nat
  BY <1>2, <1>3, StrongInduction
<1>5. ASSUME NEW s, Digits(s)
      PROVE  P(s) /\ Ret[s] \in Nat /\ Mul[Len(s)] \in Nat /\ Ret[s] < Word
  <2>1. s \in Seq(Nat) /\ Len(s) \in Nat
    BY <1>5, DigitsShape
  <2>2. P(s)
    BY <2>1, <1>4, <1>5 DEF T
  <2> QED
    BY <2>1, <2>2, RetNat
<1> QED
  BY <1>5 DEF P

LEMMA NumberIs == \A s : Digits(s) => Number(s) \in 0 .. (Word - 1)
<1> SUFFICES ASSUME NEW s, Digits(s) PROVE Number(s) \in 0 .. (Word - 1)
  OBVIOUS
<1> QED
  BY RetAbove, WordIs DEF Number

(***************************************************************************)
(* What was sent is what is read: the digits of a number are decoded to it.*)
(***************************************************************************)
LEMMA UnsignedDigits == \A v \in Nat : Digits(Unsigned[v])
<1> DEFINE T == {v \in Nat : Digits(Unsigned[v])}
<1>1. ASSUME NEW v \in Nat, \A k \in Nat : k < v => k \in T
      PROVE  v \in T
  <2>1. CASE v < Half
    <3>1. Unsigned[v] = <<v + Half>>
      BY <2>1, UnsignedIs
    <3>2. v + Half \in Byte /\ v + Half >= Half
      BY <2>1, OctetAssumption DEF Half
    <3> DEFINE b == v + Half
    <3> HIDE DEF b
    <3>3. b \in Byte => <<b>> \in Seq(Byte) /\ Len(<<b>>) = 1 /\ <<b>>[1] = b
      OBVIOUS
    <3>4. Digits(<<b>>)
      BY <3>2, <3>3 DEF Digits, b
    <3> QED
      BY <3>1, <3>4 DEF b
  <2>2. CASE ~(v < Half)
    <3>1. v >= Half /\ v % Half \in 0 .. 127 /\ v \div Half \in Nat /\ v \div Half < v
      BY <2>2 DEF Half
    <3>2. Digits(Unsigned[v \div Half])
      BY <3>1, <1>1
    <3>3. Unsigned[v] = <<v % Half>> \o Unsigned[v \div Half]
      BY <3>1, UnsignedIs
    <3> DEFINE t == Unsigned[v \div Half]
               h == v % Half
    <3>4. h \in Byte /\ h < Half
      BY <3>1, OctetAssumption DEF Half
    <3> HIDE DEF t, h
    <3>5. t \in Seq(Byte) /\ Len(t) >= 1 /\ t[Len(t)] >= Half /\ \A i \in 1 .. (Len(t) - 1) : t[i] < Half
      BY <3>2 DEF Digits, t
    <3>6. /\ <<h>> \o t \in Seq(Byte) /\ Len(<<h>> \o t) = 1 + Len(t) /\ (<<h>> \o t)[1] = h
          /\ \A i \in 1 .. Len(t) : (<<h>> \o t)[1 + i] = t[i]
      BY <3>4, <3>5
    <3>7. Digits(<<h>> \o t)
      <4>1. (<<h>> \o t)[Len(<<h>> \o t)] >= Half /\ Len(<<h>> \o t) >= 1
        BY <3>5, <3>6
      <4>2. ASSUME NEW i \in 1 .. (Len(<<h>> \o t) - 1) PROVE (<<h>> \o t)[i] < Half
        <5>1. CASE i = 1
          BY <5>1, <3>6, <3>4
        <5>2. CASE i # 1
          <6>1. i - 1 \in 1 .. (Len(t) - 1) /\ 1 + (i - 1) = i
            BY <5>2, <3>6, <3>5
          <6>2. (<<h>> \o t)[1 + (i - 1)] = t[i - 1]
            BY <6>1, <3>6, <3>5
          <6> QED
            BY <6>1, <6>2, <3>5
        <5> QED
          BY <5>1, <5>2
      <4> QED
        BY <4>1, <4>2, <3>6 DEF Digits
    <3> QED
      BY <3>7, <3>3 DEF t, h
  <2> QED
    BY <2>1, <2>2
<1>2. T \in SUBSET Nat
  OBVIOUS
<1> HIDE DEF T
<1>3. T = Nat
  BY <1>1, <1>2, StrongInduction
<1> QED
  BY <1>3 DEF T

\* decodeValue gives the number that was encoded: of all numbers of a word, the
\* borders at 7 bits and at the top of the word included.
THEOREM NumberRoundTrip == \A v \in 0 .. (Word - 1) : Number(Unsigned[v]) = v
<1> DEFINE P(v) == v < Word => /\ Ret[Unsigned[v]] = v + Mul[Len(Unsigned[v])]
                               /\ Mul[Len(Unsigned[v])] # 0 => v < Mul[Len(Unsigned[v])]
           T == {v \in Nat : P(v)}
<1>1. ASSUME NEW v \in Nat, \A k \in Nat : k < v => k \in T, v < Word
      PROVE  /\ Ret[Unsigned[v]] = v + Mul[Len(Unsigned[v])]
             /\ Mul[Len(Unsigned[v])] # 0 => v < Mul[Len(Unsigned[v])]
  <2> DEFINE s == Unsigned[v]
  <2>0. /\ s \in Seq(Nat) /\ s # <<>> /\ Len(s) \in Nat
    BY UnsignedDigits, DigitsShape
  <2>1. CASE v < Half
    <3>1. s = <<v + Half>>
      BY <2>1, UnsignedIs
    <3>2. Mul[1] = Half
      BY RetNat
    <3>3. Len(s) = 1 /\ Head(s) = v + Half /\ Tail(s) = <<>>
      BY <3>1
    <3>4. Ret[s] = (Head(s) + Half * Ret[Tail(s)]) % Word
      BY <2>0, RetIs
    <3>5. Ret[s] = v + Half
      <4>1. Ret[Tail(s)] = 0
        BY <3>3, RetIs
      <4>2. Ret[s] = (v + Half) % Word
        BY <4>1, <3>3, <3>4 DEF Half
      <4>3. v + Half \in Nat /\ v + Half < Word
        BY <2>1, WordIs DEF Half
      <4> QED
        BY <4>2, <4>3, InWord
    <3> QED
      BY <3>2, <3>3, <3>5, <2>1
  <2>2. CASE ~(v < Half)
    <3> DEFINE w == v \div Half
               h == v % Half
               t == Unsigned[w]
    <3>1. v >= Half /\ h \in 0 .. 127 /\ w \in Nat /\ w < v /\ v = h + Half * w
      BY <2>2 DEF Half
    <3>2. s = <<h>> \o t
      BY <3>1, UnsignedIs
    <3>3. t \in Seq(Nat) /\ Len(t) \in Nat
      BY <3>1, UnsignedDigits, DigitsShape
    <3> HIDE DEF h, t, w
    <3>4. Len(s) = Len(t) + 1 /\ Head(s) = h /\ Tail(s) = t
      BY <3>1, <3>2, <3>3
    <3>5. Ret[s] = (h + Half * Ret[t]) % Word
      BY <2>0, <3>4, RetIs
    <3> DEFINE m == Mul[Len(t)]
               next == Mul[Len(t) + 1]
    <3>6. P(w)
      BY <3>1, <1>1
    <3>7. Ret[t] = w + m /\ (m # 0 => w < m)
      <4>1. w < Word
        BY <3>1, <1>1, WordIs
      <4> QED
        BY <3>6, <4>1 DEF t
    <3>8. MulSteps(m, next) /\ m \in Nat /\ next \in Nat
      BY <3>3, MulStep, RetNat
    <3> HIDE DEF m, next
    <3>9. Half * Ret[t] = Half * w + Half * m
      BY <3>7, <3>8, <3>1 DEF Half
    <3>10. h + Half * Ret[t] = v + Half * m /\ Half * m \in Nat
      BY <3>9, <3>1, <3>8 DEF Half
    <3>11. Ret[s] = (v + Half * m) % Word
      BY <3>5, <3>10
    <3>12. Ret[s] = v + next /\ (next # 0 => v < next)
      <4>1. CASE m = 0
        <5>1. next = 0
          BY <4>1, <3>8 DEF MulSteps, Half
        <5> QED
          BY <4>1, <5>1, <3>11, <1>1, WordIs DEF Half
      <4>2. CASE m # 0 /\ next # 0
        <5>1. next = Half * m /\ 2 * next <= Word
          BY <4>2, <3>8 DEF MulSteps
        <5>2. v < next
          BY <5>1, <4>2, <3>7, <3>1, <3>8 DEF Half
        <5>3. v + next \in 0 .. (Word - 1)
          BY <5>1, <5>2, <3>8, WordIs
        <5>4. (v + next) % Word = v + next
          BY <5>3, InWord, <3>8, WordIs
        <5> QED
          BY <5>1, <5>2, <5>4, <3>11
      <4>3. CASE m # 0 /\ next = 0
        <5>1. PICK j \in Nat : Half * m = Word * j
          <6>1. next # Half * m
            BY <4>3, <3>8 DEF Half
          <6> QED
            BY <6>1, <4>3, <3>8 DEF MulSteps
        <5> DEFINE a == v + Half * m
        <5>2. a \in Int /\ a = v + Word * j
          BY <5>1, <3>10
        <5> HIDE DEF a
        <5>3. a % Word = v % Word
          BY <5>2, WordIs, SameRemainder
        <5>4. v % Word = v
          BY <1>1, InWord
        <5> QED
          BY <5>3, <5>4, <3>11, <4>3 DEF a
      <4> QED
        BY <4>1, <4>2, <4>3
    <3> QED
      BY <3>12, <3>4 DEF next
  <2> QED
    BY <2>1, <2>2
<1>2. \A n \in Nat : (\A k \in Nat : k < n => k \in T) => n \in T
  BY <1>1
<1>3. T \in SUBSET Nat
  OBVIOUS
<1> HIDE DEF T
<1>4. T = Nat
  BY <1>2, <1>3, StrongInduction
<1>5. ASSUME NEW v \in 0 .. (Word - 1)
      PROVE  Number(Unsigned[v]) = v
  <2>1. v \in Nat /\ v < Word
    BY WordIs
  <2>2. P(v)
    BY <2>1, <1>4 DEF T
  <2>3. Mul[Len(Unsigned[v])] \in Nat
    BY <2>1, UnsignedDigits, RetAbove
  <2> QED
    BY <2>1, <2>2, <2>3 DEF Number
<1> QED
  BY <1>5

(***************************************************************************)
(* The ring: what RingBufferProofs.tla proves, of the decoder's ring.       *)
(***************************************************************************)
R == INSTANCE RingBufferProofs
       WITH MaxBytes <- 0, MaxChunk <- 1, MaxRollbacks <- 0,
            data <- <<>>, cur <- EmptyCursor, rollbacks <- <<>>, stream <- <<>>, out <- <<>>

LEMMA RingIsRing == R!CapAssumption /\ R!ByteAssumption /\ R!BoundsAssumption
BY CapAssumption, ByteAssumption DEF R!CapAssumption, R!ByteAssumption, R!BoundsAssumption

Wrap(i) == IF i >= Cap THEN i - Cap ELSE i

\* A cursor that has read n bytes more.
Consumed(c, n) ==
  [c EXCEPT !.read_pos = Wrap(c.read_pos + n), !.num_read = @ + n, !.unread = @ - n]

\* The unread bytes of the ring, in order.
Window(d, c, w) ==
  /\ d \in Storage /\ c \in Cursor /\ w \in Seq(Byte)
  /\ c.read_pos \in Index /\ c.unread = Len(w) /\ Len(w) <= Cap
  /\ \A i \in 1 .. Len(w) : d[Wrap(c.read_pos + (i - 1))] = w[i]

LEMMA SameRing ==
  /\ R!Index = Index /\ R!Cursor = Cursor
  /\ \A i : R!Wrap(i) = Wrap(i)
  /\ \A c, n : R!ToRead(c, n) = ToRead(c, n)
  /\ \A d, c, n : R!Extracted(d, c, n) = Extracted(d, c, n)
  /\ \A p, n : R!Advance(p, n) = Advance(p, n)
  /\ \A c, n : R!AfterExtract(c, n) = AfterExtract(c, n)
  /\ \A c : R!AfterNext(c) = AfterNext(c)
<1>1. R!Index = Index /\ R!Cursor = Cursor /\ \A i : R!Wrap(i) = Wrap(i)
  BY DEF R!Index, Index, R!Cursor, Cursor, R!Wrap, Wrap
<1>2. \A c, n : R!ToRead(c, n) = ToRead(c, n)
  BY DEF R!ToRead, ToRead, R!SizeMin, SizeMin
<1>3. \A d, c, n : R!Extracted(d, c, n) = Extracted(d, c, n)
  BY <1>2 DEF R!Extracted, Extracted, R!Slice, Slice
<1>4. \A p, n : R!Advance(p, n) = Advance(p, n)
  BY DEF R!Advance, Advance
<1>5. \A c, n : R!AfterExtract(c, n) = AfterExtract(c, n)
  <2>1. \A c, n : R!AfterExtract(c, n) =
          [c EXCEPT !.read_pos = Advance(c.read_pos, ToRead(c, n)),
                    !.num_read = c.num_read + ToRead(c, n), !.unread = c.unread - ToRead(c, n)]
    BY <1>2, <1>4, Zenon DEF R!AfterExtract
  <2> QED
    BY <2>1 DEF AfterExtract
<1>6. \A c : R!AfterNext(c) = AfterNext(c)
  BY DEF R!AfterNext, AfterNext
<1> QED
  BY <1>1, <1>2, <1>3, <1>4, <1>5, <1>6

LEMMA Extraction ==
  ASSUME NEW d, NEW c, NEW w, Window(d, c, w), NEW n \in Nat
  PROVE  /\ ToRead(c, n) \in 0 .. Len(w) /\ ToRead(c, n) = SizeMin(n, Len(w))
         /\ AfterExtract(c, n) = Consumed(c, ToRead(c, n))
         /\ Extracted(d, c, n) = SubSeq(w, 1, ToRead(c, n))
<1>1. /\ d \in [Index -> Byte] /\ c \in Cursor /\ c.read_pos \in Index /\ c.unread <= Cap
      /\ c.unread = Len(w) /\ w \in Seq(Byte) /\ Len(w) \in Nat
      /\ \A i \in 1 .. Len(w) : d[Wrap(c.read_pos + (i - 1))] = w[i]
  BY DEF Window, Storage
<1>2. R!CapAssumption /\ R!ByteAssumption /\ R!BoundsAssumption
  BY RingIsRing
<1>3. /\ R!ToRead(c, n) \in 0 .. c.unread
      /\ R!AfterExtract(c, n) =
           [c EXCEPT !.read_pos = R!Wrap(c.read_pos + R!ToRead(c, n)),
                     !.num_read = @ + R!ToRead(c, n), !.unread = @ - R!ToRead(c, n)]
  <2>1. c \in R!Cursor /\ c.read_pos \in R!Index /\ c.unread <= Cap
    BY <1>1, SameRing
  <2> QED
    BY <1>2, <2>1, R!AfterExtractIsConsume
<1>4. /\ R!Extracted(d, c, n) \in Seq(Byte)
      /\ Len(R!Extracted(d, c, n)) = R!ToRead(c, n)
      /\ \A i \in 1 .. R!ToRead(c, n) :
            R!Extracted(d, c, n)[i] = d[R!Wrap(c.read_pos + (i - 1))]
  BY <1>1, <1>2, SameRing, R!ExtractedBytes
<1>5. ToRead(c, n) \in 0 .. Len(w) /\ ToRead(c, n) = SizeMin(n, Len(w))
  BY <1>1, <1>3, SameRing DEF ToRead
<1>6. AfterExtract(c, n) = Consumed(c, ToRead(c, n))
  BY <1>3, SameRing DEF Consumed
<1> DEFINE e == Extracted(d, c, n)
           k == ToRead(c, n)
<1>7. e \in Seq(Byte) /\ Len(e) = k /\ \A i \in 1 .. k : e[i] = d[Wrap(c.read_pos + (i - 1))]
  BY <1>4, SameRing
<1> HIDE DEF e, k
<1>8. k \in 0 .. Len(w)
  BY <1>5 DEF k
<1>9. \A i \in 1 .. k : e[i] = w[i]
  <2>1. \A i \in 1 .. k : i \in 1 .. Len(w)
    BY <1>1, <1>8
  <2>2. \A i \in 1 .. Len(w) : d[Wrap(c.read_pos + (i - 1))] = w[i]
    BY <1>1
  <2>3. \A i \in 1 .. k : e[i] = d[Wrap(c.read_pos + (i - 1))]
    BY <1>7
  <2> HIDE DEF Wrap
  <2> QED
    BY <2>1, <2>2, <2>3, Zenon
<1>10. e = SubSeq(w, 1, k)
  <2> DEFINE f == SubSeq(w, 1, k)
  <2>1. f \in Seq(Byte) /\ Len(f) = k /\ \A i \in 1 .. k : f[i] = w[i]
    BY <1>1, <1>8
  <2> HIDE DEF f
  <2>2. e = f
    BY <2>1, <1>7, <1>8, <1>9
  <2> QED
    BY <2>2 DEF f
<1> QED
  BY <1>5, <1>6, <1>10 DEF e, k

\* Reading moves the window.
LEMMA ConsumedWindow ==
  ASSUME NEW d, NEW c, NEW w, Window(d, c, w), NEW n \in 0 .. Len(w)
  PROVE  /\ Consumed(c, n) \in Cursor /\ Window(d, Consumed(c, n), SubSeq(w, n + 1, Len(w)))
         /\ Consumed(c, n).num_read = c.num_read + n /\ Consumed(c, n).unread = Len(w) - n
         /\ SubSeq(w, n + 1, Len(w)) \in Seq(Byte) /\ Len(SubSeq(w, n + 1, Len(w))) = Len(w) - n
<1> DEFINE e == Consumed(c, n)
           v == SubSeq(w, n + 1, Len(w))
<1>1. /\ d \in Storage /\ c \in Cursor /\ c.read_pos \in Index /\ Len(w) <= Cap
      /\ c.unread = Len(w) /\ w \in Seq(Byte) /\ Len(w) \in Nat /\ n \in Nat /\ n <= Len(w)
      /\ \A i \in 1 .. Len(w) : d[Wrap(c.read_pos + (i - 1))] = w[i]
  BY DEF Window
<1>2. v \in Seq(Byte) /\ Len(v) = Len(w) - n /\ \A i \in 1 .. (Len(w) - n) : v[i] = w[n + i]
  BY <1>1
<1>3. Wrap(c.read_pos + n) \in Index
  BY <1>1, CapAssumption DEF Wrap, Index
<1>4. /\ e.read_pos = Wrap(c.read_pos + n) /\ e.num_read = c.num_read + n /\ e.unread = c.unread - n
      /\ e.write_pos = c.write_pos /\ e \in Cursor
  <2>1. Wrap(c.read_pos + n) \in Nat /\ c.num_read + n \in Nat /\ c.unread - n \in Nat
    BY <1>1, <1>3 DEF Cursor, Index
  <2> QED
    BY <1>1, <2>1 DEF Consumed, Cursor
<1> HIDE DEF e, v
<1>5. ASSUME NEW i \in 1 .. Len(v)
      PROVE  d[Wrap(e.read_pos + (i - 1))] = v[i]
  <2>1. n + i \in 1 .. Len(w) /\ i - 1 \in Nat /\ n + (i - 1) <= Cap
    BY <1>1, <1>2, CapAssumption
  <2>2. Wrap(Wrap(c.read_pos + n) + (i - 1)) = Wrap(c.read_pos + ((n + i) - 1))
    BY <1>1, <2>1, CapAssumption DEF Wrap, Index
  <2>3. d[Wrap(c.read_pos + ((n + i) - 1))] = w[n + i]
    BY <1>1, <2>1
  <2> QED
    BY <2>1, <2>2, <2>3, <1>2, <1>4
<1>6. Window(d, e, v)
  <2>1. e.unread = Len(v) /\ Len(v) <= Cap
    BY <1>1, <1>2, <1>4, CapAssumption
  <2> QED
    BY <2>1, <1>1, <1>2, <1>3, <1>4, <1>5 DEF Window
<1> QED
  BY <1>1, <1>2, <1>4, <1>6 DEF e, v

LEMMA ConsumedTwice ==
  ASSUME NEW d, NEW c, NEW w, Window(d, c, w), NEW n \in 0 .. Len(w), NEW m \in 0 .. (Len(w) - n)
  PROVE  Consumed(Consumed(c, n), m) = Consumed(c, n + m)
<1>1. /\ c \in Cursor /\ c.read_pos \in Index /\ Len(w) <= Cap /\ Len(w) \in Nat
      /\ n \in Nat /\ m \in Nat /\ n + m <= Cap
  BY CapAssumption DEF Window
<1>2. Wrap(Wrap(c.read_pos + n) + m) = Wrap(c.read_pos + (n + m))
  BY <1>1, CapAssumption DEF Wrap, Index
<1> DEFINE e == Consumed(c, n)
<1>3. /\ e.read_pos = Wrap(c.read_pos + n) /\ e.num_read = c.num_read + n
      /\ e.unread = c.unread - n /\ e.write_pos = c.write_pos
  BY <1>1 DEF Consumed, Cursor
<1>4. (c.num_read + n) + m = c.num_read + (n + m) /\ (c.unread - n) - m = c.unread - (n + m)
  BY <1>1 DEF Cursor
<1> QED
  BY <1>1, <1>2, <1>3, <1>4 DEF Consumed, Cursor

LEMMA ConsumedNone ==
  ASSUME NEW d, NEW c, NEW w, Window(d, c, w)
  PROVE  Consumed(c, 0) = c
<1>1. c \in Cursor /\ Wrap(c.read_pos + 0) = c.read_pos /\ c.num_read + 0 = c.num_read /\ c.unread - 0 = c.unread
  BY CapAssumption DEF Window, Wrap, Index, Cursor
<1> QED
  BY <1>1 DEF Consumed, Cursor

(***************************************************************************)
(* decodeValue on a window: the digits up to the first byte with the top   *)
(* bit, or nothing at all.                                                 *)
(***************************************************************************)
Got(ok, c, k, val) == [ok |-> ok, cur |-> Consumed(c, k), val |-> val]

Prefix(w, k) == SubSeq(w, 1, k)

Rest(w, k) == SubSeq(w, k + 1, Len(w))

LEMMA PrefixIs ==
  ASSUME NEW D, NEW w \in Seq(D), NEW k \in 0 .. Len(w)
  PROVE  /\ Prefix(w, k) \in Seq(D) /\ Len(Prefix(w, k)) = k /\ \A i \in 1 .. k : Prefix(w, k)[i] = w[i]
         /\ Rest(w, k) \in Seq(D) /\ Len(Rest(w, k)) = Len(w) - k
         /\ \A i \in 1 .. (Len(w) - k) : Rest(w, k)[i] = w[k + i]
         /\ Len(w) \in Nat
BY DEF Prefix, Rest

LEMMA WindowAdvance ==
  ASSUME NEW d, NEW c, NEW w, Window(d, c, w), NEW i \in 1 .. Len(w)
  PROVE  d[Advance(c.read_pos, i - 1)] = w[i]
<1>1. c.read_pos \in R!Index /\ i - 1 \in 0 .. Cap
  BY SameRing, CapAssumption DEF Window
<1>2. R!Advance(c.read_pos, i - 1) = R!Wrap(c.read_pos + (i - 1))
  BY <1>1, RingIsRing, R!AdvanceIsWrap
<1>3. Advance(c.read_pos, i - 1) = Wrap(c.read_pos + (i - 1))
  BY <1>2, SameRing
<1>4. d[Wrap(c.read_pos + (i - 1))] = w[i]
  BY DEF Window
<1> QED
  BY <1>3, <1>4

LEMMA ValueReads ==
  ASSUME NEW d, NEW c, NEW w, Window(d, c, w)
  PROVE  \/ \E k \in 1 .. Len(w) : /\ Digits(Prefix(w, k))
                                   /\ DecodeValue[<<d, c>>] = Got(TRUE, c, k, <<Number(Prefix(w, k))>>)
         \/ /\ \A i \in 1 .. Len(w) : w[i] < Half
            /\ DecodeValue[<<d, c>>] = Got(FALSE, c, Len(w), <<>>)
<1> DEFINE L == LastBytes(d, c)
<1>1. d \in Storage /\ c \in Cursor /\ c.unread = Len(w) /\ w \in Seq(Byte) /\ Len(w) \in Nat
  BY DEF Window
<1>2. \A i \in 1 .. Len(w) : i \in L <=> w[i] >= Half
  BY <1>1, WindowAdvance DEF LastBytes
<1>3. L \subseteq 1 .. Len(w)
  BY <1>1 DEF LastBytes
<1>4. DecodeValue[<<d, c>>] = IF L = {} THEN [ok |-> FALSE, cur |-> AfterExtract(c, c.unread), val |-> <<>>]
                          ELSE ReadValue(d, c, Min(L))
  <2>1. <<d, c>> \in Storage \X Cursor /\ <<d, c>>[1] = d /\ <<d, c>>[2] = c
    BY <1>1
  <2> DEFINE at == <<d, c>>
  <2>2. DecodeValue[at] = IF LastBytes(at[1], at[2]) = {}
                          THEN [ok |-> FALSE, cur |-> AfterExtract(at[2], at[2].unread), val |-> <<>>]
                          ELSE ReadValue(at[1], at[2], Min(LastBytes(at[1], at[2])))
    <3>1. at \in Storage \X Cursor
      BY <2>1
    <3> HIDE DEF at
    <3> QED
      BY <3>1 DEF DecodeValue
  <2> QED
    BY <2>1, <2>2
<1> HIDE DEF L
<1>5. \A i \in 1 .. Len(w) : w[i] \in 0 .. 255
  <2>1. \A i \in 1 .. Len(w) : w[i] \in Byte
    BY <1>1
  <2> QED
    BY <2>1, OctetAssumption
<1>6. CASE L = {}
  <2>1. ToRead(c, Len(w)) = Len(w) /\ AfterExtract(c, Len(w)) = Consumed(c, ToRead(c, Len(w)))
    BY <1>1, Extraction DEF SizeMin
  <2>2. DecodeValue[<<d, c>>] = Got(FALSE, c, Len(w), <<>>)
    BY <2>1, <1>1, <1>4, <1>6 DEF Got
  <2>3. \A i \in 1 .. Len(w) : w[i] < Half
    <3>1. ASSUME NEW i \in 1 .. Len(w) PROVE w[i] < Half
      <4>1. ~(w[i] >= Half) /\ w[i] \in 0 .. 255
        BY <1>2, <1>5, <1>6
      <4> DEFINE b == w[i]
      <4> HIDE DEF b
      <4>2. b \in 0 .. 255 /\ ~(b >= Half)
        BY <4>1 DEF b
      <4>3. b < Half
        BY <4>2 DEF Half
      <4> QED
        BY <4>3 DEF b
    <3> QED
      BY <3>1
  <2> QED
    BY <2>2, <2>3
<1>7. CASE L # {}
  <2>1. PICK k \in L : \A j \in L : k <= j
    <3>1. L \in SUBSET Nat
      BY <1>3
    <3> QED
      BY <3>1, <1>7, LeastNumber
  <2>2. k \in 1 .. Len(w)
    BY <1>3
  <2>3. Min(L) = k
    <3>1. \A j \in L : j \in Nat
      BY <1>3
    <3>2. \A x \in L : (\A y \in L : x <= y) => x = k
      BY <2>1, <3>1
    <3> QED
      BY <2>1, <3>2 DEF Min
  <2>4. ToRead(c, k) = k /\ AfterExtract(c, k) = Consumed(c, k) /\ Extracted(d, c, k) = Prefix(w, k)
    <3>1. ToRead(c, k) = k
      BY <2>2, <1>1, Extraction DEF SizeMin
    <3>2. k \in Nat
      BY <2>2
    <3> QED
      BY <3>1, <3>2, Extraction DEF Prefix
  <2>5. DecodeValue[<<d, c>>] = Got(TRUE, c, k, <<Number(Prefix(w, k))>>)
    BY <1>4, <1>7, <2>3, <2>4 DEF ReadValue, Got
  <2>6. /\ Prefix(w, k) \in Seq(Byte) /\ Len(Prefix(w, k)) = k
        /\ \A i \in 1 .. k : Prefix(w, k)[i] = w[i]
    <3>1. k \in 0 .. Len(w) /\ w \in Seq(Byte)
      BY <2>2, <1>1
    <3> QED
      BY <3>1, PrefixIs
  <2>7. w[k] >= Half
    BY <2>2, <1>2
  <2>8. \A i \in 1 .. (k - 1) : w[i] < Half
    <3>1. ASSUME NEW i \in 1 .. (k - 1) PROVE w[i] < Half
      <4>1. i \in 1 .. Len(w) /\ ~(k <= i)
        BY <2>2
      <4>2. i \notin L
        BY <4>1, <2>1
      <4> QED
        <5>1. ~(w[i] >= Half) /\ w[i] \in 0 .. 255
          BY <1>2, <1>5, <4>1, <4>2
        <5> DEFINE b == w[i]
        <5> HIDE DEF b
        <5>2. b \in 0 .. 255 /\ ~(b >= Half)
          BY <5>1 DEF b
        <5>3. b < Half
          BY <5>2 DEF Half
        <5> QED
          BY <5>3 DEF b
    <3> QED
      BY <3>1
  <2>9. Digits(Prefix(w, k))
    <3>1. \A i \in 1 .. (k - 1) : i \in 1 .. k
      BY <2>2
    <3>2. k \in 1 .. k /\ k >= 1
      BY <2>2
    <3> QED
      BY <2>2, <2>6, <2>7, <2>8, <3>1, <3>2 DEF Digits
  <2> QED
    BY <2>2, <2>5, <2>9
<1> QED
  BY <1>6, <1>7

\* Where a number ends does not depend on what follows it.
LEMMA DigitsOnce ==
  ASSUME NEW w \in Seq(Byte), NEW j \in 1 .. Len(w), NEW k \in 1 .. Len(w),
         Digits(Prefix(w, k)), w[j] >= Half
  PROVE  k <= j /\ (Digits(Prefix(w, j)) => j = k)
<1>1. ASSUME NEW m \in 1 .. Len(w), NEW n \in 1 .. Len(w), Digits(Prefix(w, m)), w[n] >= Half, n < m
      PROVE  FALSE
  <2>1. Len(Prefix(w, m)) = m /\ \A i \in 1 .. m : Prefix(w, m)[i] = w[i]
    BY PrefixIs
  <2>2. n \in 1 .. (m - 1)
    BY <1>1
  <2>3. w[n] < Half
    BY <2>1, <2>2, <1>1 DEF Digits
  <2>4. w[n] \in Byte
    OBVIOUS
  <2> DEFINE b == w[n]
  <2> HIDE DEF b
  <2>5. b \in 0 .. 255 /\ b < Half /\ b >= Half
    BY <2>3, <2>4, <1>1, OctetAssumption DEF b
  <2> QED
    BY <2>5 DEF Half
<1>2. k <= j
  BY <1>1
<1>3. ASSUME Digits(Prefix(w, j)), k < j PROVE FALSE
  <2>1. w[k] >= Half
    <3>1. Len(Prefix(w, k)) = k /\ k \in 1 .. k /\ \A i \in 1 .. k : Prefix(w, k)[i] = w[i]
      BY PrefixIs
    <3> QED
      BY <3>1 DEF Digits
  <2> QED
    BY <2>1, <1>1, <1>3
<1> QED
  BY <1>2, <1>3

(***************************************************************************)
(* What a decoder reads depends on the unread bytes only, not on where in  *)
(* the storage they are.                                                   *)
(***************************************************************************)
ValueAs(w, ok, k, val) ==
  \A d, c : Window(d, c, w) => DecodeValue[<<d, c>>] = Got(ok, c, k, val)

ArgAs(kind, w, ok, k, val) ==
  \A d, c : Window(d, c, w) => DecodeArg(kind, d, c) = Got(ok, c, k, val)

AllLow(w) == \A i \in 1 .. Len(w) : w[i] < Half

\* The truth values, for lemmas that pass them on.
Yes == TRUE
No == FALSE
Truth == {Yes, No}

LEMMA LastDigit ==
  ASSUME NEW w \in Seq(Byte), NEW k \in 1 .. Len(w), Digits(Prefix(w, k))
  PROVE  w[k] >= Half /\ ~(w[k] < Half)
<1>1. Len(Prefix(w, k)) = k /\ \A i \in 1 .. k : Prefix(w, k)[i] = w[i]
  <2>1. k \in 0 .. Len(w)
    OBVIOUS
  <2> QED
    BY <2>1, PrefixIs
<1>2. w[k] >= Half
  BY <1>1 DEF Digits
<1> DEFINE b == w[k]
<1>3. b \in Byte /\ b >= Half
  BY <1>2
<1> HIDE DEF b
<1>4. ~(b < Half)
  BY <1>3, OctetAssumption DEF Half
<1> QED
  BY <1>2, <1>4 DEF b

LEMMA ValueDigits ==
  ASSUME NEW w \in Seq(Byte), NEW k \in 1 .. Len(w), Digits(Prefix(w, k))
  PROVE  ValueAs(w, Yes, k, <<Number(Prefix(w, k))>>)
<1> SUFFICES ASSUME NEW d, NEW c, Window(d, c, w)
             PROVE  DecodeValue[<<d, c>>] = Got(TRUE, c, k, <<Number(Prefix(w, k))>>)
  BY DEF ValueAs, Yes
<1>1. ~(w[k] < Half) /\ w[k] >= Half
  BY LastDigit
<1>2. \E j \in 1 .. Len(w) : /\ Digits(Prefix(w, j))
                            /\ DecodeValue[<<d, c>>] = Got(TRUE, c, j, <<Number(Prefix(w, j))>>)
  BY <1>1, ValueReads
<1>3. PICK j \in 1 .. Len(w) : /\ Digits(Prefix(w, j))
                               /\ DecodeValue[<<d, c>>] = Got(TRUE, c, j, <<Number(Prefix(w, j))>>)
  BY <1>2
<1>4. j = k
  <2>1. w[j] >= Half
    BY <1>3, LastDigit
  <2> QED
    BY <2>1, <1>3, DigitsOnce
<1> QED
  BY <1>3, <1>4

LEMMA ValueNone ==
  ASSUME NEW w \in Seq(Byte), AllLow(w)
  PROVE  ValueAs(w, No, Len(w), <<>>)
<1> SUFFICES ASSUME NEW d, NEW c, Window(d, c, w)
             PROVE  DecodeValue[<<d, c>>] = Got(FALSE, c, Len(w), <<>>)
  BY DEF ValueAs, No
<1>1. \A k \in 1 .. Len(w) : ~Digits(Prefix(w, k))
  BY LastDigit DEF AllLow
<1> QED
  BY <1>1, ValueReads

LEMMA ValueCases ==
  ASSUME NEW w \in Seq(Byte)
  PROVE  AllLow(w) \/ \E k \in 1 .. Len(w) : Digits(Prefix(w, k))
<1> DEFINE L == {i \in 1 .. Len(w) : w[i] >= Half}
<1>1. ASSUME L = {} PROVE AllLow(w)
  <2> SUFFICES ASSUME NEW i \in 1 .. Len(w) PROVE w[i] < Half
    BY DEF AllLow
  <2> DEFINE b == w[i]
  <2>1. b \in Byte /\ ~(b >= Half)
    BY <1>1
  <2> HIDE DEF b
  <2>2. b < Half
    BY <2>1, OctetAssumption DEF Half
  <2> QED
    BY <2>2 DEF b
<1>2. ASSUME L # {} PROVE \E k \in 1 .. Len(w) : Digits(Prefix(w, k))
  <2>1. L \in SUBSET Nat
    OBVIOUS
  <2>2. PICK k \in L : \A j \in L : k <= j
    <3> HIDE DEF L
    <3> QED
      BY <2>1, <1>2, LeastNumber
  <2>3. k \in 1 .. Len(w) /\ w[k] >= Half
    OBVIOUS
  <2>4. \A i \in 1 .. (k - 1) : w[i] < Half
    <3> SUFFICES ASSUME NEW i \in 1 .. (k - 1) PROVE w[i] < Half
      OBVIOUS
    <3>1. i \in 1 .. Len(w) /\ ~(k <= i)
      BY <2>3
    <3>2. i \notin L
      <4> HIDE DEF L
      <4> QED
        BY <3>1, <2>2
    <3> DEFINE b == w[i]
    <3>3. b \in Byte /\ ~(b >= Half)
      BY <3>1, <3>2
    <3> HIDE DEF b
    <3>4. b < Half
      BY <3>3, OctetAssumption DEF Half
    <3> QED
      BY <3>4 DEF b
  <2>5. /\ Prefix(w, k) \in Seq(Byte) /\ Len(Prefix(w, k)) = k
        /\ \A i \in 1 .. k : Prefix(w, k)[i] = w[i]
    <3>1. k \in 0 .. Len(w)
      BY <2>3
    <3> QED
      BY <3>1, PrefixIs
  <2> HIDE DEF L
  <2>6. Digits(Prefix(w, k))
    <3>1. \A i \in 1 .. (k - 1) : i \in 1 .. k
      BY <2>3
    <3>2. k \in 1 .. k /\ k >= 1
      BY <2>3
    <3> QED
      BY <2>3, <2>4, <2>5, <3>1, <3>2 DEF Digits
  <2> QED
    BY <2>3, <2>6
<1> HIDE DEF L
<1> QED
  BY <1>1, <1>2

LEMMA StringAfterNothing ==
  ASSUME NEW d, NEW ok, NEW e, NEW val, NEW length, length = [ok |-> ok, cur |-> e, val |-> val],
         ~ok \/ val[1] = 0
  PROVE  StringAfter(d, length) = [ok |-> ok, cur |-> e, val |-> <<>>]
<1>1. length.ok = ok /\ length.val = val
  OBVIOUS
<1>2. StringAfter(d, length) = [length EXCEPT !.val = <<>>]
  BY <1>1 DEF StringAfter
<1>3. [length EXCEPT !.val = <<>>] = [ok |-> ok, cur |-> e, val |-> <<>>]
  OBVIOUS
<1> QED
  BY <1>2, <1>3

\* decodeString: the length, and as many bytes as there are of the string.
LEMMA StringReads ==
  ASSUME NEW w \in Seq(Byte), NEW k \in 1 .. Len(w), Digits(Prefix(w, k)),
         NEW length \in Nat, length = Number(Prefix(w, k)),
         NEW m \in 0 .. (Len(w) - k), m = SizeMin(length, Len(w) - k)
  PROVE  ArgAs("string", w, length = 0 \/ m > 0, k + m, Prefix(Rest(w, k), m))
<1> SUFFICES ASSUME NEW d, NEW c, Window(d, c, w)
             PROVE  DecodeArg("string", d, c) = Got(length = 0 \/ m > 0, c, k + m, Prefix(Rest(w, k), m))
  BY DEF ArgAs
<1> DEFINE e == Consumed(c, k)
           v == Rest(w, k)
<1>0. "string" # "value"
  OBVIOUS
<1>1. DecodeValue[<<d, c>>] = [ok |-> TRUE, cur |-> e, val |-> <<length>>]
  BY ValueDigits DEF ValueAs, Got, Yes
<1>2. Window(d, e, v) /\ v \in Seq(Byte) /\ Len(v) = Len(w) - k
  <2>1. k \in 0 .. Len(w)
    OBVIOUS
  <2> QED
    BY <2>1, ConsumedWindow DEF Rest
<1>3. DecodeArg("string", d, c) = StringAfter(d, DecodeValue[<<d, c>>])
  BY <1>0 DEF DecodeArg, DecodeString
<1> HIDE DEF v
<1>4. ToRead(e, length) = m /\ AfterExtract(e, length) = Consumed(e, m)
      /\ Extracted(d, e, length) = Prefix(v, m)
  <2> HIDE DEF e
  <2>1. /\ ToRead(e, length) = SizeMin(length, Len(v))
        /\ AfterExtract(e, length) = Consumed(e, ToRead(e, length))
        /\ Extracted(d, e, length) = SubSeq(v, 1, ToRead(e, length))
    BY <1>2, Extraction
  <2> QED
    BY <2>1, <1>2 DEF Prefix
<1>5. Consumed(e, m) = Consumed(c, k + m)
  BY ConsumedTwice
<1>6. CASE length = 0
  <2>1. m = 0
    BY <1>6 DEF SizeMin
  <2>2. Prefix(v, 0) = <<>> /\ k + 0 = k
    BY <1>2 DEF Prefix
  <2>3. StringAfter(d, DecodeValue[<<d, c>>]) = [ok |-> TRUE, cur |-> e, val |-> <<>>]
    <3> DEFINE u == <<length>>
               b == TRUE
    <3>1. (~b \/ u[1] = 0) /\ DecodeValue[<<d, c>>] = [ok |-> b, cur |-> e, val |-> u]
      BY <1>1, <1>6
    <3> HIDE DEF e, u, b
    <3>2. StringAfter(d, DecodeValue[<<d, c>>]) = [ok |-> b, cur |-> e, val |-> <<>>]
      BY <3>1, StringAfterNothing
    <3> QED
      BY <3>2 DEF b
  <2> QED
    BY <2>1, <2>2, <2>3, <1>3, <1>6 DEF Got, v
<1>7. CASE length # 0
  <2>1. StringAfter(d, DecodeValue[<<d, c>>]) =
          [ok |-> ToRead(e, length) > 0, cur |-> AfterExtract(e, length), val |-> Extracted(d, e, length)]
    <3> HIDE DEF e
    <3> QED
      BY <1>1, <1>7 DEF StringAfter
  <2> HIDE DEF e
  <2>2. StringAfter(d, DecodeValue[<<d, c>>]) = [ok |-> m > 0, cur |-> Consumed(c, k + m), val |-> Prefix(v, m)]
    BY <2>1, <1>4, <1>5 DEF e
  <2>3. (length = 0 \/ m > 0) = (m > 0)
    BY <1>7
  <2> QED
    BY <2>2, <2>3, <1>3 DEF Got, v
<1> QED
  BY <1>6, <1>7

LEMMA StringNone ==
  ASSUME NEW w \in Seq(Byte), AllLow(w)
  PROVE  ArgAs("string", w, No, Len(w), <<>>)
<1> SUFFICES ASSUME NEW d, NEW c, Window(d, c, w)
             PROVE  DecodeArg("string", d, c) = Got(FALSE, c, Len(w), <<>>)
  BY DEF ArgAs, No
<1>1. DecodeValue[<<d, c>>] = [ok |-> FALSE, cur |-> Consumed(c, Len(w)), val |-> <<>>]
  BY ValueNone DEF ValueAs, Got, No
<1>2. "string" # "value"
  OBVIOUS
<1> QED
  <2>1. StringAfter(d, DecodeValue[<<d, c>>]) = [ok |-> FALSE, cur |-> Consumed(c, Len(w)), val |-> <<>>]
    <3> DEFINE b == FALSE
               e == Consumed(c, Len(w))
               u == <<>>
    <3>1. (~b \/ u[1] = 0) /\ DecodeValue[<<d, c>>] = [ok |-> b, cur |-> e, val |-> u]
      BY <1>1
    <3> HIDE DEF e, u, b
    <3>2. StringAfter(d, DecodeValue[<<d, c>>]) = [ok |-> b, cur |-> e, val |-> <<>>]
      BY <3>1, StringAfterNothing
    <3> QED
      BY <3>2 DEF b, e
  <2> QED
    BY <2>1, <1>2 DEF DecodeArg, DecodeString, Got

LEMMA ValueArg ==
  ASSUME NEW w, NEW ok, NEW k, NEW val, ValueAs(w, ok, k, val)
  PROVE  ArgAs("value", w, ok, k, val)
BY DEF ValueAs, ArgAs, DecodeArg

\* Every argument is read in one way.
LEMMA ArgCases ==
  ASSUME NEW w \in Seq(Byte), NEW kind \in Kinds
  PROVE  \E ok \in Truth, k \in 0 .. Len(w), val \in Seq(Nat) :
            ArgAs(kind, w, ok, k, val) /\ (kind = "value" => (IF ok = Yes THEN Len(val) = 1 ELSE k = Len(w)))
<1>0. Len(w) \in Nat /\ <<>> \in Seq(Nat) /\ Len(w) \in 0 .. Len(w)
  OBVIOUS
<1>1. CASE AllLow(w)
  <2>1. ArgAs("value", w, No, Len(w), <<>>) /\ ArgAs("string", w, No, Len(w), <<>>)
    BY <1>1, ValueNone, ValueArg, StringNone
  <2>2. ArgAs(kind, w, No, Len(w), <<>>)
    BY <2>1 DEF Kinds
  <2> QED
    <3>1. No \in Truth /\ No # Yes
      BY DEF Truth, Yes, No
    <3> QED
      BY <2>2, <1>0, <3>1
<1>2. ASSUME NEW k \in 1 .. Len(w), Digits(Prefix(w, k))
      PROVE  \E ok \in Truth, j \in 0 .. Len(w), val \in Seq(Nat) :
                ArgAs(kind, w, ok, j, val) /\ (kind = "value" => (IF ok = Yes THEN Len(val) = 1 ELSE j = Len(w)))
  <2> DEFINE length == Number(Prefix(w, k))
             m == SizeMin(length, Len(w) - k)
  <2>1. length \in Nat
    BY <1>2, NumberIs, WordIs
  <2>2. ArgAs("value", w, Yes, k, <<length>>)
    BY <1>2, ValueDigits, ValueArg
  <2>3. k \in 0 .. Len(w) /\ Rest(w, k) \in Seq(Byte) /\ Len(Rest(w, k)) = Len(w) - k
    <3>1. k \in 0 .. Len(w)
      OBVIOUS
    <3> QED
      BY <3>1, PrefixIs
  <2> HIDE DEF length
  <2>4. m \in 0 .. (Len(w) - k)
    BY <1>0, <2>1, <2>3 DEF SizeMin
  <2>5. ArgAs("string", w, length = 0 \/ m > 0, k + m, Prefix(Rest(w, k), m))
    <3> HIDE DEF m
    <3> QED
      BY <1>2, <2>1, <2>4, StringReads DEF length, m
  <2> HIDE DEF m
  <2>6. Prefix(Rest(w, k), m) \in Seq(Nat) /\ k + m \in 0 .. Len(w)
    <3> DEFINE u == Rest(w, k)
    <3>1. u \in Seq(Byte) /\ m \in 0 .. Len(u)
      BY <2>3, <2>4
    <3> HIDE DEF u
    <3>2. Prefix(u, m) \in Seq(Byte) /\ Byte \subseteq Nat
      BY <3>1, PrefixIs, OctetAssumption
    <3>3. Prefix(u, m) \in Seq(Nat)
      BY <3>2, SeqIn
    <3> QED
      BY <3>3, <2>4, <1>0 DEF u
  <2>7. CASE kind = "value"
    <3>1. <<length>> \in Seq(Nat) /\ Len(<<length>>) = 1 /\ Yes \in Truth
      BY <2>1 DEF Truth
    <3> QED
      BY <2>2, <2>3, <2>7, <3>1
  <2>8. CASE kind = "string"
    <3>1. (length = 0 \/ m > 0) \in Truth /\ kind # "value"
      BY <2>8 DEF Truth, Yes, No
    <3> QED
      BY <2>5, <2>6, <2>8, <3>1
  <2> QED
    BY <2>7, <2>8 DEF Kinds
<1>3. AllLow(w) \/ \E k \in 1 .. Len(w) : Digits(Prefix(w, k))
  BY ValueCases
<1> QED
  BY <1>1, <1>2, <1>3

(***************************************************************************)
(* The arguments of an event, one after the other.                         *)
(***************************************************************************)
Results(c, w) ==
  {Got(ok, c, k, val) : ok \in Truth, k \in 0 .. Len(w), val \in Seq(Seq(Nat))}

LEMMA GotIs ==
  ASSUME NEW ok, NEW c, NEW k, NEW val
  PROVE  /\ Got(ok, c, k, val).ok = ok /\ Got(ok, c, k, val).val = val
         /\ Got(ok, c, k, val).cur = Consumed(c, k)
BY DEF Got

LEMMA ResultReading ==
  ASSUME NEW d, NEW c, NEW w, Window(d, c, w), NEW ok \in Truth, NEW k \in 0 .. Len(w),
         NEW val \in Seq(Seq(Nat))
  PROVE  /\ Got(ok, c, k, val) \in Reading /\ Got(ok, c, k, val) \in Results(c, w)
<1>1. Consumed(c, k) \in Cursor
  BY ConsumedWindow
<1> DEFINE e == Consumed(c, k)
<1>2. e \in Cursor
  BY <1>1
<1> HIDE DEF e
<1>3. [ok |-> ok, cur |-> e, val |-> val] \in Reading
  BY <1>2 DEF Reading, Truth, Yes, No
<1> QED
  BY <1>3 DEF Got, e, Results

LEMMA NextArgIs ==
  ASSUME NEW r \in Reading, NEW kind \in Kinds, NEW d \in Storage
  PROVE  /\ ~r.ok => NextArg[<<r, kind, d>>] = r
         /\ r.ok => NextArg[<<r, kind, d>>] =
                      [ok  |-> DecodeArg(kind, d, r.cur).ok, cur |-> DecodeArg(kind, d, r.cur).cur,
                       val |-> Append(r.val, DecodeArg(kind, d, r.cur).val)]
<1> DEFINE at == <<r, kind, d>>
<1>1. at \in Reading \X Kinds \X Storage /\ at[1] = r /\ at[2] = kind /\ at[3] = d
  OBVIOUS
<1>2. NextArg[at] = IF at[1].ok
                    THEN [ok  |-> DecodeArg(at[2], at[3], at[1].cur).ok,
                          cur |-> DecodeArg(at[2], at[3], at[1].cur).cur,
                          val |-> Append(at[1].val, DecodeArg(at[2], at[3], at[1].cur).val)]
                    ELSE at[1]
  <2> HIDE DEF at
  <2> QED
    BY <1>1 DEF NextArg
<1> QED
  BY <1>1, <1>2

NextArgAs(kind, w, k, val, ok, j, v) ==
  \A d, c : Window(d, c, w) =>
    NextArg[<<Got(Yes, c, k, val), kind, d>>] = Got(ok, c, k + j, Append(val, v))

LEMMA NextArgGot ==
  ASSUME NEW w, NEW k \in 0 .. Len(w), NEW val \in Seq(Seq(Nat)),
         NEW kind \in Kinds, NEW ok \in Truth, NEW j \in 0 .. (Len(w) - k), NEW v \in Seq(Nat),
         ArgAs(kind, Rest(w, k), ok, j, v)
  PROVE  NextArgAs(kind, w, k, val, ok, j, v)
<1> SUFFICES ASSUME NEW d, NEW c, Window(d, c, w)
             PROVE  NextArg[<<Got(Yes, c, k, val), kind, d>>] = Got(ok, c, k + j, Append(val, v))
  BY DEF NextArgAs
<1> DEFINE r == Got(Yes, c, k, val)
           e == Consumed(c, k)
<1>1. r \in Reading /\ r.ok /\ r.val = val /\ r.cur = e
  <2>1. Got(Yes, c, k, val) \in Reading
    <3>1. Yes \in Truth
      BY DEF Truth
    <3> QED
      BY <3>1, ResultReading
  <2>2. Got(Yes, c, k, val).ok = Yes /\ Got(Yes, c, k, val).val = val /\ Got(Yes, c, k, val).cur = e
    BY GotIs
  <2> QED
    BY <2>1, <2>2 DEF Yes
<1>2. Window(d, e, Rest(w, k))
  BY ConsumedWindow DEF Rest
<1>3. d \in Storage
  BY DEF Window
<1>4. DecodeArg(kind, d, e) = [ok |-> ok, cur |-> Consumed(e, j), val |-> v]
  <2> HIDE DEF e
  <2>1. DecodeArg(kind, d, e) = Got(ok, e, j, v)
    BY <1>2 DEF ArgAs
  <2> QED
    BY <2>1 DEF Got
<1>5. Consumed(e, j) = Consumed(c, k + j)
  BY ConsumedTwice
<1> HIDE DEF r, e
<1>6. NextArg[<<r, kind, d>>] =
        [ok |-> DecodeArg(kind, d, e).ok, cur |-> DecodeArg(kind, d, e).cur,
         val |-> Append(val, DecodeArg(kind, d, e).val)]
  BY <1>1, <1>3, NextArgIs
<1>7. NextArg[<<r, kind, d>>] = [ok |-> ok, cur |-> Consumed(c, k + j), val |-> Append(val, v)]
  BY <1>4, <1>5, <1>6
<1> QED
  BY <1>7 DEF Got, r

Decoding(kinds, d, c) ==
  CHOOSE f : f = [n \in 0 .. Len(kinds) |->
                    IF n = 0 THEN [ok |-> TRUE, cur |-> c, val |-> <<>>]
                             ELSE NextArg[<<f[n - 1], kinds[n], d>>]]

LEMMA NextArgResults ==
  ASSUME NEW d, NEW c, NEW w, Window(d, c, w), NEW kind \in Kinds, NEW r \in Results(c, w)
  PROVE  NextArg[<<r, kind, d>>] \in Results(c, w)
<1>1. PICK ok \in Truth, k \in 0 .. Len(w), val \in Seq(Seq(Nat)) : r = Got(ok, c, k, val)
  BY DEF Results
<1>0. d \in Storage
  BY DEF Window
<1>2. r \in Reading /\ r.ok = ok
  BY <1>1, ResultReading, GotIs
<1>3. CASE ok = No
  <2>1. ~r.ok
    BY <1>2, <1>3 DEF No
  <2> QED
    BY <1>0, <1>2, <2>1, NextArgIs
<1>4. CASE ok = Yes
  <2>1. w \in Seq(Byte) /\ Len(w) \in Nat
    BY DEF Window
  <2>2. Rest(w, k) \in Seq(Byte) /\ Len(Rest(w, k)) = Len(w) - k
    BY <2>1, PrefixIs
  <2>3. PICK o \in Truth, j \in 0 .. (Len(w) - k), v \in Seq(Nat) : ArgAs(kind, Rest(w, k), o, j, v)
    BY <2>2, ArgCases
  <2>5. NextArg[<<Got(Yes, c, k, val), kind, d>>] = Got(o, c, k + j, Append(val, v))
    BY <2>3, NextArgGot DEF NextArgAs
  <2>6. k + j \in 0 .. Len(w) /\ Append(val, v) \in Seq(Seq(Nat))
    BY <2>1
  <2> QED
    <3> DEFINE n == k + j
               u == Append(val, v)
    <3>1. n \in 0 .. Len(w) /\ u \in Seq(Seq(Nat)) /\ NextArg[<<r, kind, d>>] = Got(o, c, n, u)
      BY <1>1, <1>4, <2>5, <2>6
    <3> HIDE DEF n, u
    <3> QED
      BY <3>1 DEF Results
<1> QED
  BY <1>3, <1>4 DEF Truth

LEMMA DecodingIs ==
  ASSUME NEW d, NEW c, NEW w, Window(d, c, w), NEW kinds \in Seq(Kinds)
  PROVE  /\ DecodeArgs(kinds, d, c) = Decoding(kinds, d, c)[Len(kinds)]
         /\ Decoding(kinds, d, c)[0] = Got(Yes, c, 0, <<>>)
         /\ \A n \in 1 .. Len(kinds) :
              Decoding(kinds, d, c)[n] = NextArg[<<Decoding(kinds, d, c)[n - 1], kinds[n], d>>]
<1> DEFINE D == 0 .. Len(kinds)
           V == Results(c, w)
           first == [ok |-> TRUE, cur |-> c, val |-> <<>>]
           size == [n \in D |-> n]
           S == [g \in [D -> V] |-> [n \in D |-> IF n = 0 THEN first ELSE NextArg[<<g[n - 1], kinds[n], d>>]]]
<1>1. first = Got(Yes, c, 0, <<>>) /\ first \in V
  <2>1. Consumed(c, 0) = c /\ 0 \in 0 .. Len(w) /\ <<>> \in Seq(Seq(Nat)) /\ Yes \in Truth
    <3>1. Consumed(c, 0) = c
      BY ConsumedNone
    <3>2. Len(w) \in Nat /\ Yes \in Truth
      BY DEF Window, Truth
    <3> QED
      BY <3>1, <3>2
  <2>2. Got(Yes, c, 0, <<>>) \in V
    BY <2>1, ResultReading
  <2> QED
    BY <2>1, <2>2 DEF Got, Yes
<1>2. Len(kinds) \in Nat
  OBVIOUS
<1>3. ASSUME NEW g \in [D -> V], NEW n \in D
      PROVE  (IF n = 0 THEN first ELSE NextArg[<<g[n - 1], kinds[n], d>>]) \in V
  <2>1. CASE n = 0
    BY <2>1, <1>1
  <2>2. CASE n # 0
    <3>1. n - 1 \in D /\ n \in 1 .. Len(kinds)
      BY <2>2, <1>2
    <3>2. g[n - 1] \in V /\ kinds[n] \in Kinds
      BY <3>1
    <3> QED
      BY <2>2, <3>2, NextArgResults
  <2> QED
    BY <2>1, <2>2
<1>4. S \in [[D -> V] -> [D -> V]]
  <2> HIDE DEF V, first, D
  <2> QED
    BY <1>3
<1>5. ASSUME NEW g \in [D -> V], NEW h \in [D -> V], NEW n \in D,
             \A y \in D : size[y] < size[n] => g[y] = h[y]
      PROVE  S[g][n] = S[h][n]
  <2>1. n # 0 => n - 1 \in D /\ n - 1 < n
    BY <1>2
  <2> HIDE DEF V, first, D
  <2>2. n # 0 => g[n - 1] = h[n - 1]
    BY <1>5, <2>1
  <2> QED
    BY <2>2
<1>6. size \in [D -> Nat] /\ V # {}
  <2>1. size \in [D -> Nat]
    OBVIOUS
  <2> HIDE DEF V, first, size
  <2> QED
    BY <1>1, <2>1
<1>7. PICK h : Fixed(h, S, D, V)
  <2> HIDE DEF S, V, size, D
  <2>1. LooksBack(S, size, D, V)
    BY <1>4, <1>5, <1>6 DEF LooksBack
  <2> QED
    BY <2>1, Recursion
<1>8. h \in [D -> V] /\ h = [n \in D |-> IF n = 0 THEN first ELSE NextArg[<<h[n - 1], kinds[n], d>>]]
  <2> HIDE DEF V, first, D
  <2> QED
    BY <1>7 DEF Fixed
<1> DEFINE f == Decoding(kinds, d, c)
<1>9. f = [n \in D |-> IF n = 0 THEN first ELSE NextArg[<<f[n - 1], kinds[n], d>>]]
  BY <1>8 DEF Decoding
<1>10. DecodeArgs(kinds, d, c) = f[Len(kinds)]
  BY DEF DecodeArgs, Decoding
<1> HIDE DEF f, first
<1>11. f[0] = first
  BY <1>9, <1>2
<1>12. \A n \in 1 .. Len(kinds) : f[n] = NextArg[<<f[n - 1], kinds[n], d>>]
  BY <1>9, <1>2
<1> QED
  BY <1>1, <1>10, <1>11, <1>12 DEF f

PartAs(kinds, w, n, ok, k, val) ==
  \A d, c : Window(d, c, w) => Decoding(kinds, d, c)[n] = Got(ok, c, k, val)

ArgsAs(kinds, w, ok, k, val) ==
  \A d, c : Window(d, c, w) => DecodeArgs(kinds, d, c) = Got(ok, c, k, val)

LEMMA PartFirst ==
  ASSUME NEW w, NEW kinds \in Seq(Kinds)
  PROVE  PartAs(kinds, w, 0, Yes, 0, <<>>)
<1> SUFFICES ASSUME NEW d, NEW c, Window(d, c, w)
             PROVE  Decoding(kinds, d, c)[0] = Got(Yes, c, 0, <<>>)
  BY DEF PartAs
<1> QED
  BY DecodingIs

LEMMA PartNext ==
  ASSUME NEW w, NEW kinds \in Seq(Kinds), NEW n \in 1 .. Len(kinds),
         NEW k \in 0 .. Len(w), NEW val \in Seq(Seq(Nat)), PartAs(kinds, w, n - 1, Yes, k, val),
         NEW ok \in Truth, NEW j \in 0 .. (Len(w) - k), NEW v \in Seq(Nat),
         ArgAs(kinds[n], Rest(w, k), ok, j, v)
  PROVE  PartAs(kinds, w, n, ok, k + j, Append(val, v))
<1> SUFFICES ASSUME NEW d, NEW c, Window(d, c, w)
             PROVE  Decoding(kinds, d, c)[n] = Got(ok, c, k + j, Append(val, v))
  BY DEF PartAs
<1>1. kinds[n] \in Kinds
  OBVIOUS
<1>2. Decoding(kinds, d, c)[n - 1] = Got(Yes, c, k, val)
  BY DEF PartAs
<1>3. Decoding(kinds, d, c)[n] = NextArg[<<Decoding(kinds, d, c)[n - 1], kinds[n], d>>]
  BY DecodingIs
<1>4. NextArg[<<Got(Yes, c, k, val), kinds[n], d>>] = Got(ok, c, k + j, Append(val, v))
  <2> DEFINE kind == kinds[n]
  <2>1. kind \in Kinds /\ ArgAs(kind, Rest(w, k), ok, j, v)
    BY <1>1
  <2> HIDE DEF kind
  <2>2. NextArgAs(kind, w, k, val, ok, j, v)
    BY <2>1, NextArgGot
  <2> QED
    BY <2>2 DEF kind, NextArgAs
<1> QED
  BY <1>2, <1>3, <1>4

LEMMA PartFailed ==
  ASSUME NEW w, NEW kinds \in Seq(Kinds), NEW n \in 1 .. Len(kinds),
         NEW k \in 0 .. Len(w), NEW val \in Seq(Seq(Nat)), PartAs(kinds, w, n - 1, No, k, val)
  PROVE  PartAs(kinds, w, n, No, k, val)
<1> SUFFICES ASSUME NEW d, NEW c, Window(d, c, w)
             PROVE  Decoding(kinds, d, c)[n] = Got(No, c, k, val)
  BY DEF PartAs
<1> DEFINE r == Got(No, c, k, val)
           kind == kinds[n]
<1>1. kind \in Kinds /\ d \in Storage
  BY DEF Window
<1>2. Decoding(kinds, d, c)[n - 1] = r
  BY DEF PartAs
<1>3. Decoding(kinds, d, c)[n] = NextArg[<<Decoding(kinds, d, c)[n - 1], kind, d>>]
  BY DecodingIs
<1>4. r \in Reading /\ ~r.ok
  <2>1. No \in Truth
    BY DEF Truth
  <2>2. r \in Reading
    BY <2>1, ResultReading
  <2>3. r.ok = No
    BY GotIs
  <2> QED
    BY <2>2, <2>3 DEF No
<1> HIDE DEF r, kind
<1>5. NextArg[<<r, kind, d>>] = r
  BY <1>1, <1>4, NextArgIs
<1> QED
  BY <1>2, <1>3, <1>5 DEF r

LEMMA PartLast ==
  ASSUME NEW w, NEW kinds \in Seq(Kinds), NEW ok, NEW k, NEW val, PartAs(kinds, w, Len(kinds), ok, k, val)
  PROVE  ArgsAs(kinds, w, ok, k, val)
<1> SUFFICES ASSUME NEW d, NEW c, Window(d, c, w)
             PROVE  DecodeArgs(kinds, d, c) = Got(ok, c, k, val)
  BY DEF ArgsAs
<1>1. DecodeArgs(kinds, d, c) = Decoding(kinds, d, c)[Len(kinds)]
  BY DecodingIs
<1> QED
  BY <1>1 DEF PartAs

\* Numbers have one digit sequence each; n arguments have been read.
Shaped(kinds, n, val) ==
  /\ Len(val) = n
  /\ \A i \in 1 .. n : kinds[i] = "value" => Len(val[i]) = 1

LEMMA PartCases ==
  ASSUME NEW w \in Seq(Byte), NEW kinds \in Seq(Kinds), NEW n \in 0 .. Len(kinds)
  PROVE  \E ok \in Truth, k \in 0 .. Len(w), val \in Seq(Seq(Nat)) :
            PartAs(kinds, w, n, ok, k, val) /\ (ok = Yes => Shaped(kinds, n, val))
<1> DEFINE P(m) == \E ok \in Truth, k \in 0 .. Len(w), val \in Seq(Seq(Nat)) :
                     PartAs(kinds, w, m, ok, k, val) /\ (ok = Yes => Shaped(kinds, m, val))
           T == {m \in Nat : m <= Len(kinds) => P(m)}
<1>0. Len(w) \in Nat /\ Len(kinds) \in Nat
  OBVIOUS
<1>1. 0 \in T
  <2>1. PartAs(kinds, w, 0, Yes, 0, <<>>)
    BY PartFirst
  <2>2. Shaped(kinds, 0, <<>>) /\ Yes \in Truth /\ 0 \in 0 .. Len(w) /\ <<>> \in Seq(Seq(Nat))
    BY <1>0 DEF Shaped, Truth
  <2>3. P(0)
    BY <2>1, <2>2
  <2> QED
    BY <2>3
<1>2. ASSUME NEW m \in T PROVE m + 1 \in T
  <2> SUFFICES ASSUME m + 1 <= Len(kinds) PROVE P(m + 1)
    OBVIOUS
  <2> DEFINE q == m + 1
  <2>1. m \in Nat /\ P(m) /\ q \in 1 .. Len(kinds) /\ q - 1 = m
    BY <1>0
  <2> HIDE DEF q
  <2>2. PICK ok \in Truth, k \in 0 .. Len(w), val \in Seq(Seq(Nat)) :
           PartAs(kinds, w, q - 1, ok, k, val) /\ (ok = Yes => Shaped(kinds, q - 1, val))
    BY <2>1
  <2>3. CASE ok = No
    <3>1. PartAs(kinds, w, q, No, k, val)
      BY <2>1, <2>2, <2>3, PartFailed
    <3>2. No \in Truth /\ No # Yes
      BY DEF Truth, Yes, No
    <3>3. P(q)
      BY <3>1, <3>2
    <3> QED
      BY <3>3 DEF q
  <2>4. CASE ok = Yes
    <3> DEFINE kind == kinds[q]
               u == Rest(w, k)
    <3>1. kind \in Kinds /\ u \in Seq(Byte) /\ Len(u) = Len(w) - k
      BY <2>1, PrefixIs
    <3> HIDE DEF kind, u
    <3>2. PICK o \in Truth, j \in 0 .. Len(u), v \in Seq(Nat) :
             ArgAs(kind, u, o, j, v) /\ (kind = "value" => (IF o = Yes THEN Len(v) = 1 ELSE j = Len(u)))
      BY <3>1, ArgCases
    <3>3. j \in 0 .. (Len(w) - k) /\ ArgAs(kinds[q], Rest(w, k), o, j, v) /\ PartAs(kinds, w, q - 1, Yes, k, val)
      BY <2>2, <2>4, <3>1, <3>2 DEF kind, u
    <3>4. PartAs(kinds, w, q, o, k + j, Append(val, v))
      BY <2>1, <3>3, PartNext
    <3>5. k + j \in 0 .. Len(w) /\ Append(val, v) \in Seq(Seq(Nat))
      BY <1>0, <3>3
    <3>6. o = Yes => Shaped(kinds, q, Append(val, v))
      <4> SUFFICES ASSUME o = Yes PROVE Shaped(kinds, q, Append(val, v))
        OBVIOUS
      <4>1. Len(val) = q - 1 /\ \A i \in 1 .. (q - 1) : kinds[i] = "value" => Len(val[i]) = 1
        BY <2>2, <2>4 DEF Shaped
      <4>2. kind = "value" => Len(v) = 1
        BY <3>2
      <4> DEFINE f == Append(val, v)
      <4>3. Len(f) = q /\ f[q] = v /\ \A i \in 1 .. (q - 1) : f[i] = val[i]
        BY <4>1, <2>1
      <4> HIDE DEF f
      <4>4. ASSUME NEW i \in 1 .. q, kinds[i] = "value" PROVE Len(f[i]) = 1
        <5>1. CASE i = q
          BY <5>1, <4>2, <4>3, <4>4 DEF kind
        <5>2. CASE i # q
          <6>1. i \in 1 .. (q - 1)
            BY <5>2, <2>1
          <6> QED
            BY <6>1, <4>1, <4>3, <4>4
        <5> QED
          BY <5>1, <5>2
      <4> QED
        BY <4>3, <4>4 DEF Shaped, f
    <3>7. P(q)
      <4> DEFINE f == Append(val, v)
                 g == k + j
      <4>1. f \in Seq(Seq(Nat)) /\ g \in 0 .. Len(w) /\ PartAs(kinds, w, q, o, g, f)
            /\ (o = Yes => Shaped(kinds, q, f))
        BY <3>4, <3>5, <3>6
      <4> HIDE DEF f, g
      <4> QED
        BY <4>1
    <3> QED
      BY <3>7 DEF q
  <2> QED
    BY <2>3, <2>4 DEF Truth
<1>3. T = Nat
  <2>1. T \in SUBSET Nat
    OBVIOUS
  <2> HIDE DEF T
  <2> QED
    BY <1>1, <1>2, <2>1, Induction
<1>4. n \in T /\ n <= Len(kinds)
  BY <1>0, <1>3
<1> QED
  BY <1>4

LEMMA ArgsCases ==
  ASSUME NEW w \in Seq(Byte), NEW kinds \in Seq(Kinds)
  PROVE  \E ok \in Truth, k \in 0 .. Len(w), val \in Seq(Seq(Nat)) :
            ArgsAs(kinds, w, ok, k, val) /\ (ok = Yes => Shaped(kinds, Len(kinds), val))
<1>1. Len(kinds) \in 0 .. Len(kinds)
  OBVIOUS
<1>2. PICK ok \in Truth, k \in 0 .. Len(w), val \in Seq(Seq(Nat)) :
         PartAs(kinds, w, Len(kinds), ok, k, val) /\ (ok = Yes => Shaped(kinds, Len(kinds), val))
  BY <1>1, PartCases
<1>3. ArgsAs(kinds, w, ok, k, val)
  BY <1>2, PartLast
<1> QED
  BY <1>2, <1>3

(***************************************************************************)
(* oneStep on a window.                                                    *)
(***************************************************************************)
LEMMA RestTwice ==
  ASSUME NEW w \in Seq(Byte), NEW k \in 0 .. Len(w), NEW j \in 0 .. (Len(w) - k)
  PROVE  Rest(Rest(w, k), j) = Rest(w, k + j) /\ k + j \in 0 .. Len(w)
<1> DEFINE v == Rest(w, k)
           a == Rest(v, j)
           m == k + j
           b == Rest(w, m)
<1>1. /\ v \in Seq(Byte) /\ Len(v) = Len(w) - k /\ \A i \in 1 .. (Len(w) - k) : v[i] = w[k + i]
      /\ Len(w) \in Nat
  BY PrefixIs
<1>2. m \in 0 .. Len(w) /\ j \in 0 .. Len(v)
  BY <1>1
<1> HIDE DEF v, m
<1>3. a \in Seq(Byte) /\ Len(a) = Len(v) - j /\ \A i \in 1 .. (Len(v) - j) : a[i] = v[j + i]
  BY <1>1, <1>2, PrefixIs
<1>4. b \in Seq(Byte) /\ Len(b) = Len(w) - m /\ \A i \in 1 .. (Len(w) - m) : b[i] = w[m + i]
  BY <1>1, <1>2, PrefixIs
<1> HIDE DEF a, b
<1>5. Len(a) = Len(b)
  BY <1>1, <1>3, <1>4 DEF m
<1>6. ASSUME NEW i \in 1 .. Len(a) PROVE a[i] = b[i]
  <2>1. i \in 1 .. (Len(v) - j) /\ i \in 1 .. (Len(w) - m) /\ j + i \in 1 .. (Len(w) - k)
        /\ k + (j + i) = m + i
    BY <1>1, <1>3, <1>4, <1>5, <1>2 DEF m
  <2> QED
    BY <2>1, <1>1, <1>3, <1>4
<1>7. a = b
  BY <1>3, <1>4, <1>5, <1>6
<1> QED
  BY <1>2, <1>7 DEF a, b, v, m

HeaderKinds == <<"value", "value", "value">>

HeaderAs(w, n, ok, k, val) ==
  \A d, c : Window(d, c, w) => DecodeHeader(d, c, n) = Got(ok, c, k, val)

LEMMA HeaderNone ==
  ASSUME NEW w, NEW n, NEW ok, NEW k, NEW val, ValueAs(w, ok, k, val), ok = No \/ val[1] # n
  PROVE  HeaderAs(w, n, No, k, val)
<1> SUFFICES ASSUME NEW d, NEW c, Window(d, c, w)
             PROVE  DecodeHeader(d, c, n) = Got(No, c, k, val)
  BY DEF HeaderAs
<1> DEFINE count == DecodeValue[<<d, c>>]
           e == Consumed(c, k)
<1>1. count = [ok |-> ok, cur |-> e, val |-> val]
  BY DEF ValueAs, Got
<1> HIDE DEF count, e
<1>2. ~(count.ok /\ count.val[1] = n)
  BY <1>1 DEF No
<1> DEFINE b == FALSE
<1> HIDE DEF b
<1>3. HeaderAfter(d, count, n) = [count EXCEPT !.ok = b]
  BY <1>2 DEF HeaderAfter, b
<1>4. [count EXCEPT !.ok = b] = [ok |-> b, cur |-> e, val |-> val]
  BY <1>1
<1> QED
  BY <1>3, <1>4 DEF DecodeHeader, count, e, Got, No, b

LEMMA HeaderArgs ==
  ASSUME NEW w, NEW n, NEW k \in 0 .. Len(w), ValueAs(w, Yes, k, <<n>>),
         NEW ok, NEW j \in 0 .. (Len(w) - k), NEW val, ArgsAs(HeaderKinds, Rest(w, k), ok, j, val)
  PROVE  HeaderAs(w, n, ok, k + j, val)
<1> SUFFICES ASSUME NEW d, NEW c, Window(d, c, w)
             PROVE  DecodeHeader(d, c, n) = Got(ok, c, k + j, val)
  BY DEF HeaderAs
<1> DEFINE count == DecodeValue[<<d, c>>]
           e == Consumed(c, k)
<1>1. count = [ok |-> Yes, cur |-> e, val |-> <<n>>]
  BY DEF ValueAs, Got
<1>2. Window(d, e, Rest(w, k))
  BY ConsumedWindow DEF Rest
<1>3. Consumed(e, j) = Consumed(c, k + j)
  BY ConsumedTwice
<1> HIDE DEF count, e
<1>4. HeaderAfter(d, count, n) = DecodeArgs(HeaderKinds, d, e)
  BY <1>1 DEF HeaderAfter, Yes, HeaderKinds
<1>5. DecodeArgs(HeaderKinds, d, e) = Got(ok, e, j, val)
  BY <1>2 DEF ArgsAs
<1> QED
  BY <1>3, <1>4, <1>5 DEF DecodeHeader, count, Got

Stepped(ok, c, k, event, end) == [ok |-> ok, cur |-> Consumed(c, k), event |-> event, end |-> end]

StepAs(w, n, ok, k, event, end) ==
  \A d, c : Window(d, c, w) => OneStep(d, c, n) = Stepped(ok, c, k, event, end)

Ending(code) == IF code = EndStream THEN Yes ELSE No

LEMMA StepBad ==
  ASSUME NEW w, NEW n, NEW ok, NEW k, NEW val, HeaderAs(w, n, ok, k, val),
         ok = No \/ val[1][1] \notin Codes
  PROVE  StepAs(w, n, No, k, <<>>, No)
<1> SUFFICES ASSUME NEW d, NEW c, Window(d, c, w)
             PROVE  OneStep(d, c, n) = Stepped(No, c, k, <<>>, No)
  BY DEF StepAs
<1> DEFINE header == DecodeHeader(d, c, n)
           e == Consumed(c, k)
<1>1. header = [ok |-> ok, cur |-> e, val |-> val]
  BY DEF HeaderAs, Got
<1> HIDE DEF header, e
<1>2. ~(header.ok /\ header.val[1][1] \in Codes) /\ header.cur = e
  BY <1>1 DEF No
<1>3. OneStep(d, c, n) = Failed(e, FALSE)
  BY <1>2 DEF OneStep, header
<1> QED
  BY <1>3 DEF Failed, Stepped, No, e

\* The header is complete and carries a known code.
StepArgsAs(w, n, k, val, code, ok, j, args) ==
  \A d, c : Window(d, c, w) =>
    OneStep(d, c, n) = IF ok = Yes
                       THEN Checked[<<d, Consumed(c, k + j), [count |-> n, code |-> code,
                                       time |-> val[2][1], args |-> args]>>]
                       ELSE Failed(Consumed(c, k + j), code = EndStream)

LEMMA StepArgs ==
  ASSUME NEW w, NEW n \in Nat, NEW k \in 0 .. Len(w),
         NEW val \in Seq(Seq(Nat)), HeaderAs(w, n, Yes, k, val),
         NEW code \in Codes, val[1][1] = code,
         NEW ok \in Truth, NEW j \in 0 .. (Len(w) - k), NEW args,
         ArgsAs(Layout[code], Rest(w, k), ok, j, args)
  PROVE  StepArgsAs(w, n, k, val, code, ok, j, args)
<1> SUFFICES ASSUME NEW d, NEW c, Window(d, c, w)
             PROVE  OneStep(d, c, n) =
                      IF ok = Yes
                      THEN Checked[<<d, Consumed(c, k + j), [count |-> n, code |-> code,
                                      time |-> val[2][1], args |-> args]>>]
                      ELSE Failed(Consumed(c, k + j), code = EndStream)
  BY DEF StepArgsAs
<1> DEFINE e == Consumed(c, k)
           f == Consumed(c, k + j)
           header == Got(Yes, c, k, val)
           at == <<d, header, n>>
<1>1. DecodeHeader(d, c, n) = header
  BY DEF HeaderAs
<1>2. header \in Reading
  <2>1. Yes \in Truth
    BY DEF Truth
  <2> QED
    BY <2>1, ResultReading
<1>3. header.ok /\ header.val = val /\ header.cur = e
  <2>1. header.ok = Yes /\ header.val = val /\ header.cur = e
    BY GotIs
  <2> QED
    BY <2>1 DEF Yes
<1>4. Window(d, e, Rest(w, k)) /\ Consumed(e, j) = f
  BY ConsumedWindow, ConsumedTwice DEF Rest
<1>5. d \in Storage
  BY DEF Window
<1> HIDE DEF header
<1>6. at \in Storage \X Reading \X Nat /\ at[1] = d /\ at[2] = header /\ at[3] = n
  BY <1>2, <1>5
<1>7. OneStep(d, c, n) = ArgsDecoded[at]
  BY <1>1, <1>3 DEF OneStep
<1> DEFINE args0 == DecodeArgs(Layout[code], d, e)
<1>8. args0 = [ok |-> ok, cur |-> f, val |-> args]
  <2> HIDE DEF e, f
  <2>1. args0 = Got(ok, e, j, args)
    BY <1>4 DEF ArgsAs
  <2> QED
    BY <2>1, <1>4 DEF Got
<1> HIDE DEF at, e, f, args0
<1>9. ArgsDecoded[at] =
        IF DecodeArgs(Layout[at[2].val[1][1]], at[1], at[2].cur).ok
        THEN Checked[<<at[1], DecodeArgs(Layout[at[2].val[1][1]], at[1], at[2].cur).cur,
                       [count |-> at[3], code |-> at[2].val[1][1], time |-> at[2].val[2][1],
                        args |-> DecodeArgs(Layout[at[2].val[1][1]], at[1], at[2].cur).val]>>]
        ELSE Failed(DecodeArgs(Layout[at[2].val[1][1]], at[1], at[2].cur).cur,
                    at[2].val[1][1] = EndStream)
  BY <1>6 DEF ArgsDecoded
<1>10. DecodeArgs(Layout[at[2].val[1][1]], at[1], at[2].cur) = args0
  BY <1>3, <1>6 DEF args0
<1>11. ArgsDecoded[at] = IF args0.ok
                         THEN Checked[<<d, args0.cur, [count |-> n, code |-> code,
                                         time |-> val[2][1], args |-> args0.val]>>]
                         ELSE Failed(args0.cur, code = EndStream)
  BY <1>3, <1>6, <1>9, <1>10
<1>12. args0.ok <=> ok = Yes
  BY <1>8 DEF Truth, Yes, No
<1>13. args0.cur = f /\ args0.val = args
  BY <1>8
<1> QED
  BY <1>7, <1>11, <1>12, <1>13 DEF f

LEMMA CheckedIs ==
  ASSUME NEW d \in Storage, NEW c \in Cursor, NEW event \in Event
  PROVE  Checked[<<d, c, event>>] =
           IF DecodeValue[<<d, c>>].ok /\ DecodeValue[<<d, c>>].val[1] = event.code
           THEN [ok |-> TRUE, cur |-> DecodeValue[<<d, c>>].cur, event |-> <<event>>,
                 end |-> event.code = EndStream]
           ELSE Failed(DecodeValue[<<d, c>>].cur, event.code = EndStream)
<1> DEFINE at == <<d, c, event>>
<1>1. at \in Storage \X Cursor \X Event /\ at[1] = d /\ at[2] = c /\ at[3] = event
  OBVIOUS
<1> HIDE DEF at
<1>2. Checked[at] =
        IF DecodeValue[<<at[1], at[2]>>].ok /\ DecodeValue[<<at[1], at[2]>>].val[1] = at[3].code
        THEN [ok |-> TRUE, cur |-> DecodeValue[<<at[1], at[2]>>].cur, event |-> <<at[3]>>,
              end |-> at[3].code = EndStream]
        ELSE Failed(DecodeValue[<<at[1], at[2]>>].cur, at[3].code = EndStream)
  BY <1>1 DEF Checked
<1> QED
  BY <1>1, <1>2 DEF at

LEMMA EndingIs ==
  \A code : Ending(code) \in Truth /\ (code = EndStream) = Ending(code)
BY DEF Ending, Truth, Yes, No

\* The numbers of a header, and the event it begins.
EventOf(n, val, args) ==
  [count |-> n, code |-> val[1][1], time |-> val[2][1], args |-> args]

LEMMA EventIs ==
  ASSUME NEW n \in Nat, NEW val \in Seq(Seq(Nat)), Shaped(HeaderKinds, 3, val), val[1][1] \in Codes,
         NEW args \in Seq(Seq(Nat))
  PROVE  EventOf(n, val, args) \in Event /\ EventOf(n, val, args).code = val[1][1]
<1>1. Len(val) = 3 /\ Len(val[2]) = 1
  BY DEF Shaped, HeaderKinds
<1>2. val[2] \in Seq(Nat)
  <2>1. 2 \in 1 .. Len(val)
    BY <1>1
  <2> QED
    BY <2>1
<1>3. val[2][1] \in Nat
  BY <1>1, <1>2
<1> QED
  BY <1>3 DEF EventOf, Event

\* Header, arguments and what is behind them make the step.
LEMMA StepNoArgs ==
  ASSUME NEW w, NEW n \in Nat, NEW k \in 0 .. Len(w), NEW val \in Seq(Seq(Nat)),
         HeaderAs(w, n, Yes, k, val), val[1][1] \in Codes, NEW j \in 0 .. (Len(w) - k), NEW args,
         ArgsAs(Layout[val[1][1]], Rest(w, k), No, j, args)
  PROVE  StepAs(w, n, No, k + j, <<>>, Ending(val[1][1]))
<1> SUFFICES ASSUME NEW d, NEW c, Window(d, c, w)
             PROVE  OneStep(d, c, n) = Stepped(No, c, k + j, <<>>, Ending(val[1][1]))
  BY DEF StepAs
<1> DEFINE code == val[1][1]
<1>1. code \in Codes /\ val[1][1] = code /\ ArgsAs(Layout[code], Rest(w, k), No, j, args)
  OBVIOUS
<1>2. No \in Truth /\ No # Yes
  BY DEF Truth, Yes, No
<1> HIDE DEF code
<1>3. OneStep(d, c, n) = IF No = Yes
                         THEN Checked[<<d, Consumed(c, k + j), [count |-> n, code |-> code,
                                         time |-> val[2][1], args |-> args]>>]
                         ELSE Failed(Consumed(c, k + j), code = EndStream)
  <2>1. StepArgsAs(w, n, k, val, code, No, j, args)
    BY <1>1, <1>2, StepArgs
  <2> QED
    BY <2>1 DEF StepArgsAs
<1>4. OneStep(d, c, n) = Failed(Consumed(c, k + j), code = EndStream)
  BY <1>2, <1>3
<1>5. (code = EndStream) = Ending(code)
  BY EndingIs
<1> QED
  BY <1>4, <1>5 DEF Failed, Stepped, No, code

LEMMA StepCheck ==
  ASSUME NEW w, NEW n \in Nat, NEW k \in 0 .. Len(w), NEW val \in Seq(Seq(Nat)),
         HeaderAs(w, n, Yes, k, val), Shaped(HeaderKinds, 3, val), val[1][1] \in Codes,
         NEW j \in 0 .. (Len(w) - k), NEW args \in Seq(Seq(Nat)),
         ArgsAs(Layout[val[1][1]], Rest(w, k), Yes, j, args),
         NEW ok \in Truth, NEW m \in 0 .. (Len(w) - (k + j)), NEW check,
         ValueAs(Rest(w, k + j), ok, m, check)
  PROVE  IF ok = Yes /\ check[1] = val[1][1]
         THEN StepAs(w, n, Yes, (k + j) + m, <<EventOf(n, val, args)>>, Ending(val[1][1]))
         ELSE StepAs(w, n, No, (k + j) + m, <<>>, Ending(val[1][1]))
<1> DEFINE code == val[1][1]
           event == EventOf(n, val, args)
           good == ok = Yes /\ check[1] = code
           f(c) == Consumed(c, k + j)
<1>1. code \in Codes /\ val[1][1] = code /\ ArgsAs(Layout[code], Rest(w, k), Yes, j, args)
  OBVIOUS
<1>2. Yes \in Truth /\ event \in Event /\ event.code = code
  BY EventIs DEF Truth
<1>3. event = [count |-> n, code |-> code, time |-> val[2][1], args |-> args]
  BY DEF EventOf
<1> HIDE DEF code, event
<1>4. ASSUME NEW d, NEW c, Window(d, c, w)
      PROVE  OneStep(d, c, n) = IF good THEN Stepped(Yes, c, (k + j) + m, <<event>>, Ending(code))
                                        ELSE Stepped(No, c, (k + j) + m, <<>>, Ending(code))
  <2>1. OneStep(d, c, n) = IF Yes = Yes
                           THEN Checked[<<d, Consumed(c, k + j), [count |-> n, code |-> code,
                                           time |-> val[2][1], args |-> args]>>]
                           ELSE Failed(Consumed(c, k + j), code = EndStream)
    <3>1. StepArgsAs(w, n, k, val, code, Yes, j, args)
      BY <1>1, <1>2, StepArgs
    <3> QED
      BY <1>4, <3>1 DEF StepArgsAs
  <2> DEFINE g == k + j
             e == Consumed(c, g)
  <2>2. g \in 0 .. Len(w) /\ d \in Storage
    <3>1. Len(w) \in Nat /\ d \in Storage
      BY <1>4 DEF Window
    <3> QED
      BY <3>1
  <2> HIDE DEF g
  <2>3. Window(d, e, Rest(w, g)) /\ e \in Cursor /\ Consumed(e, m) = Consumed(c, g + m)
    <3>1. m \in 0 .. (Len(w) - g)
      BY DEF g
    <3>2. Window(d, e, Rest(w, g)) /\ e \in Cursor
      BY <2>2, <1>4, ConsumedWindow DEF Rest
    <3>3. Consumed(e, m) = Consumed(c, g + m)
      BY <2>2, <3>1, <1>4, ConsumedTwice
    <3> QED
      BY <3>2, <3>3
  <2> HIDE DEF e
  <2>4. DecodeValue[<<d, e>>] = [ok |-> ok, cur |-> Consumed(e, m), val |-> check]
    <3>1. ValueAs(Rest(w, g), ok, m, check)
      BY DEF g
    <3> QED
      BY <2>3, <3>1 DEF ValueAs, Got
  <2>5. OneStep(d, c, n) = Checked[<<d, e, event>>]
    BY <2>1, <1>3 DEF e, g
  <2>6. Checked[<<d, e, event>>] =
          IF DecodeValue[<<d, e>>].ok /\ DecodeValue[<<d, e>>].val[1] = event.code
          THEN [ok |-> TRUE, cur |-> DecodeValue[<<d, e>>].cur, event |-> <<event>>,
                end |-> event.code = EndStream]
          ELSE Failed(DecodeValue[<<d, e>>].cur, event.code = EndStream)
    BY <1>2, <2>2, <2>3, CheckedIs
  <2>7. DecodeValue[<<d, e>>].ok <=> ok = Yes
    BY <2>4 DEF Truth, Yes, No
  <2>8. DecodeValue[<<d, e>>].cur = Consumed(c, g + m) /\ DecodeValue[<<d, e>>].val = check
    BY <2>3, <2>4
  <2>9. (code = EndStream) = Ending(code)
    BY EndingIs
  <2>10. OneStep(d, c, n) =
           IF good
           THEN [ok |-> TRUE, cur |-> Consumed(c, g + m), event |-> <<event>>, end |-> code = EndStream]
           ELSE [ok |-> FALSE, cur |-> Consumed(c, g + m), event |-> <<>>, end |-> code = EndStream]
    BY <2>5, <2>6, <2>7, <2>8, <1>2 DEF Failed
  <2> QED
    BY <2>9, <2>10 DEF Stepped, Yes, No, g
<1>5. CASE good
  BY <1>4, <1>5 DEF StepAs, code, event
<1>6. CASE ~good
  BY <1>4, <1>6 DEF StepAs, code, event
<1> QED
  BY <1>5, <1>6 DEF code, event

LEMMA ValueSome ==
  ASSUME NEW w \in Seq(Byte)
  PROVE  \E ok \in Truth, k \in 0 .. Len(w), val \in Seq(Nat) :
            ValueAs(w, ok, k, val) /\ (IF ok = Yes THEN Len(val) = 1 ELSE k = Len(w))
<1>1. "value" \in Kinds
  BY DEF Kinds
<1>2. PICK ok \in Truth, k \in 0 .. Len(w), val \in Seq(Nat) :
         /\ ArgAs("value", w, ok, k, val)
         /\ "value" = "value" => (IF ok = Yes THEN Len(val) = 1 ELSE k = Len(w))
  BY <1>1, ArgCases
<1>3. ValueAs(w, ok, k, val)
  BY <1>2 DEF ArgAs, ValueAs, DecodeArg
<1> QED
  BY <1>2, <1>3

LEMMA HeaderKindsAre == HeaderKinds \in Seq(Kinds) /\ Len(HeaderKinds) = 3
BY DEF HeaderKinds, Kinds

LEMMA HeaderCases ==
  ASSUME NEW w \in Seq(Byte), NEW n \in Nat
  PROVE  \E ok \in Truth, k \in 0 .. Len(w) : \E val :
            /\ HeaderAs(w, n, ok, k, val)
            /\ ok = Yes => val \in Seq(Seq(Nat)) /\ Shaped(HeaderKinds, 3, val)
<1>1. PICK ok \in Truth, k \in 0 .. Len(w), val \in Seq(Nat) :
         ValueAs(w, ok, k, val) /\ (IF ok = Yes THEN Len(val) = 1 ELSE k = Len(w))
  BY ValueSome
<1>2. CASE ok = No \/ val[1] # n
  <2>1. HeaderAs(w, n, No, k, val)
    BY <1>1, <1>2, HeaderNone
  <2>2. No \in Truth /\ No # Yes
    BY DEF Truth, Yes, No
  <2> QED
    BY <2>1, <2>2
<1>3. CASE ok = Yes /\ val[1] = n
  <2>1. val = <<n>>
    BY <1>1, <1>3
  <2>2. ValueAs(w, Yes, k, <<n>>)
    BY <1>1, <1>3, <2>1
  <2> DEFINE u == Rest(w, k)
  <2>3. u \in Seq(Byte) /\ Len(u) = Len(w) - k /\ Len(w) \in Nat
    BY PrefixIs
  <2> HIDE DEF u
  <2>4. PICK o \in Truth, j \in 0 .. Len(u), v \in Seq(Seq(Nat)) :
           ArgsAs(HeaderKinds, u, o, j, v) /\ (o = Yes => Shaped(HeaderKinds, 3, v))
    BY <2>3, HeaderKindsAre, ArgsCases
  <2>5. j \in 0 .. (Len(w) - k)
    BY <2>3
  <2>6. HeaderAs(w, n, o, k + j, v)
    BY <2>2, <2>4, <2>5, HeaderArgs DEF u
  <2>7. k + j \in 0 .. Len(w)
    BY <2>3, <2>5
  <2> DEFINE m == k + j
  <2>8. m \in 0 .. Len(w) /\ HeaderAs(w, n, o, m, v)
    BY <2>6, <2>7
  <2> HIDE DEF m
  <2> QED
    BY <2>4, <2>8
<1> QED
  BY <1>1, <1>2, <1>3 DEF Truth

LEMMA LayoutKinds ==
  ASSUME NEW code \in Codes
  PROVE  Layout[code] \in Seq(Kinds) /\ Len(Layout[code]) \in 0 .. 4
<1> DEFINE a == "value"
           b == "string"
           D == {<<>>, <<a>>, <<b>>, <<a, a>>, <<a, b, a>>, <<a, b, b>>, <<a, a, a>>, <<a, a, a, a>>}
<1>1. a \in Kinds /\ b \in Kinds
  BY DEF Kinds
<1>2. Layout[code] \in D
  <2>1. Layout[code] =
          CASE code = BeginStream -> <<a, b, a>>
            [] code = EndStream -> <<>>
            [] code = HeapCreate -> <<a, b, b>>
            [] code \in {HeapDestroy, HeapFreeAll} -> <<a>>
            [] code \in {HeapAddCore, HeapGrowCore, HeapRemoveCore, HeapShrinkCore, HeapFree}
                 -> <<a, a, a>>
            [] code = HeapAllocate -> <<a, a, a, a>>
            [] code \in {EventStart, EventEnd} -> <<b>>
            [] code = SetBackingAllocator -> <<a, a>>
    BY DEF Layout
  <2> HIDE DEF a, b
  <2>2. code \in {BeginStream, EndStream, HeapCreate, HeapDestroy, HeapAddCore,
                  HeapGrowCore, HeapRemoveCore, HeapShrinkCore, HeapAllocate, HeapFree,
                  HeapFreeAll, EventStart, EventEnd, SetBackingAllocator}
    BY DEF Codes
  <2> QED
    BY <2>1, <2>2 DEF BeginStream, EndStream, HeapCreate, HeapDestroy, HeapAddCore,
       HeapGrowCore, HeapRemoveCore, HeapShrinkCore, HeapAllocate, HeapFree, HeapFreeAll,
       EventStart, EventEnd, SetBackingAllocator
<1> HIDE DEF a, b
<1>3. ASSUME NEW s \in D PROVE s \in Seq(Kinds) /\ Len(s) \in 0 .. 4
  <2>1. \A x \in Kinds : <<x>> \in Seq(Kinds) /\ Len(<<x>>) = 1
    OBVIOUS
  <2>2. \A x \in Kinds : <<x, x>> \in Seq(Kinds) /\ Len(<<x, x>>) = 2
    OBVIOUS
  <2>3. \A x, y, z \in Kinds : <<x, y, z>> \in Seq(Kinds) /\ Len(<<x, y, z>>) = 3
    OBVIOUS
  <2>4. \A x \in Kinds : <<x, x, x, x>> \in Seq(Kinds) /\ Len(<<x, x, x, x>>) = 4
    OBVIOUS
  <2>5. <<>> \in Seq(Kinds) /\ Len(<<>>) = 0
    OBVIOUS
  <2>6. \A n \in {0, 1, 2, 3, 4} : n \in 0 .. 4
    OBVIOUS
  <2>7. CASE s = <<>>
    BY <2>5, <2>7
  <2>8. CASE s = <<a>>
    BY <1>1, <2>1, <2>8
  <2>9. CASE s = <<b>>
    BY <1>1, <2>1, <2>9
  <2>10. CASE s = <<a, a>>
    BY <1>1, <2>2, <2>10
  <2>11. CASE s = <<a, b, a>>
    BY <1>1, <2>3, <2>11
  <2>12. CASE s = <<a, b, b>>
    BY <1>1, <2>3, <2>12
  <2>13. CASE s = <<a, a, a>>
    BY <1>1, <2>3, <2>13
  <2>14. CASE s = <<a, a, a, a>>
    BY <1>1, <2>4, <2>14
  <2> QED
    BY <2>7, <2>8, <2>9, <2>10, <2>11, <2>12, <2>13, <2>14
<1> HIDE DEF D
<1> QED
  BY <1>2, <1>3

LEMMA StepCases ==
  ASSUME NEW w \in Seq(Byte), NEW n \in Nat
  PROVE  \E k \in 0 .. Len(w), end \in Truth :
            StepAs(w, n, No, k, <<>>, end) \/ \E e \in Event : StepAs(w, n, Yes, k, <<e>>, end)
<1>0. No \in Truth /\ No # Yes /\ Len(w) \in Nat
  BY DEF Truth, Yes, No
<1>a. PICK ok \in Truth, k \in 0 .. Len(w) : \E val :
         /\ HeaderAs(w, n, ok, k, val)
         /\ ok = Yes => val \in Seq(Seq(Nat)) /\ Shaped(HeaderKinds, 3, val)
  BY HeaderCases
<1>1. PICK val :
         /\ HeaderAs(w, n, ok, k, val)
         /\ ok = Yes => val \in Seq(Seq(Nat)) /\ Shaped(HeaderKinds, 3, val)
  BY <1>a
<1>2. CASE ok = No \/ val[1][1] \notin Codes
  <2>1. StepAs(w, n, No, k, <<>>, No)
    BY <1>1, <1>2, StepBad
  <2> QED
    BY <2>1, <1>0
<1>3. CASE ok = Yes /\ val[1][1] \in Codes
  <2> DEFINE u == Rest(w, k)
             code == val[1][1]
             kinds == Layout[code]
  <2>0. /\ val \in Seq(Seq(Nat)) /\ HeaderAs(w, n, Yes, k, val) /\ Shaped(HeaderKinds, 3, val)
        /\ code \in Codes /\ Ending(code) \in Truth
    BY <1>1, <1>3, EndingIs
  <2>1. u \in Seq(Byte) /\ Len(u) = Len(w) - k /\ kinds \in Seq(Kinds)
    BY <1>3, PrefixIs, LayoutKinds
  <2> HIDE DEF u, kinds
  <2>2. PICK o \in Truth, j \in 0 .. Len(u), args \in Seq(Seq(Nat)) :
           ArgsAs(kinds, u, o, j, args) /\ (o = Yes => Shaped(kinds, Len(kinds), args))
    BY <2>1, ArgsCases
  <2>3. j \in 0 .. (Len(w) - k) /\ k + j \in 0 .. Len(w)
    BY <2>1, <1>0
  <2>4. CASE o = No
    <3>1. StepAs(w, n, No, k + j, <<>>, Ending(code))
      BY <2>0, <2>2, <2>3, <2>4, StepNoArgs DEF u, kinds
    <3> HIDE DEF code
    <3> DEFINE g == k + j
    <3>2. StepAs(w, n, No, g, <<>>, Ending(code)) /\ g \in 0 .. Len(w)
      BY <3>1, <2>3
    <3> HIDE DEF g
    <3> QED
      BY <3>2, <2>0, <1>0
  <2>5. CASE o = Yes
    <3> DEFINE g == k + j
               x == Rest(w, g)
    <3>1. x \in Seq(Byte) /\ Len(x) = Len(w) - g
      BY <2>3, PrefixIs
    <3> HIDE DEF x
    <3>2. PICK p \in Truth, m \in 0 .. Len(x), check \in Seq(Nat) :
             ValueAs(x, p, m, check) /\ (IF p = Yes THEN Len(check) = 1 ELSE m = Len(x))
      BY <3>1, ValueSome
    <3>3. m \in 0 .. (Len(w) - g) /\ g + m \in 0 .. Len(w)
      BY <3>1, <2>3, <1>0
    <3>4. IF p = Yes /\ check[1] = code
          THEN StepAs(w, n, Yes, g + m, <<EventOf(n, val, args)>>, Ending(code))
          ELSE StepAs(w, n, No, g + m, <<>>, Ending(code))
      <4>1. ValueAs(Rest(w, k + j), p, m, check) /\ m \in 0 .. (Len(w) - (k + j))
        BY <3>2, <3>3 DEF x
      <4>2. ArgsAs(Layout[val[1][1]], Rest(w, k), Yes, j, args) /\ j \in 0 .. (Len(w) - k)
        BY <2>2, <2>3, <2>5 DEF u, kinds
      <4> QED
        BY <2>0, <4>1, <4>2, StepCheck
    <3>5. EventOf(n, val, args) \in Event
      BY <2>0, EventIs
    <3>6. Yes \in Truth
      BY DEF Truth
    <3> HIDE DEF code
    <3> DEFINE h == g + m
               ev == EventOf(n, val, args)
    <3>7. h \in 0 .. Len(w) /\ ev \in Event
          /\ (StepAs(w, n, Yes, h, <<ev>>, Ending(code)) \/ StepAs(w, n, No, h, <<>>, Ending(code)))
      BY <3>3, <3>4, <3>5
    <3> HIDE DEF h, ev
    <3> QED
      BY <2>0, <3>6, <3>7, <1>0
  <2> QED
    BY <2>4, <2>5 DEF Truth
<1> QED
  BY <1>1, <1>2, <1>3 DEF Truth

(***************************************************************************)
(* What was sent is what is read, as far as it has arrived.                *)
(***************************************************************************)
Agree(w, b) == \A i \in 1 .. Len(b) : i <= Len(w) => w[i] = b[i]

LEMMA AgreeParts ==
  ASSUME NEW w \in Seq(Byte), NEW x \in Seq(Byte), NEW y \in Seq(Byte), Agree(w, x \o y)
  PROVE  /\ Agree(w, x) /\ Len(x \o y) = Len(x) + Len(y) /\ x \o y \in Seq(Byte)
         /\ Len(x) <= Len(w) => Agree(Rest(w, Len(x)), y)
<1> DEFINE z == x \o y
<1>1. /\ z \in Seq(Byte) /\ Len(z) = Len(x) + Len(y) /\ Len(x) \in Nat /\ Len(y) \in Nat /\ Len(w) \in Nat
      /\ \A i \in 1 .. Len(x) : z[i] = x[i]
      /\ \A i \in 1 .. Len(y) : z[Len(x) + i] = y[i]
  OBVIOUS
<1>2. \A i \in 1 .. Len(z) : i <= Len(w) => w[i] = z[i]
  BY DEF Agree
<1> HIDE DEF z
<1>3. Agree(w, x)
  <2>1. ASSUME NEW i \in 1 .. Len(x), i <= Len(w) PROVE w[i] = x[i]
    <3>1. i \in 1 .. Len(z)
      BY <1>1
    <3> QED
      BY <3>1, <2>1, <1>1, <1>2
  <2> QED
    BY <2>1 DEF Agree
<1>4. ASSUME Len(x) <= Len(w) PROVE Agree(Rest(w, Len(x)), y)
  <2> DEFINE v == Rest(w, Len(x))
  <2>1. Len(x) \in 0 .. Len(w)
    BY <1>1, <1>4
  <2>2. Len(v) = Len(w) - Len(x) /\ \A i \in 1 .. (Len(w) - Len(x)) : v[i] = w[Len(x) + i]
    BY <2>1, PrefixIs
  <2> HIDE DEF v
  <2>3. ASSUME NEW i \in 1 .. Len(y), i <= Len(v) PROVE v[i] = y[i]
    <3>1. i \in 1 .. (Len(w) - Len(x)) /\ Len(x) + i \in 1 .. Len(z) /\ Len(x) + i <= Len(w)
      BY <1>1, <2>2, <2>3
    <3>2. v[i] = w[Len(x) + i]
      BY <3>1, <2>2
    <3>3. w[Len(x) + i] = z[Len(x) + i]
      BY <3>1, <1>2
    <3> QED
      BY <3>2, <3>3, <1>1
  <2> QED
    BY <2>3 DEF Agree, v
<1> QED
  BY <1>1, <1>3, <1>4 DEF z

LEMMA AgreeWhole ==
  ASSUME NEW w \in Seq(Byte), NEW b \in Seq(Byte), Agree(w, b), Len(b) <= Len(w)
  PROVE  Prefix(w, Len(b)) = b /\ Len(b) \in 0 .. Len(w)
<1> DEFINE p == Prefix(w, Len(b))
<1>1. Len(b) \in 0 .. Len(w)
  OBVIOUS
<1>2. p \in Seq(Byte) /\ Len(p) = Len(b) /\ \A i \in 1 .. Len(b) : p[i] = w[i]
  BY <1>1, PrefixIs
<1>3. \A i \in 1 .. Len(b) : w[i] = b[i]
  BY <1>1 DEF Agree
<1> HIDE DEF p
<1>4. p = b
  BY <1>2, <1>3
<1> QED
  BY <1>1, <1>4 DEF p

LEMMA ValueRound ==
  ASSUME NEW w \in Seq(Byte), NEW v \in 0 .. (Word - 1), Agree(w, Unsigned[v])
  PROVE  /\ Len(Unsigned[v]) <= Len(w) =>
              /\ ValueAs(w, Yes, Len(Unsigned[v]), <<v>>)
              /\ Len(Unsigned[v]) \in 1 .. Len(w) /\ Digits(Prefix(w, Len(Unsigned[v])))
              /\ Number(Prefix(w, Len(Unsigned[v]))) = v
         /\ Len(Unsigned[v]) > Len(w) => AllLow(w) /\ ValueAs(w, No, Len(w), <<>>)
         /\ Unsigned[v] \in Seq(Byte) /\ Len(Unsigned[v]) \in Nat /\ Len(Unsigned[v]) >= 1
<1> DEFINE b == Unsigned[v]
<1>1. v \in Nat /\ Digits(b) /\ Number(b) = v
  BY UnsignedDigits, NumberRoundTrip, WordIs
<1> HIDE DEF b
<1>2. b \in Seq(Byte) /\ b # <<>> /\ \A i \in 1 .. (Len(b) - 1) : b[i] < Half
  BY <1>1 DEF Digits
<1>3. Len(b) \in Nat /\ Len(b) >= 1 /\ Len(w) \in Nat
  BY <1>2
<1>4. ASSUME Len(b) <= Len(w)
      PROVE  /\ ValueAs(w, Yes, Len(b), <<v>>) /\ Len(b) \in 1 .. Len(w) /\ Digits(Prefix(w, Len(b)))
             /\ Number(Prefix(w, Len(b))) = v
  <2>1. Prefix(w, Len(b)) = b /\ Len(b) \in 1 .. Len(w)
    BY <1>2, <1>3, <1>4, AgreeWhole DEF b
  <2>2. ValueAs(w, Yes, Len(b), <<Number(Prefix(w, Len(b)))>>)
    BY <2>1, <1>1, ValueDigits
  <2> QED
    BY <2>1, <2>2, <1>1
<1>5. ASSUME Len(b) > Len(w) PROVE AllLow(w) /\ ValueAs(w, No, Len(w), <<>>)
  <2>1. AllLow(w)
    <3> SUFFICES ASSUME NEW i \in 1 .. Len(w) PROVE w[i] < Half
      BY DEF AllLow
    <3>1. i \in 1 .. Len(b) /\ i <= Len(w) /\ i \in 1 .. (Len(b) - 1)
      BY <1>3, <1>5
    <3>2. w[i] = b[i]
      BY <3>1 DEF Agree, b
    <3> QED
      BY <3>1, <3>2, <1>2
  <2> QED
    BY <2>1, ValueNone
<1> QED
  BY <1>2, <1>3, <1>4, <1>5 DEF b

\* An argument an event function passes to the encoder.
Fits(kind, arg) ==
  IF kind = "value" THEN arg \in Seq(Nat) /\ Len(arg) = 1 /\ arg[1] < Word
                    ELSE arg \in Seq(Byte) /\ Len(arg) < Word

ArgRounds(kind, arg, w) ==
  LET b == EmitArg(kind, arg)
  IN  /\ Len(b) <= Len(w) => ArgAs(kind, w, Yes, Len(b), arg)
      /\ Len(b) > Len(w) => \E ok \in Truth, val \in Seq(Nat) :
                              ArgAs(kind, w, ok, Len(w), val) /\ (kind = "value" => ok = No)

LEMMA SingleIn ==
  ASSUME NEW D, NEW s \in Seq(D), Len(s) = 1
  PROVE  s[1] \in D /\ s = <<s[1]>>
OBVIOUS

LEMMA ValueArgRound ==
  ASSUME NEW w \in Seq(Byte), NEW arg, Fits("value", arg), Agree(w, EmitArg("value", arg))
  PROVE  ArgRounds("value", arg, w) /\ EmitArg("value", arg) \in Seq(Byte)
<1> DEFINE v == arg[1]
<1>1. arg \in Seq(Nat) /\ Len(arg) = 1 /\ v < Word
  BY DEF Fits
<1>2. arg = <<v>> /\ v \in 0 .. (Word - 1)
  <2>1. arg = <<v>>
    BY <1>1, SingleIn
  <2>2. v \in Nat
    BY <1>1, SingleIn
  <2> HIDE DEF v
  <2> QED
    BY <1>1, <2>1, <2>2, WordIs
<1>3. EmitArg("value", arg) = Unsigned[v]
  BY DEF EmitArg, EmitUnsigned
<1> HIDE DEF v
<1>4. /\ Len(Unsigned[v]) <= Len(w) => ValueAs(w, Yes, Len(Unsigned[v]), <<v>>)
      /\ Len(Unsigned[v]) > Len(w) => ValueAs(w, No, Len(w), <<>>)
      /\ Unsigned[v] \in Seq(Byte)
  BY <1>2, <1>3, ValueRound
<1>5. No \in Truth /\ <<>> \in Seq(Nat)
  BY DEF Truth
<1> DEFINE b == Unsigned[v]
<1> HIDE DEF b
<1>6. /\ Len(b) <= Len(w) => ArgAs("value", w, Yes, Len(b), arg)
      /\ Len(b) > Len(w) => ArgAs("value", w, No, Len(w), <<>>)
  BY <1>2, <1>4, ValueArg DEF b
<1> QED
  BY <1>3, <1>4, <1>5, <1>6 DEF ArgRounds, b

LEMMA StringArgRound ==
  ASSUME NEW w \in Seq(Byte), NEW arg, Fits("string", arg), Agree(w, EmitArg("string", arg))
  PROVE  ArgRounds("string", arg, w) /\ EmitArg("string", arg) \in Seq(Byte)
<1> DEFINE L == Len(arg)
           u == Unsigned[L]
           k == Len(u)
           b == EmitArg("string", arg)
<1>0. arg \in Seq(Byte) /\ L < Word /\ "string" # "value"
  BY DEF Fits
<1>1. L \in Nat /\ L \in 0 .. (Word - 1)
  BY <1>0, WordIs
<1>2. b = u \o arg
  BY <1>0 DEF EmitArg, EmitString, EmitUnsigned
<1>3. u \in Seq(Byte)
  BY <1>1, UnsignedDigits DEF Digits
<1>4. /\ Agree(w, u) /\ Len(b) = k + L /\ b \in Seq(Byte)
      /\ k <= Len(w) => Agree(Rest(w, k), arg)
  <2>1. Agree(w, b)
    OBVIOUS
  <2> HIDE DEF u, b
  <2>2. Agree(w, u \o arg)
    BY <1>2, <2>1
  <2> QED
    BY <1>0, <1>2, <1>3, <2>2, AgreeParts
<1>5. /\ k <= Len(w) => k \in 1 .. Len(w) /\ Digits(Prefix(w, k)) /\ Number(Prefix(w, k)) = L
      /\ k > Len(w) => AllLow(w)
      /\ k \in Nat /\ k >= 1
  <2> HIDE DEF L
  <2> QED
    BY <1>1, <1>4, ValueRound
<1>6. Len(w) \in Nat /\ No \in Truth /\ <<>> \in Seq(Nat)
  BY DEF Truth
<1> HIDE DEF L, u, k, b
<1>7. CASE k > Len(w)
  <2>1. ArgAs("string", w, No, Len(w), <<>>)
    BY <1>5, <1>7, StringNone
  <2>2. Len(b) > Len(w)
    BY <1>1, <1>4, <1>5, <1>6, <1>7
  <2>3. \E ok \in Truth, val \in Seq(Nat) : ArgAs("string", w, ok, Len(w), val) /\ ("string" = "value" => ok = No)
    BY <2>1, <1>0, <1>6
  <2>4. ~(Len(b) <= Len(w))
    BY <1>1, <1>4, <1>5, <1>6, <2>2
  <2> QED
    BY <2>3, <2>4, <1>4 DEF ArgRounds, b
<1>8. CASE k <= Len(w)
  <2> DEFINE r == Rest(w, k)
             m == SizeMin(L, Len(w) - k)
  <2>1. k \in 1 .. Len(w) /\ Digits(Prefix(w, k)) /\ Number(Prefix(w, k)) = L /\ Agree(r, arg)
    BY <1>4, <1>5, <1>8
  <2>2. r \in Seq(Byte) /\ Len(r) = Len(w) - k
    <3>1. k \in 0 .. Len(w)
      BY <2>1
    <3> QED
      BY <3>1, PrefixIs
  <2>3. m \in 0 .. (Len(w) - k) /\ (m = L \/ m = Len(w) - k) /\ (L <= Len(w) - k => m = L)
        /\ (L > Len(w) - k => m = Len(w) - k)
    BY <1>1, <1>6, <2>1 DEF SizeMin
  <2>4. ArgAs("string", w, L = 0 \/ m > 0, k + m, Prefix(r, m))
    <3> HIDE DEF m
    <3> QED
      BY <1>1, <2>1, <2>3, StringReads DEF m
  <2>5. ArgAs("string", w, IF L = 0 \/ m > 0 THEN Yes ELSE No, k + m, Prefix(r, m))
    <3>1. (L = 0 \/ m > 0) = (IF L = 0 \/ m > 0 THEN Yes ELSE No)
      BY DEF Yes, No
    <3> QED
      BY <2>4, <3>1
  <2> HIDE DEF m, r
  <2>6. CASE L <= Len(w) - k
    <3>1. m = L /\ (L = 0 \/ m > 0) /\ Prefix(r, m) = arg
      <4>1. m = L /\ (L = 0 \/ m > 0)
        BY <2>3, <2>6, <1>1
      <4>2. Prefix(r, L) = arg
        BY <1>0, <2>1, <2>2, <2>6, AgreeWhole DEF L
      <4> QED
        BY <4>1, <4>2
    <3>2. Len(b) <= Len(w) /\ k + m = Len(b) /\ ~(Len(b) > Len(w))
      BY <3>1, <2>6, <1>1, <1>4, <1>5, <1>6
    <3>3. ArgAs("string", w, Yes, Len(b), arg)
      BY <2>5, <3>1, <3>2
    <3> QED
      BY <3>2, <3>3, <1>4 DEF ArgRounds, b
  <2>7. CASE L > Len(w) - k
    <3>1. m = Len(w) - k /\ k + m = Len(w) /\ Len(b) > Len(w) /\ ~(Len(b) <= Len(w))
      BY <2>3, <2>7, <1>1, <1>4, <1>5, <1>6
    <3> DEFINE o == IF L = 0 \/ m > 0 THEN Yes ELSE No
               v == Prefix(r, m)
    <3>2. o \in Truth
      BY DEF Truth
    <3>3. v \in Seq(Nat)
      <4>1. v \in Seq(Byte)
        BY <2>2, <2>3, PrefixIs
      <4>2. Byte \subseteq Nat
        BY OctetAssumption
      <4> HIDE DEF v
      <4> QED
        BY <4>1, <4>2, SeqIn
    <3>4. ArgAs("string", w, o, Len(w), v)
      BY <2>5, <3>1
    <3> HIDE DEF o, v
    <3>5. \E ok \in Truth, val \in Seq(Nat) : ArgAs("string", w, ok, Len(w), val) /\ ("string" = "value" => ok = No)
      BY <3>2, <3>3, <3>4, <1>0
    <3> QED
      BY <3>1, <3>5, <1>4 DEF ArgRounds, b
  <2> QED
    BY <2>6, <2>7, <1>1, <1>5, <1>6
<1> QED
  BY <1>7, <1>8, <1>5, <1>6

LEMMA ArgRound ==
  ASSUME NEW w \in Seq(Byte), NEW kind \in Kinds, NEW arg, Fits(kind, arg), Agree(w, EmitArg(kind, arg))
  PROVE  ArgRounds(kind, arg, w) /\ EmitArg(kind, arg) \in Seq(Byte)
BY ValueArgRound, StringArgRound DEF Kinds

(***************************************************************************)
(* Bytes joined piece by piece.                                            *)
(***************************************************************************)
Joins(f, p, D) ==
  /\ f \in [0 .. Len(p) -> Seq(D)] /\ f[0] = <<>>
  /\ \A i \in 1 .. Len(p) : f[i] = f[i - 1] \o p[i]

JoinsUpto(f, p, D, n) ==
  /\ f \in [0 .. n -> Seq(D)] /\ f[0] = <<>>
  /\ \A i \in 1 .. n : f[i] = f[i - 1] \o p[i]

LEMMA JoinExists ==
  ASSUME NEW D, NEW p \in Seq(Seq(D))
  PROVE  \E f : Joins(f, p, D)
<1> DEFINE T == {n \in Nat : n <= Len(p) => \E f : JoinsUpto(f, p, D, n)}
<1>1. 0 \in T
  <2>1. JoinsUpto([i \in 0 .. 0 |-> <<>>], p, D, 0)
    BY DEF JoinsUpto
  <2> QED
    BY <2>1
<1>2. ASSUME NEW n \in T PROVE n + 1 \in T
  <2> SUFFICES ASSUME n + 1 <= Len(p) PROVE \E f : JoinsUpto(f, p, D, n + 1)
    OBVIOUS
  <2>1. n \in Nat /\ Len(p) \in Nat /\ n <= Len(p)
    OBVIOUS
  <2>2. PICK g : JoinsUpto(g, p, D, n)
    BY <2>1
  <2>2a. /\ g \in [0 .. n -> Seq(D)] /\ g[0] = <<>>
         /\ \A i \in 1 .. n : g[i] = g[i - 1] \o p[i]
    BY <2>2 DEF JoinsUpto
  <2> DEFINE m == n + 1
             f == [i \in 0 .. m |-> IF i <= n THEN g[i] ELSE g[n] \o p[m]]
  <2>3. p[m] \in Seq(D) /\ g[n] \in Seq(D) /\ m \in 1 .. Len(p)
    BY <2>1, <2>2a
  <2>4. f \in [0 .. m -> Seq(D)]
    <3>1. g[n] \o p[m] \in Seq(D)
      <4> DEFINE x == g[n]
                 y == p[m]
      <4>1. x \in Seq(D) /\ y \in Seq(D)
        BY <2>3
      <4> HIDE DEF x, y
      <4>2. x \o y \in Seq(D)
        BY <4>1
      <4> QED
        BY <4>2 DEF x, y
    <3>2. \A i \in 0 .. m : i <= n => g[i] \in Seq(D)
      BY <2>1, <2>2a
    <3> DEFINE z == g[n] \o p[m]
    <3>3. z \in Seq(D)
      BY <3>1
    <3> HIDE DEF z
    <3>4. [i \in 0 .. m |-> IF i <= n THEN g[i] ELSE z] \in [0 .. m -> Seq(D)]
      BY <3>2, <3>3
    <3> QED
      BY <3>4 DEF z
  <2>5. \A i \in 0 .. n : f[i] = g[i]
    BY <2>1
  <2>6. f[m] = g[n] \o p[m]
    <3>1. m \in 0 .. m /\ ~(m <= n)
      BY <2>1
    <3> HIDE DEF m
    <3> QED
      BY <3>1
  <2> HIDE DEF f
  <2>7. ASSUME NEW i \in 1 .. m PROVE f[i] = f[i - 1] \o p[i]
    <3>1. CASE i = m
      <4>1. i - 1 = n /\ n \in 0 .. n
        BY <3>1, <2>1
      <4> QED
        BY <4>1, <3>1, <2>5, <2>6
    <3>2. CASE i # m
      <4>1. i \in 1 .. n /\ i \in 0 .. n /\ i - 1 \in 0 .. n
        BY <3>2, <2>1
      <4> QED
        BY <4>1, <2>2a, <2>5
    <3> QED
      BY <3>1, <3>2
  <2>8. f[0] = <<>>
    BY <2>1, <2>2a, <2>5
  <2>9. JoinsUpto(f, p, D, m)
    BY <2>4, <2>7, <2>8 DEF JoinsUpto
  <2> QED
    BY <2>9
<1>3. T = Nat
  <2>1. T \in SUBSET Nat
    OBVIOUS
  <2> HIDE DEF T
  <2> QED
    BY <1>1, <1>2, <2>1, Induction
<1>4. Len(p) \in T /\ Len(p) <= Len(p)
  <2>1. Len(p) \in Nat
    OBVIOUS
  <2> HIDE DEF T
  <2> QED
    BY <1>3, <2>1
<1>5. \E f : JoinsUpto(f, p, D, Len(p))
  BY <1>4
<1> QED
  BY <1>5 DEF Joins, JoinsUpto

Flat(p) ==
  CHOOSE g : g = [i \in 1 .. Len(p) |-> IF i = 1 THEN p[i] ELSE g[i - 1] \o p[i]]

LEMMA FlattenJoins ==
  ASSUME NEW D, NEW p \in Seq(Seq(D)), NEW f, Joins(f, p, D)
  PROVE  FlattenSeq(p) = f[Len(p)]
<1>0. /\ f \in [0 .. Len(p) -> Seq(D)] /\ f[0] = <<>>
      /\ \A i \in 1 .. Len(p) : f[i] = f[i - 1] \o p[i]
  BY DEF Joins
<1>1. CASE Len(p) = 0
  <2>1. p = <<>>
    BY <1>1
  <2>2. FlattenSeq(p) = p
    BY <1>1 DEF FlattenSeq
  <2> QED
    BY <2>1, <2>2, <1>0, <1>1
<1>2. CASE Len(p) # 0
  <2> DEFINE D1 == 1 .. Len(p)
             h == [i \in D1 |-> f[i]]
             g == Flat(p)
  <2>1. Len(p) \in Nat /\ 1 \in D1 /\ Len(p) \in D1
    BY <1>2
  <2>2. FlattenSeq(p) = g[Len(p)]
    BY <1>2 DEF FlattenSeq, Flat
  <2>3. f[1] = p[1]
    <3>1. f[1] = <<>> \o p[1] /\ p[1] \in Seq(D)
      <4> DEFINE i == 1
      <4>1. i \in 1 .. Len(p) /\ i - 1 = 0
        BY <2>1
      <4> HIDE DEF i
      <4>2. f[i] = f[i - 1] \o p[i] /\ p[i] \in Seq(D)
        <5>1. p[i] \in Seq(D)
          BY <4>1
        <5>2. f[i] = f[i - 1] \o p[i]
          BY <4>1, <1>0, Zenon
        <5> QED
          BY <5>1, <5>2
      <4>3. f[i] = <<>> \o p[i] /\ p[i] \in Seq(D)
        BY <4>1, <4>2, <1>0
      <4> QED
        BY <4>3 DEF i
    <3> DEFINE x == p[1]
    <3> HIDE DEF x
    <3>2. \A y \in Seq(D) : <<>> \o y = y
      OBVIOUS
    <3> QED
      BY <3>1, <3>2 DEF x
  <2>4. h = [i \in D1 |-> IF i = 1 THEN p[i] ELSE h[i - 1] \o p[i]]
    <3>1. ASSUME NEW i \in D1 PROVE f[i] = IF i = 1 THEN p[i] ELSE h[i - 1] \o p[i]
      <4>1. CASE i = 1
        BY <4>1, <2>3
      <4>2. CASE i # 1
        <5>1. i - 1 \in D1
          BY <4>2, <2>1
        <5> QED
          BY <4>2, <5>1, <1>0
      <4> QED
        BY <4>1, <4>2
    <3> DEFINE e == [i \in D1 |-> IF i = 1 THEN p[i] ELSE h[i - 1] \o p[i]]
    <3>2. \A i \in D1 : e[i] = f[i]
      <4> HIDE DEF h
      <4> QED
        BY <3>1
    <3>3. e = [i \in D1 |-> e[i]]
      OBVIOUS
    <3> HIDE DEF e
    <3>4. e = h
      <4> HIDE DEF D1
      <4> QED
        BY <3>2, <3>3
    <3> QED
      BY <3>4 DEF e
  <2>5. g = [i \in D1 |-> IF i = 1 THEN p[i] ELSE g[i - 1] \o p[i]]
    <3> HIDE DEF h
    <3> QED
      BY <2>4 DEF Flat
  <2> HIDE DEF g, h
  <2> DEFINE T == {n \in Nat : n + 1 \in D1 => g[n + 1] = f[n + 1]}
  <2>6. 0 \in T
    BY <2>1, <2>3, <2>5
  <2>7. ASSUME NEW n \in T PROVE n + 1 \in T
    <3> SUFFICES ASSUME (n + 1) + 1 \in D1 PROVE g[(n + 1) + 1] = f[(n + 1) + 1]
      OBVIOUS
    <3> DEFINE i == (n + 1) + 1
    <3>1. n \in Nat /\ n + 1 \in D1 /\ i \in D1 /\ i # 1 /\ i - 1 = n + 1 /\ g[n + 1] = f[n + 1]
      BY <2>1
    <3> HIDE DEF i
    <3>2. g[i] = g[i - 1] \o p[i]
      <4> HIDE DEF D1
      <4> QED
        BY <3>1, <2>5
    <3>3. f[i] = f[i - 1] \o p[i]
      BY <3>1, <1>0
    <3> QED
      BY <3>1, <3>2, <3>3 DEF i
  <2>8. T = Nat
    <3>1. T \in SUBSET Nat
      OBVIOUS
    <3> HIDE DEF T
    <3> QED
      BY <2>6, <2>7, <3>1, Induction
  <2>9. Len(p) - 1 \in T /\ (Len(p) - 1) + 1 = Len(p)
    <3>1. Len(p) - 1 \in Nat /\ (Len(p) - 1) + 1 = Len(p)
      BY <1>2, <2>1
    <3> HIDE DEF T
    <3> QED
      BY <3>1, <2>8
  <2> QED
    BY <2>1, <2>2, <2>9
<1> QED
  BY <1>1, <1>2

LEMMA JoinPrefix ==
  ASSUME NEW D, NEW p \in Seq(Seq(D)), NEW f, Joins(f, p, D), NEW m \in 0 .. Len(p)
  PROVE  FlattenSeq(SubSeq(p, 1, m)) = f[m]
<1> DEFINE q == SubSeq(p, 1, m)
           g == [i \in 0 .. m |-> f[i]]
<1>0. /\ f \in [0 .. Len(p) -> Seq(D)] /\ f[0] = <<>>
      /\ \A i \in 1 .. Len(p) : f[i] = f[i - 1] \o p[i]
  BY DEF Joins
<1>1. Len(p) \in Nat /\ m \in Nat /\ m <= Len(p)
  OBVIOUS
<1>2. q \in Seq(Seq(D)) /\ Len(q) = m /\ \A i \in 1 .. m : q[i] = p[i]
  OBVIOUS
<1> HIDE DEF q
<1>3. g \in [0 .. m -> Seq(D)]
  BY <1>0, <1>1
<1>4. \A i \in 0 .. m : g[i] = f[i]
  OBVIOUS
<1> HIDE DEF g
<1>5. ASSUME NEW i \in 1 .. m PROVE g[i] = g[i - 1] \o q[i]
  <2>1. i \in 1 .. Len(p) /\ i \in 0 .. m /\ i - 1 \in 0 .. m
    BY <1>1
  <2>2. g[i] = f[i] /\ g[i - 1] = f[i - 1] /\ q[i] = p[i] /\ f[i] = f[i - 1] \o p[i]
    BY <2>1, <1>0, <1>2, <1>4, Zenon
  <2> QED
    BY <2>2
<1>6. Joins(g, q, D)
  <2>1. g[0] = <<>>
    BY <1>0, <1>1, <1>4
  <2> QED
    BY <2>1, <1>2, <1>3, <1>5 DEF Joins
<1>7. FlattenSeq(q) = g[Len(q)]
  BY <1>2, <1>6, FlattenJoins
<1> QED
  BY <1>1, <1>2, <1>4, <1>7 DEF q

\* The bytes of the first n arguments.
Pieces(kinds, args, f) ==
  /\ kinds \in Seq(Kinds) /\ args \in Seq(Seq(Nat)) /\ Len(args) = Len(kinds)
  /\ \A i \in 1 .. Len(kinds) : Fits(kinds[i], args[i])
  /\ f \in [0 .. Len(kinds) -> Seq(Byte)] /\ f[0] = <<>>
  /\ \A i \in 1 .. Len(kinds) : f[i] = f[i - 1] \o EmitArg(kinds[i], args[i])

LEMMA PiecesAre ==
  ASSUME NEW kinds, NEW args, NEW f, Pieces(kinds, args, f)
  PROVE  /\ kinds \in Seq(Kinds) /\ f \in [0 .. Len(kinds) -> Seq(Byte)] /\ Len(kinds) \in Nat
         /\ \A i \in 1 .. Len(kinds) : Fits(kinds[i], args[i])
         /\ \A i \in 1 .. Len(kinds) : f[i] = f[i - 1] \o EmitArg(kinds[i], args[i])
         /\ f[0] = <<>> /\ args \in Seq(Seq(Nat)) /\ Len(args) = Len(kinds)
<1>1. /\ kinds \in Seq(Kinds) /\ f \in [0 .. Len(kinds) -> Seq(Byte)]
      /\ f[0] = <<>> /\ args \in Seq(Seq(Nat)) /\ Len(args) = Len(kinds)
  BY DEF Pieces
<1>2. Len(kinds) \in Nat
  BY <1>1
<1>3. \A i \in 1 .. Len(kinds) : Fits(kinds[i], args[i])
  BY DEF Pieces
<1>4. \A i \in 1 .. Len(kinds) : f[i] = f[i - 1] \o EmitArg(kinds[i], args[i])
  BY Zenon DEF Pieces
<1> QED
  BY <1>1, <1>2, <1>3, <1>4

LEMMA PiecesTyped ==
  ASSUME NEW kinds, NEW args, NEW f, Pieces(kinds, args, f)
  PROVE  /\ kinds \in Seq(Kinds) /\ f \in [0 .. Len(kinds) -> Seq(Byte)] /\ Len(kinds) \in Nat
         /\ f[0] = <<>> /\ args \in Seq(Seq(Nat)) /\ Len(args) = Len(kinds)
BY PiecesAre

LEMMA PieceIs ==
  ASSUME NEW kinds, NEW args, NEW f, Pieces(kinds, args, f), NEW n \in 1 .. Len(kinds)
  PROVE  /\ kinds[n] \in Kinds /\ Fits(kinds[n], args[n])
         /\ f[n] = f[n - 1] \o EmitArg(kinds[n], args[n])
         /\ f[n] \in Seq(Byte) /\ f[n - 1] \in Seq(Byte)
<1>1. f \in [0 .. Len(kinds) -> Seq(Byte)] /\ Len(kinds) \in Nat /\ kinds \in Seq(Kinds)
  BY PiecesTyped
<1>2. n - 1 \in 0 .. Len(kinds) /\ n \in 0 .. Len(kinds)
  BY <1>1
<1>3. f[n] \in Seq(Byte) /\ f[n - 1] \in Seq(Byte) /\ kinds[n] \in Kinds
  BY <1>1, <1>2
<1>4. f[n] = f[n - 1] \o EmitArg(kinds[n], args[n]) /\ Fits(kinds[n], args[n])
  BY PiecesAre, Zenon
<1> QED
  BY <1>3, <1>4

LEMMA EmitBytes ==
  ASSUME NEW kind \in Kinds, NEW arg, Fits(kind, arg)
  PROVE  EmitArg(kind, arg) \in Seq(Byte)
<1> DEFINE b == EmitArg(kind, arg)
<1>1. CASE kind = "value"
  <2> DEFINE v == arg[1]
  <2>1. v \in Nat
    BY <1>1, SingleIn DEF Fits
  <2>2. b = Unsigned[v]
    BY <1>1 DEF EmitArg, EmitUnsigned
  <2> HIDE DEF v, b
  <2> QED
    BY <2>1, <2>2, UnsignedDigits DEF Digits, b
<1>2. CASE kind = "string"
  <2>0. kind # "value"
    BY <1>2
  <2>1. arg \in Seq(Byte)
    BY <2>0 DEF Fits
  <2> DEFINE L == Len(arg)
             u == Unsigned[L]
  <2>2. L \in Nat /\ b = u \o arg
    BY <2>0, <2>1 DEF EmitArg, EmitString, EmitUnsigned
  <2> HIDE DEF L
  <2>3. u \in Seq(Byte)
    BY <2>2, UnsignedDigits DEF Digits
  <2> HIDE DEF u, b
  <2>4. b \in Seq(Byte)
    BY <2>1, <2>2, <2>3
  <2> QED
    BY <2>4 DEF b
<1> QED
  BY <1>1, <1>2 DEF Kinds

LEMMA PiecesAgree ==
  ASSUME NEW w \in Seq(Byte), NEW kinds, NEW args, NEW f, Pieces(kinds, args, f),
         Agree(w, f[Len(kinds)]), NEW n \in 0 .. Len(kinds)
  PROVE  Agree(w, f[n])
<1>0. /\ kinds \in Seq(Kinds) /\ f \in [0 .. Len(kinds) -> Seq(Byte)] /\ Len(kinds) \in Nat
      /\ \A i \in 1 .. Len(kinds) : Fits(kinds[i], args[i])
      /\ \A i \in 1 .. Len(kinds) : f[i] = f[i - 1] \o EmitArg(kinds[i], args[i])
  BY PiecesAre
<1> DEFINE T == {k \in Nat : k <= Len(kinds) => Agree(w, f[Len(kinds) - k])}
<1>1. 0 \in T
  <2>1. Len(kinds) - 0 = Len(kinds)
    BY <1>0
  <2> QED
    BY <2>1
<1>2. ASSUME NEW k \in T PROVE k + 1 \in T
  <2> SUFFICES ASSUME k + 1 <= Len(kinds) PROVE Agree(w, f[Len(kinds) - (k + 1)])
    OBVIOUS
  <2> DEFINE i == Len(kinds) - k
  <2>1. i \in 1 .. Len(kinds) /\ i - 1 \in 0 .. Len(kinds) /\ i - 1 = Len(kinds) - (k + 1) /\ Agree(w, f[i])
    BY <1>0
  <2> HIDE DEF i
  <2> DEFINE x == f[i - 1]
             y == EmitArg(kinds[i], args[i])
  <2>2. y \in Seq(Byte)
    <3>1. kinds[i] \in Kinds /\ Fits(kinds[i], args[i])
      BY <1>0, <2>1
    <3> QED
      BY <3>1, EmitBytes
  <2>3. x \in Seq(Byte)
    BY <1>0, <2>1
  <2>4. f[i] = x \o y
    BY <1>0, <2>1, Zenon
  <2> HIDE DEF x, y
  <2>5. Agree(w, x \o y)
    BY <2>1, <2>4
  <2>6. Agree(w, x)
    BY <2>2, <2>3, <2>5, AgreeParts
  <2> QED
    BY <2>1, <2>6 DEF x
<1>3. T = Nat
  <2>1. T \in SUBSET Nat
    OBVIOUS
  <2> HIDE DEF T
  <2> QED
    BY <1>1, <1>2, <2>1, Induction
<1>4. Len(kinds) - n \in Nat /\ Len(kinds) - n <= Len(kinds) /\ Len(kinds) - (Len(kinds) - n) = n
  BY <1>0
<1>5. Len(kinds) - n \in T
  <2> HIDE DEF T
  <2> QED
    BY <1>3, <1>4
<1> QED
  BY <1>4, <1>5

PartRounds(kinds, args, f, w, n) ==
  /\ Len(f[n]) <= Len(w) => PartAs(kinds, w, n, Yes, Len(f[n]), SubSeq(args, 1, n))
  /\ Len(f[n]) > Len(w) => \E ok \in Truth, val \in Seq(Seq(Nat)) :
                             PartAs(kinds, w, n, ok, Len(w), val) /\ (kinds[n] = "value" => ok = No)

\* Nothing is read from what has been read to the end.
LEMMA NothingLeft ==
  ASSUME NEW w \in Seq(Byte), NEW kind \in Kinds
  PROVE  Rest(w, Len(w)) \in Seq(Byte) /\ Len(Rest(w, Len(w))) = 0
         /\ ArgAs(kind, Rest(w, Len(w)), No, 0, <<>>) /\ ValueAs(Rest(w, Len(w)), No, 0, <<>>)
<1> DEFINE r == Rest(w, Len(w))
<1>1. r \in Seq(Byte) /\ Len(r) = 0
  <2>1. Len(w) \in 0 .. Len(w) /\ Len(w) - Len(w) = 0
    OBVIOUS
  <2> QED
    BY <2>1, PrefixIs
<1> HIDE DEF r
<1>2. AllLow(r)
  BY <1>1 DEF AllLow
<1>3. ValueAs(r, No, Len(r), <<>>) /\ ArgAs("string", r, No, Len(r), <<>>)
  BY <1>1, <1>2, ValueNone, StringNone
<1>4. ArgAs("value", r, No, Len(r), <<>>)
  BY <1>3, ValueArg
<1>5. ArgAs(kind, r, No, Len(r), <<>>)
  BY <1>3, <1>4 DEF Kinds
<1> QED
  BY <1>1, <1>3, <1>5 DEF r

LEMMA SubSeqAppend ==
  ASSUME NEW D, NEW s \in Seq(D), NEW n \in 1 .. Len(s)
  PROVE  /\ Append(SubSeq(s, 1, n - 1), s[n]) = SubSeq(s, 1, n)
         /\ SubSeq(s, 1, n - 1) \in Seq(D) /\ Len(SubSeq(s, 1, n - 1)) = n - 1
         /\ SubSeq(s, 1, n) \in Seq(D) /\ Len(SubSeq(s, 1, n)) = n
         /\ s[n] \in D
<1> DEFINE a == SubSeq(s, 1, n - 1)
           b == SubSeq(s, 1, n)
           c == Append(a, s[n])
<1>0. s[n] \in D /\ Len(s) \in Nat
  OBVIOUS
<1>1. a \in Seq(D) /\ Len(a) = n - 1 /\ \A i \in 1 .. (n - 1) : a[i] = s[i]
  OBVIOUS
<1>2. b \in Seq(D) /\ Len(b) = n /\ \A i \in 1 .. n : b[i] = s[i]
  OBVIOUS
<1> HIDE DEF a, b
<1>3. c \in Seq(D) /\ Len(c) = n /\ c[n] = s[n] /\ \A i \in 1 .. (n - 1) : c[i] = a[i]
  BY <1>0, <1>1
<1> HIDE DEF c
<1>4. ASSUME NEW i \in 1 .. n PROVE c[i] = b[i]
  <2>1. i = n \/ i \in 1 .. (n - 1)
    OBVIOUS
  <2> QED
    BY <2>1, <1>1, <1>2, <1>3
<1>5. c = b
  BY <1>2, <1>3, <1>4
<1> QED
  BY <1>0, <1>1, <1>2, <1>5 DEF a, b, c

LEMMA PartNextRound ==
  ASSUME NEW w \in Seq(Byte), NEW kinds, NEW args, NEW f, Pieces(kinds, args, f),
         Agree(w, f[Len(kinds)]), NEW n \in 1 .. Len(kinds), PartRounds(kinds, args, f, w, n - 1)
  PROVE  PartRounds(kinds, args, f, w, n)
<1> DEFINE kind == kinds[n]
           arg == args[n]
           x == f[n - 1]
           y == EmitArg(kind, arg)
           done == SubSeq(args, 1, n - 1)
<1>0. kinds \in Seq(Kinds) /\ args \in Seq(Seq(Nat)) /\ Len(args) = Len(kinds) /\ Len(w) \in Nat
  <2>1. kinds \in Seq(Kinds) /\ args \in Seq(Seq(Nat)) /\ Len(args) = Len(kinds)
    BY PiecesTyped
  <2> QED
    BY <2>1
<1>1. kind \in Kinds /\ Fits(kind, arg)
  BY PieceIs
<1>2. f[n] = x \o y /\ x \in Seq(Byte) /\ f[n] \in Seq(Byte)
  BY PieceIs, Zenon
<1>3. y \in Seq(Byte)
  BY <1>1, EmitBytes
<1>4. Agree(w, f[n])
  <2>1. n \in 0 .. Len(kinds)
    OBVIOUS
  <2> QED
    BY <2>1, PiecesAgree
<1>5. Append(done, arg) = SubSeq(args, 1, n) /\ done \in Seq(Seq(Nat)) /\ arg \in Seq(Nat)
      /\ SubSeq(args, 1, n) \in Seq(Seq(Nat))
  <2>1. n \in 1 .. Len(args)
    BY <1>0
  <2> QED
    BY <1>0, <2>1, SubSeqAppend
<1>6. /\ Len(x) <= Len(w) => PartAs(kinds, w, n - 1, Yes, Len(x), done)
      /\ Len(x) > Len(w) => \E ok \in Truth, val \in Seq(Seq(Nat)) : PartAs(kinds, w, n - 1, ok, Len(w), val)
  BY DEF PartRounds
<1> DEFINE X == Len(x)
           Y == Len(y)
           W == Len(w)
           r == Rest(w, X)
<1>7. X \in Nat /\ Y \in Nat /\ W \in Nat /\ Len(f[n]) = X + Y
  BY <1>0, <1>2, <1>3
<1>8. X <= W => Agree(r, y) /\ r \in Seq(Byte) /\ Len(r) = W - X
  <2> HIDE DEF x, y
  <2>1. Agree(w, x \o y)
    BY <1>2, <1>4
  <2>2. X <= W => Agree(r, y)
    BY <1>2, <1>3, <2>1, AgreeParts
  <2>3. X <= W => X \in 0 .. Len(w)
    BY <1>7
  <2>4. X <= W => r \in Seq(Byte) /\ Len(r) = W - X
    BY <2>3, PrefixIs
  <2> QED
    BY <2>2, <2>4
<1>9. ASSUME X <= W, Y <= W - X
      PROVE  PartAs(kinds, w, n, Yes, X + Y, SubSeq(args, 1, n))
  <2>1. ArgRounds(kind, arg, r)
    <3> HIDE DEF kind, arg, r
    <3> QED
      BY <1>1, <1>8, <1>9, ArgRound DEF y
  <2>2. ArgAs(kind, r, Yes, Y, arg)
    BY <2>1, <1>8, <1>9 DEF ArgRounds
  <2>3. Yes \in Truth /\ X \in 0 .. Len(w) /\ Y \in 0 .. (Len(w) - X)
    <3>1. Yes \in Truth
      BY DEF Truth
    <3> HIDE DEF X, Y
    <3> QED
      BY <1>7, <1>9, <3>1
  <2>4. PartAs(kinds, w, n - 1, Yes, X, done)
    BY <1>6, <1>9
  <2> HIDE DEF X, Y, done, arg
  <2>5. PartAs(kinds, w, n, Yes, X + Y, Append(done, arg))
    BY <1>0, <1>5, <2>2, <2>3, <2>4, PartNext
  <2> QED
    BY <2>5, <1>5
<1>10. ASSUME X <= W, Y > W - X
       PROVE  \E ok \in Truth, val \in Seq(Seq(Nat)) :
                 PartAs(kinds, w, n, ok, W, val) /\ (kind = "value" => ok = No)
  <2>1. ArgRounds(kind, arg, r)
    <3> HIDE DEF kind, arg, r
    <3> QED
      BY <1>1, <1>8, <1>10, ArgRound DEF y
  <2>2. PICK ok \in Truth, val \in Seq(Nat) : ArgAs(kind, r, ok, W - X, val) /\ (kind = "value" => ok = No)
    BY <2>1, <1>8, <1>10 DEF ArgRounds
  <2>3. X \in 0 .. Len(w) /\ W - X \in 0 .. (Len(w) - X) /\ X + (W - X) = W
    BY <1>7, <1>10
  <2>4. PartAs(kinds, w, n - 1, Yes, X, done)
    BY <1>6, <1>10
  <2> DEFINE j == W - X
  <2>5. j \in 0 .. (Len(w) - X) /\ X + j = W /\ ArgAs(kind, r, ok, j, val)
    BY <2>2, <2>3
  <2> HIDE DEF X, done, j
  <2>6. PartAs(kinds, w, n, ok, X + j, Append(done, val))
    BY <1>0, <1>5, <2>3, <2>4, <2>5, PartNext
  <2>7. Append(done, val) \in Seq(Seq(Nat))
    BY <1>5
  <2>8. PartAs(kinds, w, n, ok, W, Append(done, val))
    BY <2>5, <2>6
  <2> DEFINE v == Append(done, val)
  <2>9. v \in Seq(Seq(Nat)) /\ PartAs(kinds, w, n, ok, W, v)
    BY <2>7, <2>8
  <2> HIDE DEF v, W, kind
  <2> QED
    BY <2>2, <2>9
<1>11. ASSUME X > W
       PROVE  \E ok \in Truth, val \in Seq(Seq(Nat)) :
                 PartAs(kinds, w, n, ok, W, val) /\ (kind = "value" => ok = No)
  <2>1. PICK ok \in Truth, val \in Seq(Seq(Nat)) : PartAs(kinds, w, n - 1, ok, Len(w), val)
    BY <1>6, <1>11
  <2>2. Len(w) \in 0 .. Len(w) /\ No \in Truth
    BY <1>0 DEF Truth
  <2>3. CASE ok = No
    <3>1. PartAs(kinds, w, n, No, Len(w), val)
      BY <1>0, <2>1, <2>2, <2>3, PartFailed
    <3> QED
      BY <3>1, <2>2
  <2>4. CASE ok = Yes
    <3>1. ArgAs(kind, Rest(w, Len(w)), No, 0, <<>>)
      BY <1>1, NothingLeft
    <3>2. 0 \in 0 .. (Len(w) - Len(w)) /\ <<>> \in Seq(Nat)
      BY <1>0
    <3>3. PartAs(kinds, w, n, No, Len(w) + 0, Append(val, <<>>))
      <4> DEFINE k == Len(w)
                 j == 0
                 u == <<>>
      <4>1. k \in 0 .. Len(w) /\ j \in 0 .. (Len(w) - k) /\ u \in Seq(Nat) /\ PartAs(kinds, w, n - 1, Yes, k, val)
            /\ ArgAs(kinds[n], Rest(w, k), No, j, u)
        BY <2>1, <2>2, <2>4, <3>1, <3>2
      <4> HIDE DEF k, j, u
      <4>2. PartAs(kinds, w, n, No, k + j, Append(val, u))
        BY <1>0, <2>2, <4>1, PartNext
      <4> QED
        BY <4>2 DEF k, j, u
    <3>4. Append(val, <<>>) \in Seq(Seq(Nat)) /\ Len(w) + 0 = Len(w)
      BY <1>0
    <3> DEFINE v == Append(val, <<>>)
    <3>5. v \in Seq(Seq(Nat)) /\ PartAs(kinds, w, n, No, Len(w), v)
      BY <3>3, <3>4
    <3> HIDE DEF v
    <3> QED
      BY <3>5, <2>2
  <2> QED
    BY <2>3, <2>4 DEF Truth
<1> HIDE DEF x, y, X, Y, W, r, kind
<1>12. (Len(f[n]) <= W <=> X <= W /\ Y <= W - X) /\ (Len(f[n]) > W <=> X > W \/ (X <= W /\ Y > W - X))
  BY <1>7
<1> QED
  BY <1>7, <1>9, <1>10, <1>11, <1>12 DEF PartRounds, W, kind

LEMMA ArgsRound ==
  ASSUME NEW w \in Seq(Byte), NEW kinds, NEW args, NEW f, Pieces(kinds, args, f),
         Agree(w, f[Len(kinds)]), NEW n \in 0 .. Len(kinds)
  PROVE  PartRounds(kinds, args, f, w, n)
<1> DEFINE T == {k \in Nat : k <= Len(kinds) => PartRounds(kinds, args, f, w, k)}
<1>0. kinds \in Seq(Kinds) /\ args \in Seq(Seq(Nat)) /\ f[0] = <<>> /\ Len(kinds) \in Nat /\ Len(w) \in Nat
  <2>1. kinds \in Seq(Kinds) /\ args \in Seq(Seq(Nat)) /\ f[0] = <<>> /\ Len(kinds) \in Nat
    BY PiecesTyped
  <2> QED
    BY <2>1
<1>1. 0 \in T
  <2>1. PartAs(kinds, w, 0, Yes, 0, <<>>)
    BY <1>0, PartFirst
  <2>2. Len(f[0]) = 0 /\ SubSeq(args, 1, 0) = <<>>
    BY <1>0
  <2>3. PartRounds(kinds, args, f, w, 0)
    <3>1. ~(Len(f[0]) > Len(w)) /\ PartAs(kinds, w, 0, Yes, Len(f[0]), SubSeq(args, 1, 0))
      <4> DEFINE k == Len(f[0])
                 u == SubSeq(args, 1, 0)
      <4>1. k = 0 /\ u = <<>>
        BY <2>2
      <4> HIDE DEF k, u
      <4>2. ~(k > Len(w)) /\ PartAs(kinds, w, 0, Yes, k, u)
        BY <1>0, <2>1, <4>1
      <4> QED
        BY <4>2 DEF k, u
    <3> QED
      BY <3>1 DEF PartRounds
  <2> QED
    BY <2>3
<1>2. ASSUME NEW k \in T PROVE k + 1 \in T
  <2> SUFFICES ASSUME k + 1 <= Len(kinds) PROVE PartRounds(kinds, args, f, w, k + 1)
    OBVIOUS
  <2> DEFINE m == k + 1
  <2>1. m \in 1 .. Len(kinds) /\ m - 1 = k /\ PartRounds(kinds, args, f, w, k)
    BY <1>0
  <2> HIDE DEF m
  <2>2. PartRounds(kinds, args, f, w, m)
    BY <2>1, PartNextRound
  <2> QED
    BY <2>2 DEF m
<1>3. T = Nat
  <2>1. T \in SUBSET Nat
    OBVIOUS
  <2> HIDE DEF T
  <2> QED
    BY <1>1, <1>2, <2>1, Induction
<1>4. n \in T /\ n <= Len(kinds)
  <2> HIDE DEF T
  <2> QED
    BY <1>0, <1>3
<1> QED
  BY <1>4

LEMMA UnsignedBytes == \A v \in Nat : Unsigned[v] \in Seq(Byte)
BY UnsignedDigits DEF Digits

LEMMA ConcatIn ==
  ASSUME NEW D, NEW x \in Seq(D), NEW y \in Seq(D)
  PROVE  x \o y \in Seq(D) /\ Len(x \o y) = Len(x) + Len(y)
OBVIOUS

LEMMA ConcatThrice ==
  ASSUME NEW D, NEW x \in Seq(D), NEW y \in Seq(D), NEW z \in Seq(D)
  PROVE  (x \o y) \o z = x \o (y \o z)
OBVIOUS

LEMMA NothingBefore == ASSUME NEW D, NEW x \in Seq(D) PROVE <<>> \o x = x
OBVIOUS

HeadBytes(code, time, thread) == (Unsigned[code] \o Unsigned[time]) \o Unsigned[thread]

HeadArgs(code, time, thread) == <<<<code>>, <<time>>, <<thread>>>>

LEMMA HeaderRound ==
  ASSUME NEW w \in Seq(Byte), NEW code \in 0 .. (Word - 1), NEW time \in 0 .. (Word - 1),
         NEW thread \in 0 .. (Word - 1), Agree(w, HeadBytes(code, time, thread))
  PROVE  /\ Len(HeadBytes(code, time, thread)) <= Len(w) =>
              ArgsAs(HeaderKinds, w, Yes, Len(HeadBytes(code, time, thread)), HeadArgs(code, time, thread))
         /\ Len(HeadBytes(code, time, thread)) > Len(w) =>
              \E val \in Seq(Seq(Nat)) : ArgsAs(HeaderKinds, w, No, Len(w), val)
         /\ HeadArgs(code, time, thread) \in Seq(Seq(Nat)) /\ Len(HeadArgs(code, time, thread)) = 3
<1> DEFINE b1 == Unsigned[code]
           b2 == Unsigned[time]
           b3 == Unsigned[thread]
           h == HeadBytes(code, time, thread)
           a == HeadArgs(code, time, thread)
           x == b1 \o b2
           f == [i \in 0 .. 3 |-> IF i = 0 THEN <<>> ELSE IF i = 1 THEN b1 ELSE IF i = 2 THEN x ELSE h]
<1>1. /\ code \in Nat /\ code < Word /\ time \in Nat /\ time < Word /\ thread \in Nat /\ thread < Word
  BY WordIs
<1>2. b1 \in Seq(Byte) /\ b2 \in Seq(Byte) /\ b3 \in Seq(Byte)
  BY <1>1, UnsignedBytes
<1>3. h = x \o b3
  BY DEF HeadBytes
<1>4. a[1] = <<code>> /\ a[2] = <<time>> /\ a[3] = <<thread>> /\ a \in Seq(Seq(Nat)) /\ Len(a) = 3
  BY <1>1 DEF HeadArgs
<1>5. /\ EmitArg("value", a[1]) = b1 /\ EmitArg("value", a[2]) = b2 /\ EmitArg("value", a[3]) = b3
  BY <1>4 DEF EmitArg, EmitUnsigned
<1>6. Fits("value", a[1]) /\ Fits("value", a[2]) /\ Fits("value", a[3])
  BY <1>1, <1>4 DEF Fits
<1>7. HeaderKinds[1] = "value" /\ HeaderKinds[2] = "value" /\ HeaderKinds[3] = "value"
      /\ HeaderKinds \in Seq(Kinds) /\ Len(HeaderKinds) = 3
  BY HeaderKindsAre DEF HeaderKinds
<1> HIDE DEF b1, b2, b3, h, a
<1>8. x \in Seq(Byte) /\ <<>> \o b1 = b1 /\ <<>> \in Seq(Byte)
  BY <1>2, ConcatIn, NothingBefore
<1> HIDE DEF x
<1>9. h \in Seq(Byte)
  BY <1>2, <1>3, <1>8, ConcatIn
<1>10. f \in [0 .. 3 -> Seq(Byte)] /\ f[0] = <<>> /\ f[1] = b1 /\ f[2] = x /\ f[3] = h
  BY <1>2, <1>8, <1>9
<1> HIDE DEF f
<1>11. /\ f[1] = f[0] \o EmitArg(HeaderKinds[1], a[1])
       /\ f[2] = f[1] \o EmitArg(HeaderKinds[2], a[2])
       /\ f[3] = f[2] \o EmitArg(HeaderKinds[3], a[3])
  BY <1>3, <1>5, <1>7, <1>8, <1>10 DEF x
<1>12. ASSUME NEW i \in 1 .. 3
       PROVE  Fits(HeaderKinds[i], a[i]) /\ f[i] = f[i - 1] \o EmitArg(HeaderKinds[i], a[i])
  <2>1. i = 1 \/ i = 2 \/ i = 3
    OBVIOUS
  <2>2. Fits(HeaderKinds[i], a[i])
    BY <2>1, <1>6, <1>7
  <2>3. f[i] = f[i - 1] \o EmitArg(HeaderKinds[i], a[i])
    <3>1. ASSUME i = 1 PROVE f[i] = f[i - 1] \o EmitArg(HeaderKinds[i], a[i])
      <4>1. i - 1 = 0
        BY <3>1
      <4> QED
        BY <1>11, <3>1, <4>1, Zenon
    <3>2. ASSUME i = 2 PROVE f[i] = f[i - 1] \o EmitArg(HeaderKinds[i], a[i])
      <4>1. i - 1 = 1
        BY <3>2
      <4> QED
        BY <1>11, <3>2, <4>1, Zenon
    <3>3. ASSUME i = 3 PROVE f[i] = f[i - 1] \o EmitArg(HeaderKinds[i], a[i])
      <4>1. i - 1 = 2
        BY <3>3
      <4> QED
        BY <1>11, <3>3, <4>1, Zenon
    <3> QED
      BY <2>1, <3>1, <3>2, <3>3
  <2> QED
    BY <2>2, <2>3
<1>13. Pieces(HeaderKinds, a, f)
  BY <1>4, <1>7, <1>10, <1>12 DEF Pieces
<1>14. PartRounds(HeaderKinds, a, f, w, 3)
  <2>1. Agree(w, f[Len(HeaderKinds)]) /\ 3 \in 0 .. Len(HeaderKinds)
    BY <1>7, <1>10 DEF h
  <2> QED
    BY <1>13, <2>1, ArgsRound
<1>15. ASSUME Len(h) <= Len(w) PROVE ArgsAs(HeaderKinds, w, Yes, Len(h), a)
  <2>1. PartAs(HeaderKinds, w, 3, Yes, Len(h), SubSeq(a, 1, 3))
    BY <1>10, <1>14, <1>15 DEF PartRounds
  <2>2. SubSeq(a, 1, 3) = a
    BY <1>4
  <2>3. PartAs(HeaderKinds, w, Len(HeaderKinds), Yes, Len(h), a)
    BY <1>7, <2>1, <2>2
  <2> QED
    BY <1>7, <2>3, PartLast
<1>16. ASSUME Len(h) > Len(w) PROVE \E val \in Seq(Seq(Nat)) : ArgsAs(HeaderKinds, w, No, Len(w), val)
  <2>1. PICK ok \in Truth, val \in Seq(Seq(Nat)) :
           PartAs(HeaderKinds, w, 3, ok, Len(w), val) /\ (HeaderKinds[3] = "value" => ok = No)
    BY <1>10, <1>14, <1>16 DEF PartRounds
  <2>2. PartAs(HeaderKinds, w, Len(HeaderKinds), No, Len(w), val)
    BY <1>7, <2>1
  <2>3. ArgsAs(HeaderKinds, w, No, Len(w), val)
    BY <1>7, <2>2, PartLast
  <2> QED
    BY <2>3
<1> QED
  BY <1>4, <1>15, <1>16 DEF h, a

ArgPieces(e) == [i \in 1 .. Len(Layout[e.code]) |-> EmitArg(Layout[e.code][i], e.args[i])]

ArgBytes(e) == FlattenSeq(ArgPieces(e))

LEMMA SendableIs ==
  ASSUME NEW e \in Sendable
  PROVE  /\ e.code \in Codes /\ e.time \in 0 .. (Word - 1) /\ e.thread \in 0 .. (Word - 1)
         /\ e.args \in Seq(Seq(Nat)) /\ e.code \in 0 .. (Word - 1)
<1>1. e.code \in Codes /\ e.time \in 0 .. (Word - 1) /\ e.thread \in 0 .. (Word - 1)
      /\ e.args \in Seq(Seq(Nat))
  BY DEF Sendable
<1>2. Codes \subseteq 0 .. 30
  BY DEF Codes, BeginStream, EndStream, HeapCreate, HeapDestroy, HeapAddCore, HeapGrowCore,
         HeapRemoveCore, HeapShrinkCore, HeapAllocate, HeapFree, HeapFreeAll, EventStart, EventEnd,
         SetBackingAllocator
<1>3. 0 .. 30 \subseteq 0 .. (Word - 1)
  BY WordIs
<1> QED
  BY <1>1, <1>2, <1>3

LEMMA ArgFits ==
  ASSUME NEW e \in Sendable, HasArgs(e), NEW i \in 1 .. Len(Layout[e.code])
  PROVE  Fits(Layout[e.code][i], e.args[i])
<1>1. e.args \in Seq(Seq(Nat)) /\ Len(e.args) = Len(Layout[e.code])
  BY SendableIs DEF HasArgs
<1>2. i \in DOMAIN e.args /\ e.args[i] \in Seq(Nat)
  BY <1>1
<1>3. IF Layout[e.code][i] = "value"
      THEN Len(e.args[i]) = 1 /\ e.args[i][1] < Word
      ELSE e.args[i] \in Seq(Byte) /\ Len(e.args[i]) < Word
  BY <1>2 DEF HasArgs
<1> QED
  BY <1>2, <1>3 DEF Fits

LEMMA ArgsPieces ==
  ASSUME NEW e \in Sendable, HasArgs(e)
  PROVE  \E f : Pieces(Layout[e.code], e.args, f) /\ f[Len(Layout[e.code])] = ArgBytes(e)
<1> DEFINE kinds == Layout[e.code]
           p == ArgPieces(e)
<1>1. kinds \in Seq(Kinds) /\ Len(kinds) \in Nat /\ e.args \in Seq(Seq(Nat)) /\ Len(e.args) = Len(kinds)
  BY SendableIs, LayoutKinds DEF HasArgs
<1>2. \A i \in 1 .. Len(kinds) : Fits(kinds[i], e.args[i]) /\ kinds[i] \in Kinds
  BY <1>1, ArgFits
<1>3. p = [i \in 1 .. Len(kinds) |-> EmitArg(kinds[i], e.args[i])]
  BY DEF ArgPieces
<1> HIDE DEF kinds, p
<1>4. \A i \in 1 .. Len(kinds) : EmitArg(kinds[i], e.args[i]) \in Seq(Byte)
  BY <1>2, EmitBytes
<1>5. p \in Seq(Seq(Byte)) /\ Len(p) = Len(kinds)
  BY <1>1, <1>3, <1>4
<1>6. PICK f : Joins(f, p, Byte)
  BY <1>5, JoinExists
<1>7. f \in [0 .. Len(kinds) -> Seq(Byte)] /\ f[0] = <<>> /\ \A i \in 1 .. Len(kinds) : f[i] = f[i - 1] \o p[i]
  BY <1>5, <1>6 DEF Joins
<1>8. \A i \in 1 .. Len(kinds) : p[i] = EmitArg(kinds[i], e.args[i])
  BY <1>3
<1>9. \A i \in 1 .. Len(kinds) : f[i] = f[i - 1] \o EmitArg(kinds[i], e.args[i])
  BY <1>7, <1>8, Zenon
<1>10. Pieces(kinds, e.args, f)
  BY <1>1, <1>2, <1>7, <1>9 DEF Pieces
<1>11. f[Len(kinds)] = ArgBytes(e)
  BY <1>5, <1>6, FlattenJoins DEF ArgBytes, p
<1> QED
  BY <1>10, <1>11 DEF kinds

\* The arguments of a sent event, where they begin.
EventArgsRound(e, w) ==
  /\ Len(ArgBytes(e)) <= Len(w) => ArgsAs(Layout[e.code], w, Yes, Len(ArgBytes(e)), e.args)
  /\ Len(ArgBytes(e)) > Len(w) => \E ok \in Truth, val \in Seq(Seq(Nat)) :
                                    ArgsAs(Layout[e.code], w, ok, Len(w), val)

LEMMA ArgBytesTyped ==
  ASSUME NEW e \in Sendable, HasArgs(e)
  PROVE  ArgBytes(e) \in Seq(Byte)
<1>1. PICK f : Pieces(Layout[e.code], e.args, f) /\ f[Len(Layout[e.code])] = ArgBytes(e)
  BY ArgsPieces
<1>2. f \in [0 .. Len(Layout[e.code]) -> Seq(Byte)] /\ Len(Layout[e.code]) \in Nat
  BY <1>1, PiecesTyped
<1>3. f[Len(Layout[e.code])] \in Seq(Byte)
  BY <1>2
<1> QED
  BY <1>1, <1>3

LEMMA EventArgs ==
  ASSUME NEW w \in Seq(Byte), NEW e \in Sendable, HasArgs(e), Agree(w, ArgBytes(e))
  PROVE  EventArgsRound(e, w)
<1> DEFINE kinds == Layout[e.code]
           a == e.args
           b == ArgBytes(e)
<1>1. PICK f : Pieces(kinds, a, f) /\ f[Len(kinds)] = b
  BY ArgsPieces
<1>2. kinds \in Seq(Kinds) /\ Len(kinds) \in Nat /\ a \in Seq(Seq(Nat)) /\ Len(a) = Len(kinds)
  BY <1>1, PiecesTyped
<1>3. Agree(w, b)
  OBVIOUS
<1> HIDE DEF kinds, a, b
<1>4. Len(kinds) \in 0 .. Len(kinds) /\ Agree(w, f[Len(kinds)])
  BY <1>1, <1>2, <1>3
<1>5. PartRounds(kinds, a, f, w, Len(kinds))
  BY <1>1, <1>4, ArgsRound
<1>6. SubSeq(a, 1, Len(kinds)) = a
  BY <1>2
<1>7. Len(b) <= Len(w) => ArgsAs(kinds, w, Yes, Len(b), a)
  <2>1. ASSUME Len(b) <= Len(w) PROVE PartAs(kinds, w, Len(kinds), Yes, Len(b), a)
    BY <1>1, <1>5, <1>6, <2>1 DEF PartRounds
  <2> QED
    BY <2>1, <1>2, PartLast
<1>8. ASSUME Len(b) > Len(w)
      PROVE  \E ok \in Truth, val \in Seq(Seq(Nat)) : ArgsAs(kinds, w, ok, Len(w), val)
  <2>1. PICK ok \in Truth, val \in Seq(Seq(Nat)) : PartAs(kinds, w, Len(kinds), ok, Len(w), val)
    BY <1>1, <1>5, <1>8 DEF PartRounds
  <2>2. ArgsAs(kinds, w, ok, Len(w), val)
    BY <2>1, <1>2, PartLast
  <2> QED
    BY <2>2
<1> QED
  BY <1>7, <1>8 DEF EventArgsRound, kinds, a, b

\* The bytes of an event, in the order they are read.
LEMMA EncodedParts ==
  ASSUME NEW e \in Sendable, HasArgs(e), NEW n \in Nat
  PROVE  LET h == HeadBytes(e.code, e.time, e.thread)
             u == Unsigned[e.code]
         IN  /\ EncodeEvent(e, n) = Unsigned[n] \o (h \o (ArgBytes(e) \o u))
             /\ h \in Seq(Byte) /\ u \in Seq(Byte) /\ ArgBytes(e) \in Seq(Byte) /\ Unsigned[n] \in Seq(Byte)
             /\ h \o (ArgBytes(e) \o u) \in Seq(Byte) /\ ArgBytes(e) \o u \in Seq(Byte)
             /\ EncodeEvent(e, n) \in Seq(Byte)
<1> DEFINE x == Unsigned[n]
           u == Unsigned[e.code]
           y == Unsigned[e.time]
           z == Unsigned[e.thread]
           b == ArgBytes(e)
           h == HeadBytes(e.code, e.time, e.thread)
<1>1. e.code \in Nat /\ e.time \in Nat /\ e.thread \in Nat
  BY SendableIs, WordIs
<1>2. x \in Seq(Byte) /\ u \in Seq(Byte) /\ y \in Seq(Byte) /\ z \in Seq(Byte) /\ b \in Seq(Byte)
  BY <1>1, UnsignedBytes, ArgBytesTyped
<1>3. EncodeEvent(e, n) = ((((x \o u) \o y) \o z) \o b) \o u
  BY DEF EncodeEvent, BeginEvent, EndEvent, EmitUnsigned, ArgBytes, ArgPieces
<1>4. h = (u \o y) \o z
  BY DEF HeadBytes
<1> DEFINE t == EncodeEvent(e, n)
<1>41. t = ((((x \o u) \o y) \o z) \o b) \o u
  BY <1>3
<1> HIDE DEF x, u, y, z, b, h, t
<1>5. u \o y \in Seq(Byte) /\ h \in Seq(Byte) /\ b \o u \in Seq(Byte)
  BY <1>2, <1>4, ConcatIn
<1>6. h \o (b \o u) \in Seq(Byte) /\ h \o b \in Seq(Byte)
  BY <1>2, <1>5, ConcatIn
<1>7. ((x \o u) \o y) \o z = x \o h
  <2>1. (x \o u) \o y = x \o (u \o y)
    BY <1>2, ConcatThrice
  <2>2. (x \o (u \o y)) \o z = x \o ((u \o y) \o z)
    <3> DEFINE v == u \o y
    <3>1. v \in Seq(Byte)
      BY <1>5
    <3> HIDE DEF v
    <3>2. (x \o v) \o z = x \o (v \o z)
      BY <1>2, <3>1, ConcatThrice
    <3> QED
      BY <3>2 DEF v
  <2> QED
    BY <2>1, <2>2, <1>4, Zenon
<1>8. ((x \o h) \o b) \o u = x \o (h \o (b \o u))
  <2>1. (x \o h) \o b = x \o (h \o b)
    BY <1>2, <1>5, ConcatThrice
  <2>2. (x \o (h \o b)) \o u = x \o ((h \o b) \o u)
    BY <1>2, <1>6, ConcatThrice
  <2>3. (h \o b) \o u = h \o (b \o u)
    BY <1>2, <1>5, ConcatThrice
  <2> QED
    BY <2>1, <2>2, <2>3, Zenon
<1>9. t = x \o (h \o (b \o u))
  BY <1>41, <1>7, <1>8, Zenon
<1>10. t \in Seq(Byte)
  BY <1>2, <1>6, <1>9, ConcatIn
<1> QED
  BY <1>2, <1>5, <1>6, <1>9, <1>10 DEF x, u, b, h, t

\* What an event is decoded to.
Received(e, n) == [count |-> n, code |-> e.code, time |-> e.time, args |-> e.args]

\* The step fails, having read something or nothing of it.
Fails(w, n, end) == \E k \in 0 .. Len(w) : StepAs(w, n, No, k, <<>>, end)

LEMMA HeadArgsAre ==
  ASSUME NEW e \in Sendable, NEW n
  PROVE  LET val == HeadArgs(e.code, e.time, e.thread)
         IN  /\ val \in Seq(Seq(Nat)) /\ Shaped(HeaderKinds, 3, val)
             /\ val[1][1] = e.code /\ EventOf(n, val, e.args) = Received(e, n)
<1> DEFINE code == e.code
           time == e.time
           thread == e.thread
           val == <<<<code>>, <<time>>, <<thread>>>>
<1>1. code \in Nat /\ time \in Nat /\ thread \in Nat
  BY SendableIs, WordIs
<1> HIDE DEF code, time, thread
<1>2. val \in Seq(Seq(Nat)) /\ Len(val) = 3 /\ val[1] = <<code>> /\ val[2] = <<time>> /\ val[3] = <<thread>>
  BY <1>1
<1>3. val[1][1] = code /\ val[2][1] = time
  BY <1>1
<1>4. \A i \in 1 .. 3 : Len(val[i]) = 1
  <2>1. Len(<<code>>) = 1 /\ Len(<<time>>) = 1 /\ Len(<<thread>>) = 1
    OBVIOUS
  <2>2. \A i \in 1 .. 3 : i = 1 \/ i = 2 \/ i = 3
    OBVIOUS
  <2> HIDE DEF val
  <2> QED
    BY <1>2, <2>1, <2>2
<1> HIDE DEF val
<1>5. Shaped(HeaderKinds, 3, val)
  BY <1>2, <1>4 DEF Shaped
<1>6. EventOf(n, val, e.args) = Received(e, n)
  BY <1>3 DEF EventOf, Received, code, time
<1>7. HeadArgs(e.code, e.time, e.thread) = val
  BY DEF HeadArgs, val, code, time, thread
<1> QED
  BY <1>2, <1>3, <1>5, <1>6, <1>7 DEF code

\* Behind the header: arguments and check value.
TailRounds(w, n, e, k) ==
  LET b == ArgBytes(e)
      u == Unsigned[e.code]
  IN  /\ (k + Len(b)) + Len(u) <= Len(w) =>
            StepAs(w, n, Yes, (k + Len(b)) + Len(u), <<Received(e, n)>>, Ending(e.code))
      /\ (k + Len(b)) + Len(u) > Len(w) => Fails(w, n, Ending(e.code))

LEMMA TailRound ==
  ASSUME NEW w \in Seq(Byte), NEW n \in Nat, NEW e \in Sendable, HasArgs(e),
         NEW k \in 0 .. Len(w), HeaderAs(w, n, Yes, k, HeadArgs(e.code, e.time, e.thread)),
         Agree(Rest(w, k), ArgBytes(e) \o Unsigned[e.code])
  PROVE  TailRounds(w, n, e, k)
<1> DEFINE b == ArgBytes(e)
           u == Unsigned[e.code]
           val == HeadArgs(e.code, e.time, e.thread)
           code == e.code
           kinds == Layout[code]
           a == e.args
           v == Rest(w, k)
           Whole == StepAs(w, n, Yes, (k + Len(b)) + Len(u), <<Received(e, n)>>, Ending(code))
           Part == Fails(w, n, Ending(code))
<1>0. /\ (k + Len(b)) + Len(u) <= Len(w) => Whole
      /\ (k + Len(b)) + Len(u) > Len(w) => Part
      => TailRounds(w, n, e, k)
  BY DEF TailRounds
<1>1. /\ code \in Codes /\ code \in 0 .. (Word - 1) /\ a \in Seq(Seq(Nat)) /\ kinds \in Seq(Kinds)
      /\ code \in Nat
  BY SendableIs, LayoutKinds, WordIs
<1>2. b \in Seq(Byte) /\ u \in Seq(Byte) /\ Len(b) \in Nat /\ Len(u) \in Nat
  BY <1>1, ArgBytesTyped, UnsignedBytes
<1>3. val \in Seq(Seq(Nat)) /\ Shaped(HeaderKinds, 3, val) /\ val[1][1] = code
      /\ EventOf(n, val, a) = Received(e, n)
  BY HeadArgsAre
<1>4. v \in Seq(Byte) /\ Len(v) = Len(w) - k /\ Len(w) \in Nat /\ k \in Nat /\ k <= Len(w)
  BY PrefixIs
<1>5. Agree(v, b \o u) /\ HeaderAs(w, n, Yes, k, val)
  OBVIOUS
<1>6. Agree(v, b) /\ (Len(b) <= Len(v) => Agree(Rest(v, Len(b)), u))
  <2> HIDE DEF b, u, v
  <2> QED
    BY <1>2, <1>4, <1>5, AgreeParts
<1>7. /\ Len(b) <= Len(v) => ArgsAs(kinds, v, Yes, Len(b), a)
      /\ Len(b) > Len(v) => \E ok \in Truth, x \in Seq(Seq(Nat)) : ArgsAs(kinds, v, ok, Len(v), x)
  BY <1>4, <1>6, EventArgs DEF EventArgsRound
<1>8. ASSUME NEW j \in 0 .. Len(v)
      PROVE  Rest(v, j) = Rest(w, k + j) /\ k + j \in 0 .. Len(w) /\ j \in 0 .. (Len(w) - k)
  <2>1. j \in 0 .. (Len(w) - k)
    BY <1>4
  <2> QED
    BY <2>1, RestTwice DEF v
<1> HIDE DEF b, u, val, kinds, a, v, Whole, Part
<1>9. val[1][1] \in Codes /\ Layout[val[1][1]] = kinds
  BY <1>1, <1>3 DEF kinds
<1>10. ASSUME NEW ok \in Truth, NEW x \in Seq(Seq(Nat)), NEW j \in 0 .. Len(v), ArgsAs(kinds, v, Yes, j, x),
              NEW m \in 0 .. (Len(w) - (k + j)), NEW check, ValueAs(Rest(w, k + j), ok, m, check)
       PROVE  IF ok = Yes /\ check[1] = code
              THEN StepAs(w, n, Yes, (k + j) + m, <<EventOf(n, val, x)>>, Ending(code))
              ELSE StepAs(w, n, No, (k + j) + m, <<>>, Ending(code))
  <2>1. j \in 0 .. (Len(w) - k) /\ ArgsAs(Layout[val[1][1]], Rest(w, k), Yes, j, x)
    BY <1>8, <1>9, <1>10 DEF v
  <2>2. IF ok = Yes /\ check[1] = val[1][1]
         THEN StepAs(w, n, Yes, (k + j) + m, <<EventOf(n, val, x)>>, Ending(val[1][1]))
         ELSE StepAs(w, n, No, (k + j) + m, <<>>, Ending(val[1][1]))
    BY <1>3, <1>5, <1>9, <1>10, <2>1, StepCheck
  <2> QED
    BY <2>2, <1>3
<1>11. No # Yes
  BY DEF No, Yes
<1>12. ASSUME NEW x \in Seq(Seq(Nat)), NEW j \in 0 .. Len(v), ArgsAs(kinds, v, Yes, j, x),
              NEW m \in 0 .. (Len(w) - (k + j)), ValueAs(Rest(w, k + j), No, m, <<>>)
       PROVE  Fails(w, n, Ending(code))
  <2>1. No \in Truth
    BY DEF Truth
  <2>2. StepAs(w, n, No, (k + j) + m, <<>>, Ending(code))
    BY <1>10, <1>11, <1>12, <2>1
  <2>3. (k + j) + m \in 0 .. Len(w)
    BY <1>4, <1>8
  <2> QED
    BY <2>2, <2>3 DEF Fails
<1>13. CASE Len(b) > Len(v)
  <2>1. PICK ok \in Truth, x \in Seq(Seq(Nat)) : ArgsAs(kinds, v, ok, Len(v), x)
    BY <1>7, <1>13
  <2>2. Len(v) \in 0 .. Len(v)
    BY <1>4
  <2>3. CASE ok = No
    <3>1. ArgsAs(Layout[val[1][1]], Rest(w, k), No, Len(v), x) /\ Len(v) \in 0 .. (Len(w) - k)
      BY <1>8, <1>9, <2>1, <2>2, <2>3 DEF v
    <3>2. StepAs(w, n, No, k + Len(v), <<>>, Ending(val[1][1]))
      BY <1>3, <1>5, <1>9, <3>1, StepNoArgs
    <3>3. k + Len(v) \in 0 .. Len(w)
      BY <1>8, <2>2
    <3>4. StepAs(w, n, No, k + Len(v), <<>>, Ending(code))
      BY <3>2, <1>3
    <3>5. Part
      BY <3>3, <3>4 DEF Fails, Part
    <3>6. ~((k + Len(b)) + Len(u) <= Len(w))
      BY <1>13, <1>2, <1>4
    <3> QED
      BY <3>5, <3>6, <1>0
  <2>4. CASE ok = Yes
    <3>1. ValueAs(Rest(v, Len(v)), No, 0, <<>>)
      <4>1. "value" \in Kinds
        BY DEF Kinds
      <4> QED
        BY <1>4, <4>1, NothingLeft
    <3>2. ValueAs(Rest(w, k + Len(v)), No, 0, <<>>) /\ 0 \in 0 .. (Len(w) - (k + Len(v)))
      BY <3>1, <1>4, <1>8, <2>2
    <3>3. Fails(w, n, Ending(code))
      BY <1>12, <2>1, <2>2, <2>4, <3>2
    <3>4. ~((k + Len(b)) + Len(u) <= Len(w))
      BY <1>13, <1>2, <1>4
    <3>5. Part
      BY <3>3 DEF Part
    <3> QED
      BY <3>4, <3>5, <1>0
  <2> QED
    BY <2>3, <2>4 DEF Truth
<1>14. CASE Len(b) <= Len(v)
  <2>1. Len(b) \in 0 .. Len(v) /\ ArgsAs(kinds, v, Yes, Len(b), a)
    BY <1>2, <1>4, <1>7, <1>14
  <2> DEFINE r == Rest(v, Len(b))
  <2>2. r \in Seq(Byte) /\ Len(r) = Len(v) - Len(b) /\ Agree(r, u) /\ r = Rest(w, k + Len(b))
    <3>1. r = Rest(w, k + Len(b)) /\ Agree(r, u)
      BY <1>6, <1>8, <1>14, <2>1
    <3>2. Rest(v, Len(b)) \in Seq(Byte) /\ Len(Rest(v, Len(b))) = Len(v) - Len(b)
      BY <1>4, <2>1, PrefixIs
    <3> QED
      BY <3>1, <3>2
  <2> HIDE DEF r
  <2>3. /\ Len(u) <= Len(r) => ValueAs(r, Yes, Len(u), <<code>>) /\ Len(u) \in 1 .. Len(r)
        /\ Len(u) > Len(r) => ValueAs(r, No, Len(r), <<>>)
    BY <1>1, <2>2, ValueRound DEF u
  <2>4. Len(r) = Len(w) - (k + Len(b)) /\ Len(r) \in 0 .. (Len(w) - (k + Len(b)))
    BY <2>1, <2>2, <1>2, <1>4
  <2>5. ASSUME Len(u) > Len(r) PROVE Fails(w, n, Ending(code))
    <3>1. ValueAs(Rest(w, k + Len(b)), No, Len(r), <<>>)
      BY <2>2, <2>3, <2>5
    <3> QED
      BY <1>1, <1>12, <2>1, <2>4, <3>1 DEF a
  <2>6. ASSUME Len(u) <= Len(r)
        PROVE  StepAs(w, n, Yes, (k + Len(b)) + Len(u), <<Received(e, n)>>, Ending(code))
    <3>1. ValueAs(Rest(w, k + Len(b)), Yes, Len(u), <<code>>) /\ Len(u) \in 0 .. (Len(w) - (k + Len(b)))
      BY <2>2, <2>3, <2>4, <2>6
    <3>2. Yes \in Truth /\ Yes = Yes /\ a \in Seq(Seq(Nat))
      BY <1>1 DEF Truth, a
    <3>3. <<code>>[1] = code
      OBVIOUS
    <3> DEFINE check == <<code>>
    <3> HIDE DEF check
    <3>4. StepAs(w, n, Yes, (k + Len(b)) + Len(u), <<EventOf(n, val, a)>>, Ending(code))
      BY <1>10, <2>1, <3>1, <3>2, <3>3 DEF check
    <3> QED
      BY <3>4, <1>3
  <2>7. /\ Len(u) <= Len(r) => Whole
        /\ Len(u) > Len(r) => Part
    BY <2>5, <2>6 DEF Whole, Part
  <2>8. /\ (k + Len(b)) + Len(u) <= Len(w) => Len(u) <= Len(r)
        /\ (k + Len(b)) + Len(u) > Len(w) => Len(u) > Len(r)
    BY <2>4, <1>2, <1>4
  <2> QED
    BY <2>7, <2>8, <1>0
<1> QED
  BY <1>2, <1>4, <1>13, <1>14

EventRounds(w, n, e) ==
  LET b == EncodeEvent(e, n)
  IN  /\ Len(b) <= Len(w) => StepAs(w, n, Yes, Len(b), <<Received(e, n)>>, Ending(e.code))
      /\ Len(b) > Len(w) => Fails(w, n, No) \/ Fails(w, n, Ending(e.code))

LEMMA BadHeader ==
  ASSUME NEW w, NEW n, NEW k \in 0 .. Len(w), NEW val, HeaderAs(w, n, No, k, val)
  PROVE  Fails(w, n, No)
<1>1. StepAs(w, n, No, k, <<>>, No)
  BY StepBad
<1> QED
  BY <1>1 DEF Fails

\* A wrong count is no header.
LEMMA WrongCount ==
  ASSUME NEW w \in Seq(Byte), NEW n \in 0 .. (Word - 1), NEW r, r # n, Agree(w, Unsigned[n])
  PROVE  Fails(w, r, No)
<1> DEFINE x == Unsigned[n]
<1>1. /\ Len(x) <= Len(w) => ValueAs(w, Yes, Len(x), <<n>>) /\ Len(x) \in 1 .. Len(w)
      /\ Len(x) > Len(w) => ValueAs(w, No, Len(w), <<>>)
      /\ Len(x) \in Nat /\ Len(w) \in Nat
  BY ValueRound
<1> HIDE DEF x
<1>2. CASE Len(x) > Len(w)
  <2>1. HeaderAs(w, r, No, Len(w), <<>>)
    BY <1>1, <1>2, HeaderNone
  <2>2. Len(w) \in 0 .. Len(w)
    BY <1>1
  <2> QED
    BY <2>1, <2>2, BadHeader
<1>3. CASE Len(x) <= Len(w)
  <2> DEFINE val == <<n>>
  <2>1. val[1] # r /\ ValueAs(w, Yes, Len(x), val)
    BY <1>1, <1>3
  <2> HIDE DEF val
  <2>2. HeaderAs(w, r, No, Len(x), val)
    BY <2>1, HeaderNone
  <2>3. Len(x) \in 0 .. Len(w)
    BY <1>1, <1>3
  <2> QED
    BY <2>2, <2>3, BadHeader
<1> QED
  BY <1>1, <1>2, <1>3

LEMMA EventRound ==
  ASSUME NEW w \in Seq(Byte), NEW n \in 0 .. (Word - 1), NEW e \in Sendable, HasArgs(e),
         Agree(w, EncodeEvent(e, n))
  PROVE  EventRounds(w, n, e)
<1> DEFINE x == Unsigned[n]
           h == HeadBytes(e.code, e.time, e.thread)
           b == ArgBytes(e)
           u == Unsigned[e.code]
           t == b \o u
           s == h \o t
           all == EncodeEvent(e, n)
           val == HeadArgs(e.code, e.time, e.thread)
<1>1. n \in Nat
  BY WordIs
<1>2. /\ all = x \o s /\ x \in Seq(Byte) /\ h \in Seq(Byte) /\ b \in Seq(Byte) /\ u \in Seq(Byte)
      /\ t \in Seq(Byte) /\ s \in Seq(Byte)
  BY <1>1, EncodedParts
<1>3. /\ Len(x) <= Len(w) => ValueAs(w, Yes, Len(x), <<n>>)
      /\ Len(x) > Len(w) => ValueAs(w, No, Len(w), <<>>)
  <2>1. Agree(w, x)
    <3>1. Agree(w, x \o s)
      BY <1>2
    <3> HIDE DEF x, s
    <3> QED
      BY <1>2, <3>1, AgreeParts
  <2> QED
    BY <2>1, ValueRound
<1>4. \A y \in Seq(Byte) : Agree(y, h) => 
        /\ Len(h) <= Len(y) => ArgsAs(HeaderKinds, y, Yes, Len(h), val)
        /\ Len(h) > Len(y) => \E v \in Seq(Seq(Nat)) : ArgsAs(HeaderKinds, y, No, Len(y), v)
  <2>1. e.code \in 0 .. (Word - 1) /\ e.time \in 0 .. (Word - 1) /\ e.thread \in 0 .. (Word - 1)
    BY SendableIs
  <2> QED
    BY <2>1, HeaderRound
<1>5. Agree(w, all)
  OBVIOUS
<1>6. \A k \in 0 .. Len(w) : HeaderAs(w, n, Yes, k, val) /\ Agree(Rest(w, k), t) => TailRounds(w, n, e, k)
  BY <1>1, TailRound
<1>7. \A k \in 0 .. Len(w) : TailRounds(w, n, e, k) <=>
        /\ (k + Len(b)) + Len(u) <= Len(w) =>
              StepAs(w, n, Yes, (k + Len(b)) + Len(u), <<Received(e, n)>>, Ending(e.code))
        /\ (k + Len(b)) + Len(u) > Len(w) => Fails(w, n, Ending(e.code))
  BY DEF TailRounds
<1>71. EventRounds(w, n, e) <=>
        /\ Len(all) <= Len(w) => StepAs(w, n, Yes, Len(all), <<Received(e, n)>>, Ending(e.code))
        /\ Len(all) > Len(w) => Fails(w, n, No) \/ Fails(w, n, Ending(e.code))
  BY DEF EventRounds
<1>72. Len(b) + Len(u) = Len(t) 
  BY <1>2, ConcatIn
<1> HIDE DEF x, h, b, u, t, all, val
<1>8. Len(s) = Len(h) + Len(t) /\ Len(all) = Len(x) + Len(s)
  <2>1. Len(s) = Len(h) + Len(t)
    BY <1>2, ConcatIn
  <2> HIDE DEF s
  <2>2. Len(x \o s) = Len(x) + Len(s)
    BY <1>2, ConcatIn
  <2> QED
    BY <2>1, <2>2, <1>2
<1>81. Len(x) \in Nat /\ Len(h) \in Nat /\ Len(b) \in Nat /\ Len(u) \in Nat /\ Len(w) \in Nat
  BY <1>2
<1>82. Len(s) \in Nat /\ Len(t) \in Nat
  BY <1>8, <1>81, <1>72
<1>9. CASE Len(x) > Len(w)
  <2>1. HeaderAs(w, n, No, Len(w), <<>>)
    BY <1>3, <1>9, HeaderNone
  <2>2. Fails(w, n, No)
    <3>1. Len(w) \in 0 .. Len(w)
      BY <1>81
    <3> QED
      BY <2>1, <3>1, BadHeader
  <2>3. ~(Len(all) <= Len(w))
    BY <1>8, <1>81, <1>82, <1>9
  <2> QED
    BY <2>2, <2>3, <1>71
<1>10. CASE Len(x) <= Len(w)
  <2> DEFINE y == Rest(w, Len(x))
  <2>1. Len(x) \in 0 .. Len(w)
    BY <1>81, <1>10
  <2>2. y \in Seq(Byte) /\ Len(y) = Len(w) - Len(x)
    BY <2>1, PrefixIs
  <2>3. Agree(y, s)
    <3>1. Agree(w, x \o s)
      BY <1>2, <1>5
    <3> HIDE DEF s
    <3> QED
      BY <1>2, <1>10, <3>1, AgreeParts
  <2>4. Agree(y, h) /\ (Len(h) <= Len(y) => Agree(Rest(y, Len(h)), t))
    <3> HIDE DEF y
    <3> QED
      BY <2>2, <2>3, <1>2, AgreeParts
  <2>5. ValueAs(w, Yes, Len(x), <<n>>)
    BY <1>3, <1>10
  <2>6. ASSUME NEW ok, NEW j \in 0 .. (Len(w) - Len(x)), NEW v, ArgsAs(HeaderKinds, y, ok, j, v)
        PROVE  HeaderAs(w, n, ok, Len(x) + j, v)
    BY <2>1, <2>5, <2>6, HeaderArgs
  <2>7. \A j \in 0 .. (Len(w) - Len(x)) : Rest(y, j) = Rest(w, Len(x) + j)
    BY <2>1, RestTwice
  <2> HIDE DEF y
  <2>8. CASE Len(h) > Len(y)
    <3>1. PICK v \in Seq(Seq(Nat)) : ArgsAs(HeaderKinds, y, No, Len(y), v)
      BY <1>4, <2>2, <2>4, <2>8
    <3>2. Len(y) \in 0 .. (Len(w) - Len(x)) /\ Len(x) + Len(y) \in 0 .. Len(w)
      BY <2>1, <2>2, <1>81
    <3>3. HeaderAs(w, n, No, Len(x) + Len(y), v)
      BY <2>6, <3>1, <3>2
    <3>4. Fails(w, n, No)
      BY <3>2, <3>3, BadHeader
    <3>5. ~(Len(all) <= Len(w))
      BY <1>8, <1>81, <1>82, <2>2, <2>8
    <3> QED
      BY <3>4, <3>5, <1>71
  <2>9. CASE Len(h) <= Len(y)
    <3> DEFINE k == Len(x) + Len(h)
    <3>1. ArgsAs(HeaderKinds, y, Yes, Len(h), val)
      BY <1>4, <2>2, <2>4, <2>9
    <3>2. Len(h) \in 0 .. (Len(w) - Len(x)) /\ k \in 0 .. Len(w)
      BY <2>1, <2>2, <2>9, <1>81
    <3>3. HeaderAs(w, n, Yes, k, val)
      BY <2>6, <3>1, <3>2
    <3>4. Agree(Rest(w, k), t)
      BY <2>4, <2>7, <2>9, <3>2
    <3>5. Len(all) = (k + Len(b)) + Len(u)
      BY <1>72, <1>8, <1>81
    <3> HIDE DEF k
    <3>6. TailRounds(w, n, e, k)
      BY <1>6, <3>2, <3>3, <3>4
    <3> QED
      BY <1>7, <1>71, <3>2, <3>5, <3>6
  <2> QED
    BY <1>81, <2>2, <2>8, <2>9
<1> QED
  BY <1>81, <1>9, <1>10

\* oneStep on unread bytes that begin with an encoded event, whatever follows
\* it: the event with its count, code, time and arguments, the cursor right
\* behind it, and the end of the stream iff it is EndStream; no event while the
\* last bytes of it have not arrived.
THEOREM EventRoundTrip ==
  ASSUME NEW e \in Sendable, HasArgs(e), NEW n \in 0 .. (Word - 1),
         NEW w \in Seq(Byte), Agree(w, EncodeEvent(e, n)), NEW d, NEW c, Window(d, c, w)
  PROVE  LET size == Len(EncodeEvent(e, n))
         IN  /\ size <= Len(w) =>
                  OneStep(d, c, n) = [ok |-> TRUE, cur |-> Consumed(c, size),
                                      event |-> <<Received(e, n)>>, end |-> e.code = EndStream]
             /\ size > Len(w) => OneStep(d, c, n).ok = FALSE /\ OneStep(d, c, n).event = <<>>
<1> DEFINE size == Len(EncodeEvent(e, n))
<1>1. EventRounds(w, n, e)
  BY EventRound
<1>2. ASSUME size <= Len(w)
      PROVE  OneStep(d, c, n) = [ok |-> TRUE, cur |-> Consumed(c, size),
                                 event |-> <<Received(e, n)>>, end |-> e.code = EndStream]
  <2>1. StepAs(w, n, Yes, size, <<Received(e, n)>>, Ending(e.code))
    BY <1>1, <1>2 DEF EventRounds
  <2>2. OneStep(d, c, n) = Stepped(Yes, c, size, <<Received(e, n)>>, Ending(e.code))
    BY <2>1 DEF StepAs
  <2>3. Ending(e.code) = (e.code = EndStream)
    BY DEF Ending, Yes, No
  <2> QED
    BY <2>2, <2>3 DEF Stepped, Yes
<1>3. ASSUME size > Len(w)
      PROVE  OneStep(d, c, n).ok = FALSE /\ OneStep(d, c, n).event = <<>>
  <2>1. PICK end : Fails(w, n, end)
    BY <1>1, <1>3 DEF EventRounds
  <2>2. PICK k \in 0 .. Len(w) : StepAs(w, n, No, k, <<>>, end)
    BY <2>1 DEF Fails
  <2>3. OneStep(d, c, n) = Stepped(No, c, k, <<>>, end)
    BY <2>2 DEF StepAs
  <2> QED
    BY <2>3 DEF Stepped, No
<1> QED
  BY <1>2, <1>3

(***************************************************************************)
(* The bytes of a trace: its events one after the other, and where each of *)
(* them begins.                                                            *)
(***************************************************************************)
LEMMA ConcatParts ==
  ASSUME NEW D, NEW x \in Seq(D), NEW y \in Seq(D)
  PROVE  /\ x \o y \in Seq(D) /\ Len(x \o y) = Len(x) + Len(y) /\ Len(x) \in Nat /\ Len(y) \in Nat
         /\ \A i \in 1 .. Len(x) : (x \o y)[i] = x[i]
         /\ \A i \in 1 .. Len(y) : (x \o y)[Len(x) + i] = y[i]
OBVIOUS

LEMMA ElementIn ==
  ASSUME NEW D, NEW s \in Seq(D), NEW i \in 1 .. Len(s)
  PROVE  s[i] \in D
OBVIOUS

\* What has been joined stays at the front.
LEMMA JoinExtends ==
  ASSUME NEW D, NEW p \in Seq(Seq(D)), NEW f, Joins(f, p, D), NEW n \in 0 .. Len(p),
         NEW m \in 0 .. Len(p), n <= m
  PROVE  Len(f[n]) <= Len(f[m]) /\ \A i \in 1 .. Len(f[n]) : f[m][i] = f[n][i]
<1> DEFINE T == {j \in Nat : n + j <= Len(p) =>
                    Len(f[n]) <= Len(f[n + j]) /\ \A i \in 1 .. Len(f[n]) : f[n + j][i] = f[n][i]}
<1>00. Len(p) \in Nat /\ n \in Nat /\ m \in Nat
  OBVIOUS
<1>01. f \in [0 .. Len(p) -> Seq(D)] /\ f[0] = <<>>
  BY DEF Joins
<1>02. \A i \in 1 .. Len(p) : f[i] = f[i - 1] \o p[i]
  BY Zenon DEF Joins
<1>0. Len(p) \in Nat /\ n \in Nat /\ m \in Nat /\ f \in [0 .. Len(p) -> Seq(D)]
  BY <1>00, <1>01
<1>1. 0 \in T
  <2> DEFINE z == n + 0
  <2>1. z = n /\ Len(f[n]) \in Nat
    BY <1>0
  <2> HIDE DEF z
  <2>2. Len(f[n]) <= Len(f[z]) /\ \A i \in 1 .. Len(f[n]) : f[z][i] = f[n][i]
    BY <2>1
  <2> QED
    BY <2>2 DEF z
<1>2. ASSUME NEW j \in T PROVE j + 1 \in T
  <2> SUFFICES ASSUME n + (j + 1) <= Len(p)
               PROVE  /\ Len(f[n]) <= Len(f[n + (j + 1)])
                      /\ \A i \in 1 .. Len(f[n]) : f[n + (j + 1)][i] = f[n][i]
    OBVIOUS
  <2> DEFINE k == n + j
             l == n + (j + 1)
             x == f[k]
             y == p[l]
  <2>1. k \in 0 .. Len(p) /\ l \in 1 .. Len(p) /\ l - 1 = k
    BY <1>0
  <2>2. Len(f[n]) <= Len(f[k]) /\ \A i \in 1 .. Len(f[n]) : f[k][i] = f[n][i]
    BY <1>0
  <2> HIDE DEF k, l
  <2>3. x \in Seq(D) /\ y \in Seq(D)
    <3>1. p[l] \in Seq(D)
      BY <2>1, ElementIn
    <3> QED
      BY <2>1, <3>1, <1>0
  <2>4. f[l] = x \o y
    <3>1. f[l] = f[l - 1] \o p[l]
      BY <2>1, <1>02, Zenon
    <3> QED
      BY <2>1, <3>1, Zenon
  <2>5. Len(f[n]) \in Nat
    BY <1>0
  <2>6. Len(f[n]) <= Len(x) /\ \A i \in 1 .. Len(f[n]) : x[i] = f[n][i]
    BY <2>2
  <2> HIDE DEF x, y
  <2>7. Len(x \o y) = Len(x) + Len(y) /\ Len(x) \in Nat /\ Len(y) \in Nat
        /\ \A i \in 1 .. Len(x) : (x \o y)[i] = x[i]
    BY <2>3, ConcatParts
  <2>8. Len(f[n]) <= Len(x \o y)
    BY <2>5, <2>6, <2>7
  <2>9. \A i \in 1 .. Len(f[n]) : (x \o y)[i] = f[n][i]
    <3>1. \A i \in 1 .. Len(f[n]) : i \in 1 .. Len(x)
      BY <2>5, <2>6, <2>7
    <3> QED
      BY <3>1, <2>6, <2>7
  <2> QED
    BY <2>4, <2>8, <2>9 DEF l
<1>3. T = Nat
  <2>1. T \in SUBSET Nat
    OBVIOUS
  <2> HIDE DEF T
  <2> QED
    BY <1>1, <1>2, <2>1, Induction
<1>4. m - n \in T /\ n + (m - n) = m
  <2> HIDE DEF T
  <2> QED
    BY <1>0, <1>3
<1> QED
  BY <1>4

EventBytes(t) == [n \in 1 .. Len(t) |-> EncodeEvent(t[n], n - 1)]

LEMMA TraceIs ==
  ASSUME NEW t \in Traces
  PROVE  /\ t \in Seq(Sendable) /\ Len(t) \in Nat /\ Len(t) >= 1 /\ Len(t) <= Word
         /\ \A n \in 1 .. Len(t) : t[n] \in Sendable /\ HasArgs(t[n]) /\ (t[n].code = EndStream => n = Len(t))
<1>1. /\ t \in Seq(Sendable) /\ t # <<>> /\ Len(t) <= Word
      /\ \A n \in DOMAIN t : HasArgs(t[n]) /\ (t[n].code = EndStream => n = Len(t))
  BY TracesAssumption
<1>2. DOMAIN t = 1 .. Len(t) /\ Len(t) \in Nat /\ Len(t) >= 1 /\ \A n \in 1 .. Len(t) : t[n] \in Sendable
  BY <1>1
<1> QED
  BY <1>1, <1>2

LEMMA EventBytesAre ==
  ASSUME NEW t \in Traces
  PROVE  /\ EventBytes(t) \in Seq(Seq(Byte)) /\ Len(EventBytes(t)) = Len(t)
         /\ \A n \in 1 .. Len(t) : /\ EventBytes(t)[n] = EncodeEvent(t[n], n - 1)
                                   /\ EncodeEvent(t[n], n - 1) \in Seq(Byte)
                                   /\ Len(EncodeEvent(t[n], n - 1)) >= 1
<1>1. Len(t) \in Nat /\ \A n \in 1 .. Len(t) : t[n] \in Sendable /\ HasArgs(t[n])
  BY TraceIs
<1>2. ASSUME NEW n \in 1 .. Len(t)
      PROVE  EncodeEvent(t[n], n - 1) \in Seq(Byte) /\ Len(EncodeEvent(t[n], n - 1)) >= 1
  <2> DEFINE e == t[n]
             k == n - 1
             x == Unsigned[k]
             s == HeadBytes(e.code, e.time, e.thread) \o (ArgBytes(e) \o Unsigned[e.code])
  <2>1. e \in Sendable /\ HasArgs(e) /\ k \in Nat /\ k < Word
    BY <1>1, TraceIs, WordIs
  <2> HIDE DEF e, k
  <2>2. EncodeEvent(e, k) = x \o s /\ x \in Seq(Byte) /\ s \in Seq(Byte) /\ EncodeEvent(e, k) \in Seq(Byte)
    BY <2>1, EncodedParts
  <2>3. Len(x) >= 1
    <3>1. k \in 0 .. (Word - 1) /\ <<>> \in Seq(Byte)
      BY <2>1, WordIs
    <3>2. Agree(<<>>, Unsigned[k])
      <4>1. Len(<<>>) = 0
        OBVIOUS
      <4> QED
        BY <4>1 DEF Agree
    <3> DEFINE nil == <<>>
    <3>3. nil \in Seq(Byte) /\ Agree(nil, Unsigned[k])
      BY <3>1, <3>2
    <3> HIDE DEF nil
    <3> QED
      BY <3>1, <3>3, ValueRound
  <2> HIDE DEF x, s
  <2>4. Len(x \o s) >= 1
    BY <2>2, <2>3, ConcatParts
  <2> QED
    BY <2>2, <2>4 DEF e, k
<1> DEFINE p == EventBytes(t)
<1>3. p = [n \in 1 .. Len(t) |-> EncodeEvent(t[n], n - 1)]
  BY DEF EventBytes
<1> HIDE DEF p
<1>4. \A n \in 1 .. Len(t) : EncodeEvent(t[n], n - 1) \in Seq(Byte)
  BY <1>2
<1>5. p \in Seq(Seq(Byte)) /\ Len(p) = Len(t) /\ \A n \in 1 .. Len(t) : p[n] = EncodeEvent(t[n], n - 1)
  BY <1>1, <1>3, <1>4
<1> QED
  BY <1>2, <1>5 DEF p

LEMMA PrefixBytes ==
  ASSUME NEW t \in Traces, NEW n \in 0 .. Len(t)
  PROVE  EncodeStream(SubSeq(t, 1, n)) = FlattenSeq(SubSeq(EventBytes(t), 1, n))
<1> DEFINE s == SubSeq(t, 1, n)
           p == EventBytes(t)
           q == SubSeq(p, 1, n)
           r == [k \in 1 .. Len(s) |-> EncodeEvent(s[k], k - 1)]
<1>1. t \in Seq(Sendable) /\ Len(t) \in Nat /\ n \in Nat /\ n <= Len(t)
  BY TraceIs
<1>2. Len(s) = n /\ \A k \in 1 .. n : s[k] = t[k]
  BY <1>1
<1>3. p \in Seq(Seq(Byte)) /\ Len(p) = Len(t) /\ \A k \in 1 .. Len(t) : p[k] = EncodeEvent(t[k], k - 1)
  BY EventBytesAre
<1>4. EncodeStream(s) = FlattenSeq(r)
  BY DEF EncodeStream
<1>5. p = [k \in 1 .. Len(t) |-> EncodeEvent(t[k], k - 1)]
  BY DEF EventBytes
<1> HIDE DEF s, p
<1>6. q = [k \in 1 .. n |-> p[k]]
  <2>1. q \in Seq(Seq(Byte)) /\ Len(q) = n /\ \A k \in 1 .. n : q[k] = p[k]
    BY <1>1, <1>3
  <2>2. q = [k \in 1 .. Len(q) |-> q[k]]
    BY <2>1
  <2> HIDE DEF q
  <2> QED
    BY <2>1, <2>2
<1>7. r = [k \in 1 .. n |-> EncodeEvent(t[k], k - 1)]
  BY <1>2
<1>8. \A k \in 1 .. n : p[k] = EncodeEvent(t[k], k - 1)
  BY <1>1, <1>3
<1> HIDE DEF q, r
<1>9. q = r
  BY <1>6, <1>7, <1>8
<1> QED
  BY <1>4, <1>9 DEF s, p, q

LEMMA StreamJoins ==
  ASSUME NEW t \in Traces
  PROVE  \E f : /\ Joins(f, EventBytes(t), Byte) /\ Bytes[t] = f[Len(t)]
                /\ \A n \in 0 .. Len(t) : Ends[t][n] = Len(f[n])
<1> DEFINE p == EventBytes(t)
<1>1. p \in Seq(Seq(Byte)) /\ Len(p) = Len(t) /\ Len(t) \in Nat /\ t \in Seq(Sendable)
  BY EventBytesAre, TraceIs
<1>2. PICK f : Joins(f, p, Byte)
  BY <1>1, JoinExists
<1>3. \A n \in 0 .. Len(t) : EncodeStream(SubSeq(t, 1, n)) = FlattenSeq(SubSeq(p, 1, n))
  BY PrefixBytes
<1>4. ASSUME NEW n \in 0 .. Len(t) PROVE EncodeStream(SubSeq(t, 1, n)) = f[n]
  <2>1. n \in 0 .. Len(p)
    BY <1>1
  <2>2. FlattenSeq(SubSeq(p, 1, n)) = f[n]
    BY <2>1, <1>1, <1>2, JoinPrefix
  <2> QED
    BY <2>2, <1>3
<1>5. SubSeq(t, 1, Len(t)) = t
  BY <1>1
<1>6. Bytes[t] = f[Len(t)]
  <2>1. Bytes[t] = EncodeStream(t) /\ Len(t) \in 0 .. Len(t)
    BY <1>1 DEF Bytes
  <2> QED
    BY <2>1, <1>4, <1>5
<1>7. \A n \in 0 .. Len(t) : Ends[t][n] = Len(f[n])
  <2>1. \A n \in 0 .. Len(t) : Ends[t][n] = Len(EncodeStream(SubSeq(t, 1, n)))
    BY DEF Ends
  <2> QED
    BY <2>1, <1>4
<1> QED
  BY <1>2, <1>6, <1>7

\* The bytes of an event, and where they are.
LEMMA StreamIs ==
  ASSUME NEW t \in Traces
  PROVE  /\ Bytes[t] \in Seq(Byte) /\ Len(Bytes[t]) \in Nat /\ Ends[t][Len(t)] = Len(Bytes[t])
         /\ \A n \in 0 .. Len(t) : Ends[t][n] \in Nat /\ Ends[t][n] <= Len(Bytes[t])
         /\ Ends[t][0] = 0
<1> DEFINE p == EventBytes(t)
           b == Bytes[t]
           E == Ends[t]
<1>1. p \in Seq(Seq(Byte)) /\ Len(p) = Len(t) /\ Len(t) \in Nat
  BY EventBytesAre, TraceIs
<1>2. PICK f : Joins(f, p, Byte) /\ b = f[Len(t)] /\ \A n \in 0 .. Len(t) : E[n] = Len(f[n])
  BY StreamJoins
<1>3. f \in [0 .. Len(t) -> Seq(Byte)] /\ f[0] = <<>>
  BY <1>1, <1>2 DEF Joins
<1> HIDE DEF b, E, p
<1>4. b \in Seq(Byte) /\ Len(b) \in Nat /\ E[Len(t)] = Len(b) /\ E[0] = 0
  BY <1>1, <1>2, <1>3
<1>5. ASSUME NEW n \in 0 .. Len(t) PROVE E[n] \in Nat /\ E[n] <= Len(b)
  <2>1. n \in 0 .. Len(p) /\ Len(p) \in 0 .. Len(p) /\ n <= Len(p)
    BY <1>1
  <2>2. Len(f[n]) <= Len(f[Len(p)])
    BY <1>1, <1>2, <2>1, JoinExtends
  <2>3. Len(f[n]) \in Nat
    BY <1>3
  <2> QED
    BY <1>1, <1>2, <2>2, <2>3
<1> QED
  BY <1>4, <1>5 DEF b, E

LEMMA EventPlace ==
  ASSUME NEW t \in Traces, NEW n \in 1 .. Len(t)
  PROVE  /\ Ends[t][n] = Ends[t][n - 1] + Len(EncodeEvent(t[n], n - 1))
         /\ Ends[t][n - 1] < Ends[t][n] /\ Ends[t][n - 1] \in Nat /\ Ends[t][n] \in Nat
         /\ Ends[t][n] <= Len(Bytes[t])
         /\ \A i \in 1 .. Len(EncodeEvent(t[n], n - 1)) :
              Bytes[t][Ends[t][n - 1] + i] = EncodeEvent(t[n], n - 1)[i]
<1> DEFINE p == EventBytes(t)
           b == Bytes[t]
           E == Ends[t]
           y == EncodeEvent(t[n], n - 1)
<1>1. /\ p \in Seq(Seq(Byte)) /\ Len(p) = Len(t) /\ Len(t) \in Nat /\ p[n] = y
      /\ y \in Seq(Byte) /\ Len(y) >= 1
  BY EventBytesAre, TraceIs
<1>2. PICK f : Joins(f, p, Byte) /\ b = f[Len(t)] /\ \A k \in 0 .. Len(t) : E[k] = Len(f[k])
  BY StreamJoins
<1>3. f \in [0 .. Len(t) -> Seq(Byte)]
  BY <1>1, <1>2 DEF Joins
<1>4. \A k \in 1 .. Len(p) : f[k] = f[k - 1] \o p[k]
  BY <1>2, Zenon DEF Joins
<1>41. \A k \in 0 .. Len(t) : E[k] \in Nat /\ E[k] <= Len(b)
  BY StreamIs
<1> HIDE DEF b, E, p, y
<1> DEFINE m == n - 1
           x == f[m]
<1>5. m \in 0 .. Len(t) /\ n \in 0 .. Len(t) /\ n \in 1 .. Len(p) /\ Len(p) \in 0 .. Len(p) /\ n <= Len(p)
      /\ n \in 0 .. Len(p)
  BY <1>1
<1>6. f[n] = x \o y
  BY <1>1, <1>4, <1>5, Zenon
<1>7. x \in Seq(Byte) /\ E[m] = Len(x)
  BY <1>2, <1>3, <1>5
<1>8. Len(f[n]) <= Len(b) /\ \A i \in 1 .. Len(f[n]) : b[i] = f[n][i]
  <2>1. Len(f[n]) <= Len(f[Len(p)]) /\ \A i \in 1 .. Len(f[n]) : f[Len(p)][i] = f[n][i]
    BY <1>1, <1>2, <1>5, JoinExtends
  <2> QED
    BY <2>1, <1>1, <1>2
<1>9. E[n] = Len(f[n])
  BY <1>2, <1>5
<1> HIDE DEF m, x
<1>10. Len(x \o y) = Len(x) + Len(y) /\ Len(x) \in Nat /\ Len(y) \in Nat
       /\ \A i \in 1 .. Len(y) : (x \o y)[Len(x) + i] = y[i]
  BY <1>1, <1>7, ConcatParts
<1>11. E[n] = E[m] + Len(y) /\ E[m] < E[n] /\ E[m] \in Nat /\ E[n] \in Nat /\ E[n] <= Len(b)
  BY <1>1, <1>5, <1>6, <1>7, <1>8, <1>9, <1>10, <1>41
<1>12. ASSUME NEW i \in 1 .. Len(y) PROVE b[E[m] + i] = y[i]
  <2>1. (x \o y)[Len(x) + i] = y[i]
    BY <1>10
  <2>2. E[m] + i \in 1 .. Len(f[n])
    BY <1>9, <1>10, <1>11
  <2>3. b[E[m] + i] = f[n][E[m] + i]
    BY <1>8, <2>2
  <2>4. f[n][E[m] + i] = (x \o y)[Len(x) + i]
    BY <1>6, <1>7, Zenon
  <2> QED
    BY <2>1, <2>3, <2>4
<1> QED
  BY <1>11, <1>12 DEF b, E, y, m

LEMMA EndsGrow ==
  ASSUME NEW t \in Traces, NEW n \in 0 .. Len(t), NEW m \in 0 .. Len(t), n < m
  PROVE  Ends[t][n] < Ends[t][m]
<1> DEFINE p == EventBytes(t)
           E == Ends[t]
<1>1. p \in Seq(Seq(Byte)) /\ Len(p) = Len(t) /\ Len(t) \in Nat
  BY EventBytesAre, TraceIs
<1>2. PICK f : Joins(f, p, Byte) /\ \A k \in 0 .. Len(t) : E[k] = Len(f[k])
  BY StreamJoins
<1> DEFINE l == n + 1
<1>3. l \in 1 .. Len(t) /\ l - 1 = n /\ l \in 0 .. Len(p) /\ m \in 0 .. Len(p) /\ l <= m
  BY <1>1
<1> HIDE DEF l
<1>4. E[l - 1] < E[l] /\ E[l - 1] \in Nat /\ E[l] \in Nat
  BY <1>3, EventPlace
<1>5. E[m] \in Nat
  BY StreamIs
<1> HIDE DEF p, E
<1>6. Len(f[l]) <= Len(f[m])
  BY <1>1, <1>2, <1>3, JoinExtends
<1>7. E[l] = Len(f[l]) /\ E[m] = Len(f[m])
  BY <1>1, <1>2, <1>3
<1>8. E[n] < E[m]
  BY <1>3, <1>4, <1>5, <1>6, <1>7
<1> QED
  BY <1>8 DEF E

LEMMA SliceIs ==
  ASSUME NEW D, NEW s \in Seq(D), NEW a \in Nat, NEW n \in Nat, a + n <= Len(s)
  PROVE  /\ SubSeq(s, a + 1, a + n) \in Seq(D) /\ Len(SubSeq(s, a + 1, a + n)) = n
         /\ \A i \in 1 .. n : SubSeq(s, a + 1, a + n)[i] = s[a + i]
<1>1. \A i \in 1 .. n : a + i \in 1 .. Len(s)
  OBVIOUS
<1> DEFINE l == a + 1
           m == a + n
<1>2. l \in 1 .. (Len(s) + 1) /\ m \in 0 .. Len(s) /\ (m + 1) - l = n /\ l <= m + 1
  OBVIOUS
<1>3. \A i \in 1 .. n : (l + i) - 1 = a + i
  OBVIOUS
<1> HIDE DEF l, m
<1>4. Len(SubSeq(s, l, m)) = n /\ \A i \in 1 .. n : SubSeq(s, l, m)[i] = s[(l + i) - 1]
  BY <1>2
<1>5. SubSeq(s, l, m) \in Seq(D)
  BY <1>2
<1> QED
  BY <1>3, <1>4, <1>5 DEF l, m

\* Some of the bytes sent.
Cut(t, from, size) == SubSeq(Bytes[t], from + 1, from + size)

LEMMA CutIs ==
  ASSUME NEW t \in Traces, NEW from \in Nat, NEW size \in Nat, from + size <= Len(Bytes[t])
  PROVE  /\ Cut(t, from, size) \in Seq(Byte) /\ Len(Cut(t, from, size)) = size
         /\ \A i \in 1 .. size : Cut(t, from, size)[i] = Bytes[t][from + i]
<1> DEFINE b == Bytes[t]
           s == SubSeq(b, from + 1, from + size)
<1>1. b \in Seq(Byte) /\ Len(b) \in Nat /\ from + size <= Len(b)
  BY StreamIs
<1> HIDE DEF b
<1>2. s \in Seq(Byte) /\ Len(s) = size /\ \A i \in 1 .. size : s[i] = b[from + i]
  BY <1>1, SliceIs
<1> QED
  BY <1>2 DEF b, Cut

LEMMA CutAgrees ==
  ASSUME NEW t \in Traces, NEW n \in 1 .. Len(t), NEW size \in Nat,
         Ends[t][n - 1] + size <= Len(Bytes[t])
  PROVE  Agree(Cut(t, Ends[t][n - 1], size), EncodeEvent(t[n], n - 1))
<1> DEFINE y == EncodeEvent(t[n], n - 1)
           from == Ends[t][n - 1]
           w == Cut(t, from, size)
<1>1. from \in Nat /\ from + size <= Len(Bytes[t]) /\ \A i \in 1 .. Len(y) : Bytes[t][from + i] = y[i]
  BY EventPlace
<1>2. Len(y) \in Nat
  BY EventBytesAre
<1> HIDE DEF y, from
<1>3. Len(w) = size /\ \A i \in 1 .. size : w[i] = Bytes[t][from + i]
  BY <1>1, CutIs
<1> HIDE DEF w
<1>4. ASSUME NEW i \in 1 .. Len(y), i <= Len(w) PROVE w[i] = y[i]
  <2>1. i \in 1 .. size
    BY <1>2, <1>3, <1>4
  <2> QED
    BY <2>1, <1>1, <1>3
<1>5. Agree(w, y)
  BY <1>4 DEF Agree
<1> QED
  BY <1>5 DEF w, y, from

LEMMA NumberOfEvent ==
  ASSUME NEW t \in Traces, NEW n \in 1 .. Len(t)
  PROVE  n - 1 \in Nat /\ n - 1 \in 0 .. (Word - 1) /\ t[n] \in Sendable /\ HasArgs(t[n])
BY TraceIs, WordIs

\* The next event, where it begins: decoded if it is there as a whole.
LEMMA NextEvent ==
  ASSUME NEW t \in Traces, NEW n \in 1 .. Len(t), NEW size \in Nat,
         Ends[t][n - 1] + size <= Len(Bytes[t])
  PROVE  LET w == Cut(t, Ends[t][n - 1], size)
         IN  /\ Ends[t][n] <= Ends[t][n - 1] + size =>
                  StepAs(w, n - 1, Yes, Ends[t][n] - Ends[t][n - 1], <<Received(t[n], n - 1)>>,
                         Ending(t[n].code))
             /\ Ends[t][n] > Ends[t][n - 1] + size =>
                  Fails(w, n - 1, No) \/ Fails(w, n - 1, Ending(t[n].code))
<1> DEFINE w == Cut(t, Ends[t][n - 1], size)
           k == n - 1
           e == t[n]
           y == EncodeEvent(e, k)
           from == Ends[t][k]
           to == Ends[t][n]
<1>1. k \in 0 .. (Word - 1) /\ e \in Sendable /\ HasArgs(e)
  BY NumberOfEvent
<1>2. to = from + Len(y) /\ from \in Nat /\ to \in Nat /\ from + size <= Len(Bytes[t])
  BY EventPlace
<1>3. Agree(w, y)
  BY CutAgrees
<1>4. w \in Seq(Byte) /\ Len(w) = size
  BY <1>2, CutIs
<1>5. Len(y) \in Nat
  BY EventBytesAre
<1> HIDE DEF w, k, e, from, to
<1>6. EventRounds(w, k, e)
  BY <1>1, <1>3, <1>4, EventRound
<1>7. /\ Len(y) <= Len(w) => StepAs(w, k, Yes, Len(y), <<Received(e, k)>>, Ending(e.code))
      /\ Len(y) > Len(w) => Fails(w, k, No) \/ Fails(w, k, Ending(e.code))
  BY <1>6 DEF EventRounds
<1> HIDE DEF y
<1>8. to - from = Len(y) /\ (to <= from + size => Len(y) <= Len(w)) /\ (to > from + size => Len(y) > Len(w))
  BY <1>2, <1>4, <1>5
<1>9. /\ to <= from + size => StepAs(w, k, Yes, to - from, <<Received(e, k)>>, Ending(e.code))
      /\ to > from + size => Fails(w, k, No) \/ Fails(w, k, Ending(e.code))
  BY <1>7, <1>8
<1> QED
  BY <1>9 DEF w, k, e, from, to

\* An event that has been registered is not the next one.
LEMMA SameEvent ==
  ASSUME NEW t \in Traces, NEW n \in 1 .. Len(t), NEW size \in Nat,
         Ends[t][n - 1] + size <= Len(Bytes[t])
  PROVE  Fails(Cut(t, Ends[t][n - 1], size), n, No)
<1> DEFINE w == Cut(t, Ends[t][n - 1], size)
           k == n - 1
           e == t[n]
           y == EncodeEvent(e, k)
           x == Unsigned[k]
           s == HeadBytes(e.code, e.time, e.thread) \o (ArgBytes(e) \o Unsigned[e.code])
<1>1. k \in Nat /\ k \in 0 .. (Word - 1) /\ e \in Sendable /\ HasArgs(e) /\ n # k
  BY NumberOfEvent
<1>2. Agree(w, y)
  BY CutAgrees
<1>3. w \in Seq(Byte)
  <2>1. Ends[t][n - 1] \in Nat
    BY EventPlace
  <2> QED
    BY <2>1, CutIs
<1> HIDE DEF w, k, e
<1>4. y = x \o s /\ x \in Seq(Byte) /\ s \in Seq(Byte)
  BY <1>1, EncodedParts
<1> HIDE DEF y, s
<1>5. Agree(w, x)
  <2> HIDE DEF x
  <2>1. Agree(w, x \o s)
    BY <1>2, <1>4
  <2> QED
    BY <2>1, <1>3, <1>4, AgreeParts
<1>6. Fails(w, n, No)
  BY <1>1, <1>3, <1>5, WrongCount
<1> QED
  BY <1>6 DEF w

LEMMA NothingFails ==
  ASSUME NEW w \in Seq(Byte), Len(w) = 0, NEW n
  PROVE  Fails(w, n, No)
<1>1. AllLow(w)
  BY DEF AllLow
<1>2. ValueAs(w, No, Len(w), <<>>)
  BY <1>1, ValueNone
<1>3. HeaderAs(w, n, No, Len(w), <<>>) /\ Len(w) \in 0 .. Len(w)
  BY <1>2, HeaderNone
<1> DEFINE v == <<>>
           k == Len(w)
<1>4. HeaderAs(w, n, No, k, v) /\ k \in 0 .. Len(w)
  BY <1>3
<1> HIDE DEF v, k
<1> QED
  BY <1>4, BadHeader

\* What Unambiguous says of a place, said of the bytes there.
LEMMA ReadsNot ==
  ASSUME NEW t \in Traces, NEW from \in Nat, NEW size \in Nat, size <= Cap,
         from + size <= Len(Bytes[t]), NEW n \in Nat, ~ReadsAsEvent(Bytes[t], from, size, n)
  PROVE  Fails(Cut(t, from, size), n, No)
<1> DEFINE b == Bytes[t]
           w == Cut(t, from, size)
           d == [i \in Index |-> IF i < size THEN b[from + i + 1] ELSE 0]
           c == [EmptyCursor EXCEPT !.unread = size]
<1>1. b \in Seq(Byte) /\ Len(b) \in Nat /\ from + size <= Len(b)
  BY StreamIs
<1>2. w \in Seq(Byte) /\ Len(w) = size /\ \A i \in 1 .. size : w[i] = b[from + i]
  BY CutIs
<1>3. ~(OneStep(d, c, n).ok \/ OneStep(d, c, n).end)
  BY DEF ReadsAsEvent
<1> HIDE DEF b, w
<1>4. d \in Storage
  <2>1. \A i \in Index : i < size => b[from + i + 1] \in Byte
    <3>1. \A i \in Index : i < size => from + i + 1 \in 1 .. Len(b)
      BY <1>1, CapAssumption DEF Index
    <3> QED
      BY <1>1, <3>1
  <2>2. 0 \in Byte
    BY OctetAssumption
  <2> QED
    BY <2>1, <2>2 DEF Storage
<1>5. c \in Cursor /\ c.read_pos = 0 /\ c.unread = size
  BY DEF Cursor, EmptyCursor
<1>6. ASSUME NEW i \in 1 .. size PROVE d[Wrap(0 + (i - 1))] = w[i]
  <2>1. i - 1 \in Index /\ Wrap(0 + (i - 1)) = i - 1 /\ i - 1 < size
    BY CapAssumption DEF Wrap, Index
  <2>2. d[i - 1] = b[from + (i - 1) + 1]
    BY <2>1
  <2>3. from + (i - 1) + 1 = from + i
    OBVIOUS
  <2> QED
    BY <2>1, <2>2, <2>3, <1>2
<1>7. Window(d, c, w)
  <2>1. 0 \in Index
    BY CapAssumption DEF Index
  <2>2. \A i \in 1 .. Len(w) : d[Wrap(c.read_pos + (i - 1))] = w[i]
    BY <1>2, <1>5, <1>6
  <2> HIDE DEF d, c
  <2> QED
    BY <2>1, <2>2, <1>2, <1>4, <1>5 DEF Window
<1> HIDE DEF d, c
<1>8. PICK k \in 0 .. Len(w), end \in Truth :
         StepAs(w, n, No, k, <<>>, end) \/ \E e \in Event : StepAs(w, n, Yes, k, <<e>>, end)
  BY <1>2, StepCases
<1>9. \A ok, event : StepAs(w, n, ok, k, event, end) =>
         OneStep(d, c, n).ok = ok /\ OneStep(d, c, n).end = end
  <2>1. ASSUME NEW ok, NEW event, StepAs(w, n, ok, k, event, end)
        PROVE  OneStep(d, c, n).ok = ok /\ OneStep(d, c, n).end = end
    <3>1. OneStep(d, c, n) = Stepped(ok, c, k, event, end)
      BY <1>7, <2>1 DEF StepAs
    <3> QED
      BY <3>1 DEF Stepped
  <2> QED
    BY <2>1
<1>10. ~\E e \in Event : StepAs(w, n, Yes, k, <<e>>, end)
  <2>1. ASSUME NEW e \in Event, StepAs(w, n, Yes, k, <<e>>, end) PROVE FALSE
    <3> DEFINE event == <<e>>
    <3>1. StepAs(w, n, Yes, k, event, end)
      BY <2>1
    <3> HIDE DEF event
    <3>2. OneStep(d, c, n).ok = Yes
      BY <3>1, <1>9
    <3> QED
      BY <3>2, <1>3 DEF Yes
  <2> QED
    BY <2>1
<1>11. StepAs(w, n, No, k, <<>>, end)
  BY <1>8, <1>10
<1>12. end = No
  <2>1. OneStep(d, c, n).end = end
    <3> DEFINE event == <<>>
    <3>1. StepAs(w, n, No, k, event, end)
      BY <1>11
    <3> HIDE DEF event
    <3> QED
      BY <3>1, <1>9
  <2> QED
    BY <2>1, <1>3 DEF Truth, Yes, No
<1>13. Fails(w, n, No)
  BY <1>11, <1>12 DEF Fails
<1> QED
  BY <1>13 DEF w

LEMMA InsideRegistered ==
  ASSUME NEW t \in Traces, NEW n \in 1 .. (Len(t) - 1), NEW from \in Nat, NEW size \in Nat,
         Ends[t][n - 1] <= from, from < Ends[t][n], size <= Cap, from + size <= Len(Bytes[t])
  PROVE  Fails(Cut(t, from, size), n, No)
<1>1. Cut(t, from, size) \in Seq(Byte) /\ Len(Cut(t, from, size)) = size
  BY CutIs
<1>2. CASE size = 0
  BY <1>1, <1>2, NothingFails
<1>3. CASE size # 0
  <2> DEFINE b == Bytes[t]
             lo == Ends[t][n - 1]
             hi == Ends[t][n]
  <2>1. n \in 0 .. (Len(t) - 1) /\ n > 0 /\ n \in Nat /\ n \in 1 .. Len(t)
    BY TraceIs
  <2>2. lo \in Nat /\ hi \in Nat /\ Len(b) \in Nat
    BY <2>1, EventPlace, StreamIs
  <2>3. \A x \in lo .. (hi - 1) : \A y \in 1 .. SizeMin(Cap, Len(b) - x) : ~ReadsAsEvent(b, x, y, n)
    BY <2>1, UnambiguousAssumption DEF Unambiguous
  <2>4. lo <= from /\ from < hi /\ from + size <= Len(b)
    OBVIOUS
  <2> HIDE DEF b, lo, hi
  <2>5. from \in lo .. (hi - 1) /\ size \in 1 .. SizeMin(Cap, Len(b) - from)
    BY <2>2, <2>4, <1>3, CapAssumption DEF SizeMin
  <2>6. ~ReadsAsEvent(b, from, size, n)
    BY <2>3, <2>5
  <2> QED
    BY <2>1, <2>6, ReadsNot DEF b
<1> QED
  BY <1>2, <1>3

LEMMA InsideNext ==
  ASSUME NEW t \in Traces, NEW n \in 0 .. (Len(t) - 1), NEW from \in Nat, NEW size \in Nat,
         Ends[t][n] < from, size <= Cap, from + size < Ends[t][n + 1]
  PROVE  Fails(Cut(t, from, size), n, No)
<1> DEFINE b == Bytes[t]
           lo == Ends[t][n]
           hi == Ends[t][n + 1]
<1>1. n \in Nat /\ n \in 0 .. Len(t) /\ n + 1 \in 0 .. Len(t)
  BY TraceIs
<1>2. lo \in Nat /\ hi \in Nat /\ Len(b) \in Nat /\ hi <= Len(b)
  BY <1>1, StreamIs
<1>3. from + size <= Len(Bytes[t])
  BY <1>2
<1>4. Cut(t, from, size) \in Seq(Byte) /\ Len(Cut(t, from, size)) = size
  BY <1>3, CutIs
<1>5. CASE size = 0
  BY <1>4, <1>5, NothingFails
<1>6. CASE size # 0
  <2>3. \A x \in (lo + 1) .. (hi - 1) : \A y \in 1 .. SizeMin(Cap, hi - x - 1) : ~ReadsAsEvent(b, x, y, n)
    BY UnambiguousAssumption DEF Unambiguous
  <2>4. lo < from /\ from + size < hi
    OBVIOUS
  <2> HIDE DEF b, lo, hi
  <2>5. from \in (lo + 1) .. (hi - 1) /\ size \in 1 .. SizeMin(Cap, hi - from - 1)
    BY <1>2, <2>4, <1>6, CapAssumption DEF SizeMin
  <2>6. ~ReadsAsEvent(b, from, size, n)
    BY <2>3, <2>5
  <2> QED
    BY <1>1, <1>3, <2>6, ReadsNot DEF b
<1> QED
  BY <1>5, <1>6

(***************************************************************************)
(* From the ring's description of its bytes to the window.                 *)
(***************************************************************************)
Upto(t, g) == SubSeq(Bytes[t], 1, g)

LEMMA UptoIs ==
  ASSUME NEW t \in Traces, NEW g \in 0 .. Len(Bytes[t])
  PROVE  /\ Upto(t, g) \in Seq(Byte) /\ Len(Upto(t, g)) = g /\ g \in Nat
         /\ \A i \in 1 .. g : Upto(t, g)[i] = Bytes[t][i]
<1> DEFINE b == Bytes[t]
           s == SubSeq(b, 1, g)
<1>1. b \in Seq(Byte) /\ Len(b) \in Nat /\ g \in 0 .. Len(b)
  BY StreamIs
<1> HIDE DEF b
<1>2. s \in Seq(Byte) /\ Len(s) = g /\ \A i \in 1 .. g : s[i] = b[i]
  BY <1>1
<1> QED
  BY <1>1, <1>2 DEF b, Upto

LEMMA DescribedWindow ==
  ASSUME NEW t \in Traces, NEW d \in Storage, NEW c \in Cursor, NEW g \in 0 .. Len(Bytes[t]),
         R!Describes(c, d, Upto(t, g))
  PROVE  /\ Window(d, c, Cut(t, c.num_read, c.unread)) /\ c.num_read + c.unread = g
         /\ c.num_read \in Nat /\ c.unread \in Nat /\ c.unread <= Cap
         /\ Cut(t, c.num_read, c.unread) \in Seq(Byte) /\ Len(Cut(t, c.num_read, c.unread)) = c.unread
<1> DEFINE s == Upto(t, g)
           p == c.num_read
           u == c.unread
           w == Cut(t, p, u)
<1>1. s \in Seq(Byte) /\ Len(s) = g /\ g \in Nat /\ \A i \in 1 .. g : s[i] = Bytes[t][i]
  BY UptoIs
<1>2. /\ c.read_pos \in Index /\ u <= Cap /\ p + u = Len(s) /\ p \in Nat /\ u \in Nat
      /\ \A i \in 0 .. (u - 1) : d[Wrap(c.read_pos + i)] = s[p + i + 1]
  BY SameRing DEF R!Describes, R!Total, Cursor
<1>3. p + u <= Len(Bytes[t])
  BY <1>1, <1>2, StreamIs
<1> HIDE DEF s, p, u
<1>4. w \in Seq(Byte) /\ Len(w) = u /\ \A i \in 1 .. u : w[i] = Bytes[t][p + i]
  BY <1>2, <1>3, CutIs
<1>5. ASSUME NEW i \in 1 .. u PROVE d[Wrap(c.read_pos + (i - 1))] = w[i]
  <2> DEFINE j == i - 1
  <2>1. j \in 0 .. (u - 1) /\ p + j + 1 = p + i /\ p + i \in 1 .. g
    BY <1>1, <1>2
  <2> HIDE DEF j
  <2>2. d[Wrap(c.read_pos + j)] = s[p + j + 1]
    BY <2>1, <1>2
  <2>3. s[p + i] = Bytes[t][p + i]
    BY <2>1, <1>1
  <2>4. d[Wrap(c.read_pos + j)] = w[i]
    BY <2>1, <2>2, <2>3, <1>4
  <2> QED
    BY <2>4 DEF j
<1> HIDE DEF w
<1>6. Window(d, c, w)
  <2>1. c.unread = Len(w) /\ Len(w) <= Cap
    BY <1>2, <1>4 DEF u
  <2>2. \A i \in 1 .. Len(w) : d[Wrap(c.read_pos + (i - 1))] = w[i]
    BY <1>4, <1>5
  <2> QED
    BY <2>1, <2>2, <1>2, <1>4 DEF Window
<1> QED
  BY <1>1, <1>2, <1>4, <1>6 DEF w, p, u

LEMMA DescribedConsumed ==
  ASSUME NEW s \in Seq(Byte), NEW d, NEW c \in Cursor, R!Describes(c, d, s), NEW k \in 0 .. c.unread
  PROVE  R!Describes(Consumed(c, k), d, s)
<1>1. c \in R!Cursor
  BY SameRing
<1>2. R!Describes([c EXCEPT !.read_pos = R!Wrap(c.read_pos + k), !.num_read = @ + k, !.unread = @ - k], d, s)
  BY <1>1, RingIsRing, R!ConsumeDescribes
<1>3. R!Wrap(c.read_pos + k) = Wrap(c.read_pos + k)
  BY SameRing
<1> QED
  BY <1>2, <1>3 DEF Consumed

LEMMA SameWriting ==
  /\ \A c, n : R!ToWrite(c, n) = ToWrite(c, n)
  /\ \A d, c, b : R!Filled(d, c, b) = Filled(d, c, b)
  /\ \A c, b : R!AfterPopulate(c, b) = AfterPopulate(c, b)
<1>1. \A c, n : R!ToWrite(c, n) = ToWrite(c, n)
  BY DEF R!ToWrite, ToWrite, R!SizeMin, SizeMin
<1>2. \A d, a, b, from, n : R!MemCpy(d, a, b, from, n) = MemCpy(d, a, b, from, n)
  BY DEF R!MemCpy, MemCpy, R!Index, Index
<1>3. \A d, c, b : R!Filled(d, c, b) = Filled(d, c, b)
  <2>1. ASSUME NEW d, NEW c, NEW b PROVE R!Filled(d, c, b) = Filled(d, c, b)
    <3> DEFINE n == ToWrite(c, Len(b))
               s == Cap - c.write_pos
    <3>1. R!Filled(d, c, b) = IF n <= s THEN MemCpy(d, c.write_pos, b, 1, n)
                              ELSE MemCpy(MemCpy(d, c.write_pos, b, 1, s), 0, b, 1 + s, n - s)
      BY <1>1, <1>2, Zenon DEF R!Filled
    <3> QED
      BY <3>1, Zenon DEF Filled
  <2> QED
    BY <2>1
<1>4. \A c, b : R!AfterPopulate(c, b) = AfterPopulate(c, b)
  <2>1. ASSUME NEW c, NEW b PROVE R!AfterPopulate(c, b) = AfterPopulate(c, b)
    <3> DEFINE n == ToWrite(c, Len(b))
    <3>1. R!AfterPopulate(c, b) =
            [c EXCEPT !.write_pos = Advance(c.write_pos, n), !.unread = c.unread + n]
      BY <1>1, SameRing, Zenon DEF R!AfterPopulate
    <3> QED
      BY <3>1 DEF AfterPopulate
  <2> QED
    BY <2>1
<1> QED
  BY <1>1, <1>3, <1>4

\* A stretch of the bytes, and the stretch that follows.
Span(t, a, g) == SubSeq(Bytes[t], a + 1, g)

LEMMA SpanIs ==
  ASSUME NEW t \in Traces, NEW g \in 0 .. Len(Bytes[t]), NEW a \in 0 .. g
  PROVE  /\ Span(t, a, g) \in Seq(Byte) /\ Len(Span(t, a, g)) = g - a /\ g - a \in Nat
         /\ \A i \in 1 .. (g - a) : Span(t, a, g)[i] = Bytes[t][a + i]
<1> DEFINE b == Bytes[t]
           n == g - a
<1>1. b \in Seq(Byte) /\ Len(b) \in Nat /\ a \in Nat /\ n \in Nat /\ a + n = g /\ a + n <= Len(b)
  BY StreamIs
<1> HIDE DEF b, n
<1>2. /\ SubSeq(b, a + 1, a + n) \in Seq(Byte) /\ Len(SubSeq(b, a + 1, a + n)) = n
      /\ \A i \in 1 .. n : SubSeq(b, a + 1, a + n)[i] = b[a + i]
  BY <1>1, SliceIs
<1> QED
  BY <1>1, <1>2 DEF Span, b, n

\* Sequences of bytes that have the same bytes.
LEMMA SameBytes ==
  ASSUME NEW x \in Seq(Byte), NEW y \in Seq(Byte), Len(x) = Len(y), \A i \in 1 .. Len(x) : x[i] = y[i]
  PROVE  x = y
OBVIOUS

LEMMA SpanJoin ==
  ASSUME NEW t \in Traces, NEW g \in 0 .. Len(Bytes[t]), NEW a \in 0 .. g, NEW n \in 0 .. (g - a)
  PROVE  /\ SubSeq(Span(t, a, g), n + 1, Len(Span(t, a, g))) = Span(t, a + n, g)
         /\ Upto(t, a) \o SubSeq(Span(t, a, g), 1, n) = Upto(t, a + n)
<1> DEFINE B == Bytes[t]
           s == Span(t, a, g)
           x == SubSeq(s, n + 1, Len(s))
           y == Span(t, a + n, g)
           u == Upto(t, a)
           v == SubSeq(s, 1, n)
           w == Upto(t, a + n)
<1>1. /\ g \in Nat /\ a \in Nat /\ n \in Nat /\ a \in 0 .. Len(B) /\ a + n \in 0 .. g
      /\ a + n \in 0 .. Len(B) /\ Len(B) \in Nat
  BY StreamIs
<1>2. s \in Seq(Byte) /\ Len(s) = g - a /\ \A i \in 1 .. (g - a) : s[i] = B[a + i]
  BY SpanIs
<1>3. y \in Seq(Byte) /\ Len(y) = g - (a + n) /\ \A i \in 1 .. (g - (a + n)) : y[i] = B[(a + n) + i]
  BY <1>1, SpanIs
<1>4. u \in Seq(Byte) /\ Len(u) = a /\ \A i \in 1 .. a : u[i] = B[i]
  BY <1>1, UptoIs
<1>5. w \in Seq(Byte) /\ Len(w) = a + n /\ \A i \in 1 .. (a + n) : w[i] = B[i]
  BY <1>1, UptoIs
<1> HIDE DEF s, y, u, w, B
<1>6. n \in 0 .. Len(s)
  BY <1>2
<1>7. /\ v \in Seq(Byte) /\ Len(v) = n /\ \A i \in 1 .. n : v[i] = s[i]
      /\ x \in Seq(Byte) /\ Len(x) = Len(s) - n /\ \A i \in 1 .. (Len(s) - n) : x[i] = s[n + i]
  BY <1>2, <1>6, PrefixIs DEF Prefix, Rest
<1> HIDE DEF x, v
<1>8. x = y
  <2>1. Len(x) = Len(y)
    BY <1>1, <1>2, <1>3, <1>7
  <2>2. ASSUME NEW i \in 1 .. Len(x) PROVE x[i] = y[i]
    <3>1. i \in 1 .. (Len(s) - n) /\ n + i \in 1 .. (g - a) /\ i \in 1 .. (g - (a + n))
          /\ a + (n + i) = (a + n) + i
      BY <1>1, <1>2, <1>7
    <3>2. x[i] = s[n + i] /\ s[n + i] = B[a + (n + i)] /\ y[i] = B[(a + n) + i]
      BY <3>1, <1>2, <1>3, <1>7
    <3> QED
      BY <3>1, <3>2
  <2> QED
    BY <1>3, <1>7, <2>1, <2>2, SameBytes
<1>9. u \o v = w
  <2> DEFINE z == u \o v
  <2>1. z \in Seq(Byte) /\ Len(z) = Len(u) + Len(v) /\ (\A i \in 1 .. Len(u) : z[i] = u[i])
        /\ \A i \in 1 .. Len(v) : z[Len(u) + i] = v[i]
    <3>1. u \in Seq(Byte) /\ v \in Seq(Byte)
      BY <1>4, <1>7
    <3> QED
      BY <3>1, ConcatParts
  <2> HIDE DEF z
  <2>2. Len(z) = Len(w)
    BY <2>1, <1>4, <1>5, <1>7
  <2>3. ASSUME NEW i \in 1 .. Len(z) PROVE z[i] = w[i]
    <3>1. i \in 1 .. (a + n) /\ w[i] = B[i]
      BY <2>2, <1>5
    <3>2. CASE i <= a
      <4>1. i \in 1 .. a
        BY <3>1, <3>2
      <4> QED
        BY <4>1, <2>1, <1>4, <3>1
    <3>3. CASE i > a
      <4> DEFINE j == i - a
      <4>1. j \in 1 .. n /\ a + j = i /\ j \in 1 .. (g - a)
        BY <3>1, <3>3, <1>1
      <4> HIDE DEF j
      <4>2. z[a + j] = v[j] /\ v[j] = s[j] /\ s[j] = B[a + j]
        BY <4>1, <2>1, <1>2, <1>4, <1>7
      <4> QED
        BY <4>1, <4>2, <3>1
    <3> QED
      BY <3>1, <3>2, <3>3, <1>1
  <2>4. z = w
    BY <2>1, <2>2, <2>3, <1>5, SameBytes
  <2> QED
    BY <2>4 DEF z
<1> QED
  BY <1>8, <1>9 DEF x, y, u, v, w, s

\* populate: the bytes that fit come to those described, the others stay.
PopulateGives(t, d, c, a, g, n) ==
  LET buff == Span(t, a, g)
  IN  /\ n \in 0 .. (g - a) /\ Len(buff) = g - a
      /\ Filled(d, c, buff) \in Storage /\ AfterPopulate(c, buff) \in Cursor
      /\ AfterPopulate(c, buff).num_read = c.num_read
      /\ AfterPopulate(c, buff).unread = c.unread + n
      /\ R!Describes(AfterPopulate(c, buff), Filled(d, c, buff), Upto(t, a + n))
      /\ SubSeq(buff, n + 1, Len(buff)) = Span(t, a + n, g)

LEMMA PopulateHolds ==
  ASSUME NEW t \in Traces, NEW d \in Storage, NEW c \in Cursor,
         NEW g \in 0 .. Len(Bytes[t]), NEW a \in 0 .. g, R!Describes(c, d, Upto(t, a)),
         NEW n, n = ToWrite(c, g - a)
  PROVE  PopulateGives(t, d, c, a, g, n)
<1> DEFINE b == Span(t, a, g)
           s == Upto(t, a)
<1>1. b \in Seq(Byte) /\ Len(b) = g - a /\ g - a \in Nat
  BY SpanIs
<1>2. a \in 0 .. Len(Bytes[t]) /\ g \in Nat /\ a \in Nat
  BY StreamIs
<1>3. s \in Seq(Byte)
  BY <1>2, UptoIs
<1> HIDE DEF b, s
<1>4. d \in [R!Index -> Byte] /\ c \in R!Cursor
  BY SameRing DEF Storage
<1>41. R!Describes(c, d, s)
  BY DEF s
<1>5. c.write_pos \in R!Index /\ c.unread \in 0 .. Cap
  BY <1>4, <1>41, RingIsRing, R!DescribesIndex
<1>6. R!Describes(R!AfterPopulate(c, b), R!Filled(d, c, b), s \o SubSeq(b, 1, R!ToWrite(c, Len(b))))
  BY <1>1, <1>3, <1>4, <1>41, <1>5, RingIsRing, R!PopulateDescribes
<1>7. c.unread <= Cap
  BY <1>5, CapAssumption
<1>8. /\ R!AfterPopulate(c, b) \in R!Cursor
      /\ R!AfterPopulate(c, b).num_read = c.num_read
      /\ R!AfterPopulate(c, b).unread = c.unread + R!ToWrite(c, Len(b))
  BY <1>1, <1>4, <1>5, <1>7, RingIsRing, R!AfterPopulateType
<1>9. R!Filled(d, c, b) \in [R!Index -> Byte]
  BY <1>1, <1>4, <1>5, <1>7, RingIsRing, R!FilledBytes
<1>10. n \in 0 .. (g - a)
  BY <1>1, <1>5, CapAssumption DEF ToWrite, SizeMin
<1>11. R!ToWrite(c, Len(b)) = n
  BY <1>1, SameWriting
<1>12. R!Describes(AfterPopulate(c, b), Filled(d, c, b), s \o SubSeq(b, 1, n))
  BY <1>6, <1>11, SameWriting
<1>13. AfterPopulate(c, b) \in Cursor /\ AfterPopulate(c, b).num_read = c.num_read
       /\ AfterPopulate(c, b).unread = c.unread + n /\ Filled(d, c, b) \in Storage
  BY <1>8, <1>9, <1>11, SameWriting, SameRing DEF Storage
<1>14. SubSeq(b, n + 1, Len(b)) = Span(t, a + n, g) /\ s \o SubSeq(b, 1, n) = Upto(t, a + n)
  BY <1>10, SpanJoin DEF b, s
<1>15. R!Describes(AfterPopulate(c, b), Filled(d, c, b), Upto(t, a + n))
  BY <1>12, <1>14
<1> QED
  BY <1>1, <1>10, <1>13, <1>14, <1>15 DEF b, PopulateGives

(***************************************************************************)
(* What oneStep does, by the place in the stream where the ring is.        *)
(***************************************************************************)
\* The first a bytes have arrived, and the ring holds what c has not read.
Located(t, d, c, a) ==
  /\ t \in Traces /\ d \in Storage /\ c \in Cursor /\ a \in 0 .. Len(Bytes[t])
  /\ R!Describes(c, d, Upto(t, a))

StepFailed(t, d, a, step, end) ==
  /\ step.ok = No /\ step.end = end
  /\ step.cur \in Cursor /\ R!Describes(step.cur, d, Upto(t, a))

StepMade(t, d, a, step, p, event, end) ==
  /\ step.ok = Yes /\ step.end = end /\ step.event[1] = event
  /\ step.cur \in Cursor /\ R!Describes(step.cur, d, Upto(t, a)) /\ step.cur.num_read = p

LEMMA LocatedIs ==
  ASSUME NEW t, NEW d, NEW c, NEW a, Located(t, d, c, a)
  PROVE  /\ t \in Traces /\ d \in Storage /\ c \in Cursor /\ a \in 0 .. Len(Bytes[t]) /\ a \in Nat
         /\ R!Describes(c, d, Upto(t, a)) /\ Upto(t, a) \in Seq(Byte)
         /\ Window(d, c, Cut(t, c.num_read, c.unread)) /\ c.num_read + c.unread = a
         /\ c.num_read \in Nat /\ c.unread \in Nat /\ c.unread <= Cap
         /\ Cut(t, c.num_read, c.unread) \in Seq(Byte) /\ Len(Cut(t, c.num_read, c.unread)) = c.unread
<1>1. t \in Traces /\ d \in Storage /\ c \in Cursor /\ a \in 0 .. Len(Bytes[t]) /\ R!Describes(c, d, Upto(t, a))
  BY DEF Located
<1>2. a \in Nat /\ Upto(t, a) \in Seq(Byte)
  BY <1>1, UptoIs
<1> QED
  BY <1>1, <1>2, DescribedWindow

LEMMA SteppedIs ==
  ASSUME NEW ok, NEW c, NEW k, NEW event, NEW end
  PROVE  /\ Stepped(ok, c, k, event, end).ok = ok /\ Stepped(ok, c, k, event, end).end = end
         /\ Stepped(ok, c, k, event, end).event = event
         /\ Stepped(ok, c, k, event, end).cur = Consumed(c, k)
BY DEF Stepped

LEMMA ConsumedLocated ==
  ASSUME NEW t, NEW d, NEW c, NEW a, Located(t, d, c, a), NEW k \in 0 .. c.unread
  PROVE  /\ Consumed(c, k) \in Cursor /\ R!Describes(Consumed(c, k), d, Upto(t, a))
         /\ Consumed(c, k).num_read = c.num_read + k
<1> DEFINE w == Cut(t, c.num_read, c.unread)
           s == Upto(t, a)
<1>1. /\ c \in Cursor /\ R!Describes(c, d, s) /\ s \in Seq(Byte) /\ Window(d, c, w) /\ Len(w) = c.unread
  BY LocatedIs
<1> HIDE DEF w, s
<1>2. R!Describes(Consumed(c, k), d, s)
  BY <1>1, DescribedConsumed
<1>3. k \in 0 .. Len(w)
  BY <1>1
<1>4. Consumed(c, k) \in Cursor /\ Consumed(c, k).num_read = c.num_read + k
  BY <1>1, <1>3, ConsumedWindow
<1> QED
  BY <1>2, <1>4 DEF s

LEMMA StepFails ==
  ASSUME NEW t, NEW d, NEW c, NEW a, Located(t, d, c, a), NEW n, NEW end,
         Fails(Cut(t, c.num_read, c.unread), n, end)
  PROVE  StepFailed(t, d, a, OneStep(d, c, n), end)
<1> DEFINE w == Cut(t, c.num_read, c.unread)
           nil == <<>>
<1>1. Window(d, c, w) /\ Len(w) = c.unread
  BY LocatedIs
<1> HIDE DEF w
<1>2. PICK k \in 0 .. Len(w) : StepAs(w, n, No, k, nil, end)
  BY DEF Fails, w
<1> HIDE DEF nil
<1>3. OneStep(d, c, n) = Stepped(No, c, k, nil, end)
  BY <1>1, <1>2 DEF StepAs
<1>4. k \in 0 .. c.unread
  BY <1>1
<1>5. Consumed(c, k) \in Cursor /\ R!Describes(Consumed(c, k), d, Upto(t, a))
  BY <1>4, ConsumedLocated
<1> QED
  BY <1>3, <1>5, SteppedIs DEF StepFailed

LEMMA StepSucceeds ==
  ASSUME NEW t, NEW d, NEW c, NEW a, Located(t, d, c, a), NEW n, NEW end, NEW e, NEW k \in 0 .. c.unread,
         StepAs(Cut(t, c.num_read, c.unread), n, Yes, k, <<e>>, end)
  PROVE  StepMade(t, d, a, OneStep(d, c, n), c.num_read + k, e, end)
<1> DEFINE w == Cut(t, c.num_read, c.unread)
           event == <<e>>
<1>1. Window(d, c, w) /\ StepAs(w, n, Yes, k, event, end)
  BY LocatedIs
<1>2. event[1] = e
  OBVIOUS
<1> HIDE DEF w, event
<1>3. OneStep(d, c, n) = Stepped(Yes, c, k, event, end)
  BY <1>1 DEF StepAs
<1>4. Consumed(c, k) \in Cursor /\ R!Describes(Consumed(c, k), d, Upto(t, a))
      /\ Consumed(c, k).num_read = c.num_read + k
  BY ConsumedLocated
<1> QED
  BY <1>2, <1>3, <1>4, SteppedIs DEF StepMade

\* Where the last event begins nothing is decoded.
LEMMA AtLast ==
  ASSUME NEW t, NEW d, NEW c, NEW a, Located(t, d, c, a), NEW r \in 1 .. Len(t), c.num_read = Ends[t][r - 1]
  PROVE  StepFailed(t, d, a, OneStep(d, c, r), No)
<1>1. t \in Traces /\ c.num_read + c.unread = a /\ c.unread \in Nat /\ a \in 0 .. Len(Bytes[t])
  BY LocatedIs
<1>2. Ends[t][r - 1] + c.unread <= Len(Bytes[t])
  BY <1>1, StreamIs
<1>3. Fails(Cut(t, Ends[t][r - 1], c.unread), r, No)
  BY <1>1, <1>2, SameEvent
<1> QED
  BY <1>3, StepFails

\* Where the next event begins it is decoded if it has arrived as a whole.
LEMMA AtNext ==
  ASSUME NEW t, NEW d, NEW c, NEW a, Located(t, d, c, a), NEW r \in 0 .. Len(t), c.num_read = Ends[t][r]
  PROVE  /\ (r < Len(t) /\ Ends[t][r + 1] <= a) =>
              StepMade(t, d, a, OneStep(d, c, r), Ends[t][r + 1], Received(t[r + 1], r), Ending(t[r + 1].code))
         /\ (r = Len(t) \/ a < Ends[t][r + 1]) =>
              \/ StepFailed(t, d, a, OneStep(d, c, r), No)
              \/ r < Len(t) /\ StepFailed(t, d, a, OneStep(d, c, r), Ending(t[r + 1].code))
<1> DEFINE w == Cut(t, c.num_read, c.unread)
<1>1. /\ t \in Traces /\ c.num_read + c.unread = a /\ c.unread \in Nat /\ a \in 0 .. Len(Bytes[t])
      /\ w \in Seq(Byte) /\ Len(w) = c.unread /\ a \in Nat /\ c.num_read \in Nat
  BY LocatedIs
<1>2. Len(t) \in Nat /\ Len(Bytes[t]) \in Nat
  BY <1>1, TraceIs, StreamIs
<1>3. CASE r = Len(t)
  <2>1. Ends[t][r] = Len(Bytes[t])
    BY <1>1, <1>3, StreamIs
  <2>2. c.unread = 0
    BY <2>1, <1>1, <1>2
  <2>3. Fails(w, r, No)
    <3> HIDE DEF w
    <3> QED
      BY <2>2, <1>1, NothingFails
  <2>4. StepFailed(t, d, a, OneStep(d, c, r), No)
    BY <2>3, StepFails
  <2> QED
    BY <2>4, <1>2, <1>3
<1>4. CASE r < Len(t)
  <2> DEFINE n == r + 1
             hi == Ends[t][n]
             lo == Ends[t][r]
             e == t[n]
  <2>1. n \in 1 .. Len(t) /\ n - 1 = r /\ r \in Nat
    BY <1>2, <1>4
  <2>2. hi \in Nat /\ lo \in Nat /\ lo < hi
    BY <2>1, <1>1, EventPlace
  <2>3. lo + c.unread = a /\ lo = c.num_read
    BY <1>1
  <2>4. /\ hi <= lo + c.unread => StepAs(w, r, Yes, hi - lo, <<Received(e, r)>>, Ending(e.code))
        /\ hi > lo + c.unread => Fails(w, r, No) \/ Fails(w, r, Ending(e.code))
    <3>1. Ends[t][n - 1] + c.unread <= Len(Bytes[t])
      BY <2>1, <2>3, <1>1, <1>2
    <3> HIDE DEF n
    <3>2. /\ Ends[t][n] <= Ends[t][n - 1] + c.unread =>
               StepAs(Cut(t, Ends[t][n - 1], c.unread), n - 1, Yes, Ends[t][n] - Ends[t][n - 1],
                      <<Received(t[n], n - 1)>>, Ending(t[n].code))
          /\ Ends[t][n] > Ends[t][n - 1] + c.unread =>
               \/ Fails(Cut(t, Ends[t][n - 1], c.unread), n - 1, No)
               \/ Fails(Cut(t, Ends[t][n - 1], c.unread), n - 1, Ending(t[n].code))
      BY <1>1, <2>1, <3>1, NextEvent
    <3> QED
      BY <3>2, <2>1
  <2>5. ASSUME NEW end, Fails(w, r, end) PROVE StepFailed(t, d, a, OneStep(d, c, r), end)
    BY <2>5, StepFails
  <2>6. ASSUME hi <= a
        PROVE  StepMade(t, d, a, OneStep(d, c, r), hi, Received(e, r), Ending(e.code))
    <3>1. hi - lo \in 0 .. c.unread /\ c.num_read + (hi - lo) = hi
      BY <2>2, <2>3, <2>6, <1>1
    <3> DEFINE ev == Received(e, r)
               k == hi - lo
               end == Ending(e.code)
    <3>2. StepAs(w, r, Yes, k, <<ev>>, end)
      BY <2>2, <2>3, <2>4, <2>6, <1>1
    <3>3. k \in 0 .. c.unread
      BY <3>1
    <3>4. StepAs(Cut(t, c.num_read, c.unread), r, Yes, k, <<ev>>, end)
      BY <3>2
    <3> HIDE DEF ev, k, end
    <3>5. StepMade(t, d, a, OneStep(d, c, r), c.num_read + k, ev, end)
      BY <3>3, <3>4, StepSucceeds
    <3> QED
      BY <3>1, <3>5 DEF ev, k, end
  <2>7. ASSUME a < hi
        PROVE  StepFailed(t, d, a, OneStep(d, c, r), No) \/ StepFailed(t, d, a, OneStep(d, c, r), Ending(e.code))
    <3>1. Fails(w, r, No) \/ Fails(w, r, Ending(e.code))
      BY <2>2, <2>3, <2>4, <2>7, <1>1
    <3> QED
      BY <3>1, <2>5
  <2> QED
    BY <1>4, <2>6, <2>7
<1> QED
  BY <1>2, <1>3, <1>4

\* Between those places nothing is decoded.
LEMMA Between ==
  ASSUME NEW t, NEW d, NEW c, NEW a, Located(t, d, c, a), NEW r \in 0 .. (Len(t) - 1),
         \/ c.num_read < Ends[t][r] /\ (r > 0 => Ends[t][r - 1] <= c.num_read)
         \/ Ends[t][r] < c.num_read /\ a < Ends[t][r + 1]
  PROVE  StepFailed(t, d, a, OneStep(d, c, r), No)
<1> DEFINE p == c.num_read
           u == c.unread
<1>1. /\ t \in Traces /\ p + u = a /\ u \in Nat /\ a \in 0 .. Len(Bytes[t])
      /\ a \in Nat /\ p \in Nat /\ u <= Cap
  BY LocatedIs
<1>2. Len(t) \in Nat /\ Len(Bytes[t]) \in Nat
  BY <1>1, TraceIs, StreamIs
<1>3. p + u <= Len(Bytes[t])
  BY <1>1, <1>2
<1>4. CASE p < Ends[t][r] /\ (r > 0 => Ends[t][r - 1] <= p)
  <2>1. r # 0
    BY <1>1, <1>4, StreamIs
  <2>2. r \in 1 .. (Len(t) - 1) /\ r > 0
    BY <2>1, <1>2
  <2>3. Fails(Cut(t, p, u), r, No)
    <3>1. Ends[t][r - 1] <= p /\ p < Ends[t][r]
      BY <2>2, <1>4
    <3> HIDE DEF p, u
    <3> QED
      BY <1>1, <1>3, <2>2, <3>1, InsideRegistered
  <2> QED
    BY <2>3, StepFails
<1>5. CASE Ends[t][r] < p /\ a < Ends[t][r + 1]
  <2>1. Fails(Cut(t, p, u), r, No)
    <3>1. Ends[t][r] < p /\ p + u < Ends[t][r + 1]
      BY <1>1, <1>5
    <3> HIDE DEF p, u
    <3> QED
      BY <1>1, <3>1, InsideNext
  <2> QED
    BY <2>1, StepFails
<1> QED
  BY <1>4, <1>5

(***************************************************************************)
(* The inductive invariant.                                                *)
(***************************************************************************)
\* How many bytes have entered the ring.
Arrived == given - Len(pending)

End(n) == Ends[trace][n]

Typed ==
  /\ converting \in BOOLEAN /\ trace \in (IF converting THEN Files ELSE Streamed)
  /\ given \in 0 .. Len(Input)
  /\ phase \in {"idle", "search", "decode", "refill", "undefined"}
  /\ rollbacks \in Seq(Cursor)
  /\ registered \in 0 .. Len(trace)
  /\ stream_end \in BOOLEAN

\* The ring holds what has arrived and is not read, pending what follows it.
Holds ==
  /\ Arrived \in 0 .. given
  /\ pending = Span(trace, Arrived, given)
  /\ Located(trace, data, cur, Arrived)

\* A place the decoder goes back to: where the next event begins, or where the
\* last one began.
Behind(p) == p = End(registered) \/ (registered > 0 /\ p = End(registered - 1))

\* A place where the search may be: it passes the last event, and then throws
\* away bytes of the next one only while that is not complete.
Searching(p) ==
  \/ p <= End(registered) /\ (registered > 0 => End(registered - 1) <= p)
  \/ p > End(registered) /\ Arrived < End(registered + 1)

\* The record that loadRollback takes.
Loadable ==
  /\ rollbacks # <<>>
  /\ Located(trace, data, rollbacks[Len(rollbacks)], Arrived)
  /\ Behind(rollbacks[Len(rollbacks)].num_read)

Placed ==
  /\ End(registered) <= Arrived
  /\ phase = "idle" => pending = <<>> /\ Behind(cur.num_read)
  /\ phase = "search" => registered < Len(trace) /\ Searching(cur.num_read)
  /\ phase = "decode" =>
       \/ cur.num_read = End(registered)
       \/ pending # <<>> /\ registered > 0 /\ cur.num_read = End(registered - 1)
  /\ phase = "refill" => Loadable

Delivered ==
  /\ delivered = IF converting THEN <<>> ELSE SentUpTo(registered)
  /\ stream_end => trace[Len(trace)].code = EndStream /\ registered >= Len(trace) - 1

DecoderInv == Typed /\ Holds /\ Placed /\ Delivered

LEMMA InvIs ==
  ASSUME DecoderInv
  PROVE  /\ trace \in Traces /\ Len(trace) \in Nat /\ Len(trace) >= 1
         /\ Len(Input) \in Nat /\ given \in 0 .. Len(Input) /\ Arrived \in 0 .. given
         /\ Arrived \in 0 .. Len(Input) /\ pending = Span(trace, Arrived, given)
         /\ Len(pending) = given - Arrived /\ Located(trace, data, cur, Arrived)
         /\ registered \in 0 .. Len(trace) /\ End(registered) \in Nat /\ End(registered) <= Arrived
<1>1. trace \in Traces /\ given \in 0 .. Len(Input) /\ registered \in 0 .. Len(trace)
  BY DEF DecoderInv, Typed, Traces
<1>2. Len(trace) \in Nat /\ Len(trace) >= 1 /\ Len(Input) \in Nat /\ Ends[trace][registered] \in Nat
  BY <1>1, TraceIs, StreamIs DEF Input
<1>3. /\ Arrived \in 0 .. given /\ pending = Span(trace, Arrived, given)
      /\ Located(trace, data, cur, Arrived) /\ End(registered) <= Arrived
  BY DEF DecoderInv, Holds, Placed
<1>4. Len(Span(trace, Arrived, given)) = given - Arrived
  <2> DEFINE a == Arrived
  <2>1. given \in 0 .. Len(Bytes[trace]) /\ a \in 0 .. given
    BY <1>1, <1>3 DEF Input
  <2> HIDE DEF a
  <2>2. Len(Span(trace, a, given)) = given - a
    BY <1>1, <2>1, SpanIs
  <2> QED
    BY <2>2 DEF a
<1>5. Arrived \in 0 .. Len(Input) 
  <2> DEFINE a == Arrived
             l == Len(Input)
  <2>1. a \in 0 .. given /\ given \in 0 .. l /\ l \in Nat
    BY <1>1, <1>2, <1>3
  <2> HIDE DEF a, l
  <2>2. a \in 0 .. l
    BY <2>1
  <2> QED
    BY <2>2 DEF a, l
<1>6. Len(pending) = given - Arrived
  BY <1>3, <1>4
<1> QED
  BY <1>1, <1>2, <1>3, <1>5, <1>6 DEF End

LEMMA HoldsNext ==
  ASSUME trace' = trace, NEW a, NEW g, given' = g, g \in 0 .. Len(Input), a \in 0 .. g,
         pending' = Span(trace, a, g), Located(trace, data', cur', a)
  PROVE  Holds' /\ Arrived' = a /\ Len(pending') = g - a /\ (pending' = <<>> <=> a = g)
<1>1. trace \in Traces /\ Len(Input) \in Nat /\ g \in 0 .. Len(Bytes[trace])
  BY LocatedIs, StreamIs DEF Input
<1>2. Len(pending') = g - a /\ pending' \in Seq(Byte)
  BY <1>1, SpanIs
<1>3. Arrived' = given' - Len(pending')
  BY DEF Arrived
<1>4. Arrived' = a
  BY <1>1, <1>2, <1>3
<1>5. pending' = <<>> <=> a = g
  <2>1. pending' = <<>> <=> Len(pending') = 0
    BY <1>2
  <2> QED
    BY <1>1, <1>2, <2>1
<1>6. Holds' <=> /\ Arrived' \in 0 .. given' /\ pending' = Span(trace', Arrived', given')
                 /\ Located(trace', data', cur', Arrived')
  BY DEF Holds, Located, Span
<1> QED
  BY <1>2, <1>4, <1>5, <1>6

LEMMA DecoderInit == Init => DecoderInv
<1> SUFFICES ASSUME Init PROVE DecoderInv
  OBVIOUS
<1>1. trace \in Traces /\ converting \in BOOLEAN /\ trace \in (IF converting THEN Files ELSE Streamed)
  BY DEF Init, Traces
<1>2. /\ given = 0 /\ phase = "idle" /\ pending = <<>> /\ data = [i \in Index |-> 0]
      /\ cur = EmptyCursor /\ rollbacks = <<>> /\ registered = 0 /\ stream_end = FALSE /\ delivered = <<>>
  BY DEF Init
<1>3. Len(trace) \in Nat /\ Len(trace) >= 1 /\ Len(Bytes[trace]) \in Nat /\ Ends[trace][0] = 0
  BY <1>1, TraceIs, StreamIs
<1>4. Arrived = 0
  <2>1. given = 0 /\ Len(pending) = 0
    BY DEF Init
  <2> QED
    BY <2>1 DEF Arrived
<1>5. Typed
  <2>1. rollbacks \in Seq(Cursor)
    BY <1>2
  <2>2. given \in 0 .. Len(Input) /\ registered \in 0 .. Len(trace)
    <3>1. given = 0 /\ registered = 0
      BY DEF Init
    <3> QED
      BY <3>1, <1>3 DEF Input
  <2>3. phase \in {"idle", "search", "decode", "refill", "undefined"} /\ stream_end \in BOOLEAN
    BY DEF Init
  <2> QED
    BY <2>1, <2>2, <2>3, <1>1 DEF Typed
<1>6. Located(trace, data, cur, 0)
  <2>1. 0 \in 0 .. Len(Bytes[trace])
    BY <1>3
  <2>2. Upto(trace, 0) \in Seq(Byte) /\ Len(Upto(trace, 0)) = 0
    BY <1>1, <2>1, UptoIs
  <2>3. data \in Storage
    <3>1. 0 \in Byte
      BY OctetAssumption
    <3> QED
      BY <3>1, <1>2 DEF Storage
  <2>4. cur \in Cursor /\ cur.read_pos = 0 /\ cur.write_pos = 0 /\ cur.num_read = 0 /\ cur.unread = 0
    BY <1>2 DEF Cursor, EmptyCursor
  <2>5. 0 \in Index /\ Wrap(0 + 0) = 0
    BY CapAssumption DEF Index, Wrap
  <2>6. R!Describes(cur, data, Upto(trace, 0))
    <3> DEFINE s == Upto(trace, 0)
    <3>1. Len(s) = 0
      BY <2>2
    <3> HIDE DEF s
    <3>2. cur.read_pos \in R!Index /\ cur.unread <= Cap /\ R!Total(cur) = Len(s)
          /\ cur.write_pos = R!Wrap(cur.read_pos + cur.unread)
      BY <2>4, <2>5, <3>1, SameRing, CapAssumption DEF R!Total
    <3>3. \A i \in 0 .. (cur.unread - 1) : data[R!Wrap(cur.read_pos + i)] = s[cur.num_read + i + 1]
      BY <2>4
    <3>4. R!Describes(cur, data, s)
      BY <3>2, <3>3 DEF R!Describes
    <3> QED
      BY <3>4 DEF s
  <2> QED
    BY <1>1, <2>1, <2>3, <2>4, <2>6 DEF Located
<1>7. Holds
  <2>1. Span(trace, 0, 0) = <<>>
    <3>1. Len(Span(trace, 0, 0)) = 0 /\ Span(trace, 0, 0) \in Seq(Byte)
      <4>1. 0 \in 0 .. Len(Bytes[trace]) /\ 0 \in 0 .. 0 /\ 0 - 0 = 0
        BY <1>3
      <4> QED
        BY <1>1, <4>1, SpanIs
    <3> QED
      BY <3>1
  <2> QED
    BY <2>1, <1>2, <1>4, <1>6 DEF Holds
<1>8. Placed
  <2>1. End(registered) = 0 /\ cur.num_read = 0
    BY <1>2, <1>3 DEF End, EmptyCursor
  <2> QED
    BY <2>1, <1>2, <1>4 DEF Placed, Behind
<1>9. Delivered
  <2>1. SentUpTo(0) = <<>>
    BY DEF SentUpTo
  <2> QED
    BY <2>1, <1>2 DEF Delivered
<1> QED
  BY <1>5, <1>7, <1>8, <1>9 DEF DecoderInv

\* After populate: n bytes more are in the ring.
Populated(t, c, a, g, d2, c2, p2) ==
  \E n \in 0 .. (g - a) : /\ n = ToWrite(c, g - a) /\ Located(t, d2, c2, a + n)
                          /\ c2.num_read = c.num_read /\ c2.unread = c.unread + n
                          /\ p2 = Span(t, a + n, g) /\ a + n \in 0 .. g

LEMMA PopulateStep ==
  ASSUME NEW t, NEW d, NEW c, NEW a, Located(t, d, c, a), NEW g \in 0 .. Len(Bytes[t]), a <= g,
         NEW buff, buff = Span(t, a, g), NEW d2, d2 = Filled(d, c, buff),
         NEW c2, c2 = AfterPopulate(c, buff),
         NEW p2, p2 = SubSeq(buff, ToWrite(c, Len(buff)) + 1, Len(buff))
  PROVE  Len(buff) = g - a /\ Populated(t, c, a, g, d2, c2, p2)
<1> DEFINE n == ToWrite(c, g - a)
<1>1. /\ t \in Traces /\ d \in Storage /\ c \in Cursor /\ a \in Nat /\ R!Describes(c, d, Upto(t, a))
      /\ Len(Bytes[t]) \in Nat /\ g \in Nat /\ a \in 0 .. g
  BY LocatedIs, StreamIs
<1>2. /\ n \in 0 .. (g - a) /\ Len(Span(t, a, g)) = g - a
      /\ Filled(d, c, Span(t, a, g)) \in Storage /\ AfterPopulate(c, Span(t, a, g)) \in Cursor
      /\ AfterPopulate(c, Span(t, a, g)).num_read = c.num_read
      /\ AfterPopulate(c, Span(t, a, g)).unread = c.unread + n
      /\ R!Describes(AfterPopulate(c, Span(t, a, g)), Filled(d, c, Span(t, a, g)), Upto(t, a + n))
      /\ SubSeq(Span(t, a, g), n + 1, Len(Span(t, a, g))) = Span(t, a + n, g)
  <2>1. PopulateGives(t, d, c, a, g, n)
    BY <1>1, PopulateHolds
  <2> HIDE DEF n
  <2> QED
    BY <2>1 DEF PopulateGives
<1>3. /\ Len(buff) = g - a /\ d2 \in Storage /\ c2 \in Cursor /\ c2.num_read = c.num_read
      /\ c2.unread = c.unread + n /\ R!Describes(c2, d2, Upto(t, a + n)) /\ p2 = Span(t, a + n, g)
  BY <1>2
<1> HIDE DEF n
<1>4. n \in 0 .. (g - a) /\ a + n \in 0 .. g /\ a + n \in 0 .. Len(Bytes[t])
  BY <1>1, <1>2
<1>5. Located(t, d2, c2, a + n)
  BY <1>1, <1>3, <1>4 DEF Located
<1> QED
  BY <1>3, <1>4, <1>5 DEF n, Populated

LEMMA EndBefore ==
  ASSUME DecoderInv, registered > 0
  PROVE  End(registered - 1) < End(registered) /\ End(registered - 1) \in Nat /\ End(registered) \in Nat
         /\ registered \in 1 .. Len(trace)
<1>1. trace \in Traces /\ registered \in 1 .. Len(trace)
  BY InvIs
<1> QED
  BY <1>1, EventPlace DEF End

LEMMA EndNext ==
  ASSUME DecoderInv, registered < Len(trace)
  PROVE  /\ End(registered) < End(registered + 1) /\ End(registered + 1) \in Nat
         /\ registered + 1 \in 0 .. Len(trace) /\ registered \in 0 .. (Len(trace) - 1)
         /\ registered + 1 \in 1 .. Len(trace) /\ (registered + 1) - 1 = registered
<1> DEFINE n == registered + 1
<1>1. trace \in Traces /\ n \in 1 .. Len(trace) /\ n - 1 = registered /\ n \in 0 .. Len(trace)
      /\ registered \in 0 .. (Len(trace) - 1)
  BY InvIs
<1> HIDE DEF n
<1>2. Ends[trace][n - 1] < Ends[trace][n] /\ Ends[trace][n] \in Nat
  BY <1>1, EventPlace
<1> QED
  BY <1>1, <1>2 DEF End, n

(***************************************************************************)
(* A call begins.                                                          *)
(***************************************************************************)
LEMMA EnterCallInv ==
  ASSUME DecoderInv, NEW size \in Nat, size >= 1, given + size <= Len(Input), EnterCall(size)
  PROVE  DecoderInv'
<1> DEFINE g == given + size
           a == given
           buff == Span(trace, a, g)
           t == trace
<1>1. /\ t \in Traces /\ Len(Input) \in Nat /\ a \in Nat /\ registered \in 0 .. Len(t) /\ Len(t) \in Nat
      /\ Arrived \in 0 .. given /\ Located(t, data, cur, Arrived) /\ End(registered) \in Nat
      /\ End(registered) <= Arrived /\ Len(pending) = given - Arrived
  BY InvIs
<1>2. /\ phase = "idle" /\ phase' = "search" /\ given' = g
      /\ UNCHANGED <<trace, converting, rollbacks, registered, stream_end, delivered>>
  BY DEF EnterCall, decoder
<1>3. pending = <<>> /\ Behind(cur.num_read)
  BY <1>2 DEF DecoderInv, Placed
<1>4. Arrived = a
  <2>1. Len(pending) = 0
    BY <1>3
  <2> QED
    BY <2>1, <1>1 DEF Arrived
<1>5. g \in 0 .. Len(Input) /\ g \in 0 .. Len(Bytes[t]) /\ a <= g /\ g - a = size /\ a < g
  BY <1>1 DEF Input
<1>6. Located(t, data, cur, a)
  BY <1>1, <1>4
<1>8. /\ data' = Filled(data, cur, buff) /\ cur' = AfterPopulate(cur, buff)
      /\ pending' = SubSeq(buff, ToWrite(cur, Len(buff)) + 1, Len(buff))
  BY DEF EnterCall, Populate, Span, Input
<1>9. PICK n \in 0 .. (g - a) : /\ Located(t, data', cur', a + n) /\ cur'.num_read = cur.num_read
                                /\ pending' = Span(t, a + n, g) /\ a + n \in 0 .. g
  <2>1. buff = Span(t, a, g)
    OBVIOUS
  <2>2. Populated(t, cur, a, g, data', cur', pending')
    <3> HIDE DEF g, a, buff, t
    <3> QED
      BY <1>5, <1>6, <1>8, <2>1, PopulateStep
  <2> QED
    BY <2>2 DEF Populated
<1>12. Holds' /\ Arrived' = a + n
  <2> DEFINE k == a + n
  <2>1. trace' = trace /\ given' = g /\ g \in 0 .. Len(Input) /\ k \in 0 .. g
        /\ pending' = Span(trace, k, g) /\ Located(trace, data', cur', k)
    BY <1>2, <1>5, <1>9
  <2> HIDE DEF k, g
  <2>2. Holds' /\ Arrived' = k
    BY <2>1, HoldsNext
  <2> QED
    BY <2>2 DEF k
<1>13. Typed'
  <2>1. given' \in 0 .. Len(Input)'
    BY <1>2, <1>5 DEF Input
  <2> QED
    BY <2>1, <1>2 DEF DecoderInv, Typed
<1>14. registered < Len(t)
  <2>1. Ends[t][Len(t)] = Len(Bytes[t])
    BY <1>1, StreamIs
  <2>2. Ends[t][registered] <= a
    BY <1>1, <1>4 DEF End
  <2>3. registered # Len(t)
    BY <1>1, <1>5, <2>1, <2>2 DEF Input
  <2> QED
    BY <1>1, <2>3
<1>15. Placed'
  <2>1. End(registered)' = End(registered)
    BY <1>2 DEF End
  <2>2. End(registered)' <= Arrived'
    BY <1>1, <1>4, <1>5, <1>9, <1>12, <2>1
  <2>3. cur.num_read <= End(registered) /\ (registered > 0 => End(registered - 1) <= cur.num_read)
    BY <1>1, <1>3, EndBefore DEF Behind
  <2>4. Searching(cur.num_read)'
    BY <1>2, <1>9, <2>3 DEF Searching, End
  <2> QED
    BY <2>2, <2>4, <1>2, <1>14 DEF Placed
<1>16. Delivered'
  BY <1>2 DEF DecoderInv, Delivered, SentUpTo, Sent
<1> QED
  BY <1>12, <1>13, <1>15, <1>16 DEF DecoderInv

(***************************************************************************)
(* The inner loop has ended: back to the last record, and on.              *)
(***************************************************************************)
\* What Refill does with the record it loads.
Reloaded(top) ==
  /\ Located(trace, data, top, Arrived) /\ Behind(top.num_read)
  /\ data' = Filled(data, top, pending) /\ cur' = AfterPopulate(top, pending)
  /\ pending' = SubSeq(pending, ToWrite(top, Len(pending)) + 1, Len(pending))
  /\ IF ToWrite(top, Len(pending)) < Len(pending)
     THEN phase' = "decode" /\ rollbacks' = Front(rollbacks)
     ELSE phase' = "idle" /\ rollbacks' = <<>>
  /\ UNCHANGED <<trace, converting, given, registered, stream_end, delivered>>

LEMMA ReloadedIs ==
  ASSUME DecoderInv, Refill
  PROVE  Reloaded(rollbacks[Len(rollbacks)]) /\ rollbacks \in Seq(Cursor) /\ rollbacks # <<>>
<1>1. phase = "refill"
  BY DEF Refill
<1>2. Loadable /\ rollbacks \in Seq(Cursor)
  BY <1>1 DEF DecoderInv, Placed, Typed
<1>3. Located(trace, data, rollbacks[Len(rollbacks)], Arrived) /\ Behind(rollbacks[Len(rollbacks)].num_read)
      /\ rollbacks # <<>>
  BY <1>2 DEF Loadable
<1> QED
  BY <1>2, <1>3 DEF Refill, Reloaded, decoder

LEMMA RefillStep ==
  ASSUME DecoderInv, NEW top, Reloaded(top)
  PROVE  \E n \in 0 .. (given - Arrived) :
           /\ n = ToWrite(top, Len(pending)) /\ Arrived + n \in 0 .. given
           /\ Holds' /\ Arrived' = Arrived + n /\ (pending' = <<>> <=> n = Len(pending))
           /\ cur'.num_read = top.num_read /\ cur'.unread = top.unread + n
<1> DEFINE t == trace
           a == Arrived
           g == given
           buff == pending
<1>1. /\ t \in Traces /\ a \in 0 .. g /\ g \in 0 .. Len(Bytes[t]) /\ buff = Span(t, a, g)
      /\ Len(buff) = g - a /\ g \in 0 .. Len(Input) /\ g \in Nat /\ a \in Nat
  <2>1. /\ t \in Traces /\ a \in 0 .. g /\ g \in 0 .. Len(Input) /\ buff = Span(t, a, g)
        /\ Len(buff) = g - a /\ Len(Input) \in Nat
    BY InvIs
  <2> HIDE DEF a
  <2> QED
    BY <2>1 DEF Input
<1>2. /\ Located(t, data, top, a) /\ data' = Filled(data, top, buff) /\ cur' = AfterPopulate(top, buff)
      /\ pending' = SubSeq(buff, ToWrite(top, Len(buff)) + 1, Len(buff))
      /\ trace' = trace /\ given' = g
  BY DEF Reloaded
<1> HIDE DEF a, buff
<1>3. Populated(t, top, a, g, data', cur', pending')
  <2>1. a <= g
    BY <1>1
  <2> HIDE DEF t, g
  <2> QED
    BY <1>1, <1>2, <2>1, PopulateStep
<1>4. PICK n \in 0 .. (g - a) : /\ n = ToWrite(top, g - a) /\ Located(t, data', cur', a + n)
                                /\ cur'.num_read = top.num_read /\ cur'.unread = top.unread + n
                                /\ pending' = Span(t, a + n, g) /\ a + n \in 0 .. g
  BY <1>3 DEF Populated
<1>5. Holds' /\ Arrived' = a + n /\ Len(pending') = g - (a + n) /\ (pending' = <<>> <=> a + n = g)
  <2> DEFINE k == a + n
  <2>1. k \in 0 .. g /\ pending' = Span(trace, k, g) /\ Located(trace, data', cur', k)
    BY <1>4
  <2> HIDE DEF k
  <2>2. Holds' /\ Arrived' = k /\ Len(pending') = g - k /\ (pending' = <<>> <=> k = g)
    BY <1>1, <1>2, <2>1, HoldsNext
  <2> QED
    BY <2>2 DEF k
<1>6. a + n = g <=> n = Len(buff)
  BY <1>1
<1> QED
  BY <1>1, <1>4, <1>5, <1>6 DEF a, buff

LEMMA FrontIs ==
  ASSUME NEW D, NEW s \in Seq(D), s # <<>>
  PROVE  Front(s) \in Seq(D)
<1>1. Len(s) \in Nat /\ Len(s) >= 1
  BY EmptySeq
<1>2. SubSeq(s, 1, Len(s) - 1) \in Seq(D)
  BY <1>1, SubSeqProperties
<1> QED
  BY <1>2 DEF Front

LEMMA RefillInv ==
  ASSUME DecoderInv, Refill
  PROVE  DecoderInv'
<1> DEFINE top == rollbacks[Len(rollbacks)]
<1>1. Reloaded(top) /\ rollbacks \in Seq(Cursor) /\ rollbacks # <<>>
  BY ReloadedIs
<1> HIDE DEF top
<1>2. PICK n \in 0 .. (given - Arrived) :
           /\ n = ToWrite(top, Len(pending)) /\ Arrived + n \in 0 .. given
           /\ Holds' /\ Arrived' = Arrived + n /\ (pending' = <<>> <=> n = Len(pending))
           /\ cur'.num_read = top.num_read
  BY <1>1, RefillStep
<1>3. /\ Behind(top.num_read)
      /\ IF n < Len(pending) THEN phase' = "decode" /\ rollbacks' = Front(rollbacks)
                             ELSE phase' = "idle" /\ rollbacks' = <<>>
      /\ UNCHANGED <<trace, converting, given, registered, stream_end, delivered>>
  BY <1>1, <1>2 DEF Reloaded
<1>4. /\ Len(pending) = given - Arrived /\ End(registered) \in Nat /\ End(registered) <= Arrived
      /\ Arrived \in 0 .. given /\ given \in Nat
  BY InvIs
<1>5. Typed'
  <2>1. rollbacks' \in Seq(Cursor)
    <3>1. Front(rollbacks) \in Seq(Cursor)
      BY <1>1, FrontIs
    <3>2. <<>> \in Seq(Cursor)
      OBVIOUS
    <3> QED
      BY <1>3, <3>1, <3>2
  <2>2. phase' \in {"idle", "search", "decode", "refill", "undefined"}
    BY <1>3
  <2>3. Input' = Input
    BY <1>3 DEF Input
  <2> QED
    BY <1>3, <2>1, <2>2, <2>3 DEF DecoderInv, Typed
<1>6. Placed'
  <2>1. \A x : End(x)' = End(x)
    BY <1>3 DEF End
  <2>2. End(registered)' <= Arrived'
    <3> DEFINE a == Arrived
    <3>1. n \in Nat /\ a \in Nat /\ End(registered) <= a /\ End(registered) \in Nat /\ a + n >= a
      BY <1>2, <1>4
    <3>2. End(registered) <= a + n
      <4> HIDE DEF a
      <4> QED
        BY <3>1
    <3>3. End(registered)' = End(registered)
      BY <1>3 DEF End
    <3> QED
      BY <3>2, <3>3, <1>2
  <2>3. Behind(cur.num_read)'
    BY <1>2, <1>3 DEF Behind, End
  <2>4. CASE n < Len(pending)
    <3>1. phase' = "decode" /\ pending' # <<>>
      BY <2>4, <1>2, <1>3, <1>4
    <3> QED
      BY <2>2, <2>3, <3>1 DEF Placed, Behind
  <2>5. CASE ~(n < Len(pending))
    <3>1. n = Len(pending)
      BY <2>5, <1>2, <1>4
    <3>2. phase' = "idle" /\ pending' = <<>>
      BY <3>1, <2>5, <1>2, <1>3
    <3> QED
      BY <2>2, <2>3, <3>2 DEF Placed
  <2> QED
    BY <2>4, <2>5
<1>7. Delivered'
  BY <1>3 DEF DecoderInv, Delivered, SentUpTo, Sent
<1> QED
  BY <1>2, <1>5, <1>6, <1>7 DEF DecoderInv

(***************************************************************************)
(* The search: what a trial finds at the place where it is.                *)
(***************************************************************************)
LEMMA OneByteOn ==
  ASSUME NEW t, NEW d, NEW c, NEW a, Located(t, d, c, a), c.unread # 0
  PROVE  Located(t, d, AfterNext(c), a) /\ AfterNext(c).num_read = c.num_read + 1
         /\ AfterNext(c).unread = c.unread - 1
<1>1. /\ c \in Cursor /\ c.unread \in Nat /\ R!Describes(c, d, Upto(t, a)) /\ 1 \in 0 .. c.unread
      /\ t \in Traces /\ d \in Storage /\ a \in 0 .. Len(Bytes[t])
  BY LocatedIs
<1>2. AfterNext(c) = Consumed(c, 1)
  <2>1. c \in R!Cursor /\ c.read_pos \in R!Index
    BY <1>1, SameRing DEF R!Describes
  <2>2. R!AfterNext(c) = [c EXCEPT !.read_pos = R!Wrap(c.read_pos + 1), !.num_read = @ + 1, !.unread = @ - 1]
    BY <2>1, RingIsRing, R!AfterNextIsConsume
  <2>3. R!AfterNext(c) = AfterNext(c) /\ R!Wrap(c.read_pos + 1) = Wrap(c.read_pos + 1)
    BY SameRing
  <2> QED
    BY <2>2, <2>3 DEF Consumed
<1>3. Consumed(c, 1) \in Cursor /\ R!Describes(Consumed(c, 1), d, Upto(t, a))
      /\ Consumed(c, 1).num_read = c.num_read + 1
  BY <1>1, ConsumedLocated
<1>4. Consumed(c, 1).unread = c.unread - 1
  BY <1>1 DEF Consumed, Cursor
<1> QED
  BY <1>1, <1>2, <1>3, <1>4 DEF Located

\* The last event of the trace is the one that ends the stream, if any is.
LEMMA EndingIsLast ==
  ASSUME DecoderInv, registered < Len(trace), Ending(trace[registered + 1].code) = Yes
  PROVE  trace[Len(trace)].code = EndStream /\ registered + 1 = Len(trace)
<1> DEFINE n == registered + 1
<1>1. trace \in Traces /\ n \in 1 .. Len(trace)
  BY InvIs, EndNext
<1>2. trace[n].code = EndStream
  BY DEF Ending, Yes, No
<1> HIDE DEF n
<1>3. n = Len(trace)
  BY <1>1, <1>2, TraceIs
<1> QED
  BY <1>2, <1>3 DEF n

EndIsLast(end) == end => trace[Len(trace)].code = EndStream /\ registered >= Len(trace) - 1

LEMMA EndingAllowed ==
  ASSUME DecoderInv, NEW end, end = No \/ (registered < Len(trace) /\ end = Ending(trace[registered + 1].code))
  PROVE  EndIsLast(end) /\ end \in BOOLEAN
<1>1. registered \in Nat /\ Len(trace) \in Nat
  BY InvIs
<1>2. CASE end = No
  BY <1>2 DEF No, EndIsLast
<1>3. CASE registered < Len(trace) /\ end = Ending(trace[registered + 1].code)
  <2>1. end \in BOOLEAN
    BY <1>3 DEF Ending, Yes, No
  <2>2. ASSUME end PROVE trace[Len(trace)].code = EndStream /\ registered + 1 = Len(trace)
    <3>1. end = Yes
      BY <2>1, <2>2 DEF Yes
    <3> QED
      BY <1>3, <3>1, EndingIsLast
  <2> QED
    BY <1>1, <2>1, <2>2 DEF EndIsLast
<1> QED
  BY <1>2, <1>3

\* What a trial finds at a place where the search may be.
LEMMA TrialIs ==
  ASSUME DecoderInv, registered < Len(trace), Searching(cur.num_read)
  PROVE  LET step == OneStep(data, cur, registered)
         IN  /\ EndIsLast(step.end) /\ step.end \in BOOLEAN
             /\ \/ step.ok = Yes /\ cur.num_read = End(registered) /\ End(registered + 1) <= Arrived
                \/ step.ok = No /\ (cur.num_read < End(registered) \/ Arrived < End(registered + 1))
<1> DEFINE step == OneStep(data, cur, registered)
           p == cur.num_read
           r == registered
           a == Arrived
           t == trace
<1>1. /\ t \in Traces /\ Len(t) \in Nat /\ r \in 0 .. Len(t) /\ Located(t, data, cur, a) /\ End(r) \in Nat
      /\ a \in Nat
  BY InvIs, LocatedIs
<1>2. /\ End(r) < End(r + 1) /\ End(r + 1) \in Nat /\ r \in 0 .. (Len(t) - 1)
  BY EndNext
<1>3. p \in Nat
  BY <1>1, LocatedIs
<1>4. CASE p = End(r)
  <2>1. cur.num_read = Ends[t][r] /\ End(r + 1) = Ends[t][r + 1]
    BY <1>4 DEF End
  <2>2. CASE End(r + 1) <= a
    <3>1. StepMade(t, data, a, step, Ends[t][r + 1], Received(t[r + 1], r), Ending(t[r + 1].code))
      <4> HIDE DEF t, a
      <4> QED
        BY <1>1, <2>1, <2>2, AtNext DEF t
    <3>2. step.ok = Yes /\ step.end = Ending(t[r + 1].code)
      BY <3>1 DEF StepMade
    <3>3. EndIsLast(step.end) /\ step.end \in BOOLEAN
      <4> HIDE DEF step
      <4> QED
        BY <3>2, EndingAllowed
    <3> QED
      BY <3>2, <3>3, <1>4, <2>2
  <2>3. CASE a < End(r + 1)
    <3>1. \/ StepFailed(t, data, a, step, No)
          \/ StepFailed(t, data, a, step, Ending(t[r + 1].code))
      <4> HIDE DEF t, a
      <4> QED
        BY <1>1, <2>1, <2>3, AtNext DEF t
    <3>2. step.ok = No /\ (step.end = No \/ step.end = Ending(t[r + 1].code))
      BY <3>1 DEF StepFailed
    <3>3. EndIsLast(step.end) /\ step.end \in BOOLEAN
      <4> HIDE DEF step
      <4> QED
        BY <3>2, EndingAllowed
    <3> QED
      BY <3>2, <3>3, <2>3
  <2> QED
    BY <1>1, <1>2, <2>2, <2>3
<1>5. CASE p # End(r)
  <2>1. \/ p < End(r) /\ (r > 0 => End(r - 1) <= p)
        \/ End(r) < p /\ a < End(r + 1)
    BY <1>1, <1>3, <1>5 DEF Searching
  <2>2. StepFailed(t, data, a, step, No)
    <3>1. \/ cur.num_read < Ends[t][r] /\ (r > 0 => Ends[t][r - 1] <= cur.num_read)
          \/ Ends[t][r] < cur.num_read /\ a < Ends[t][r + 1]
      BY <2>1 DEF End
    <3> HIDE DEF t, a
    <3> QED
      BY <1>1, <1>2, <3>1, Between DEF t
  <2>3. step.ok = No /\ step.end = No
    BY <2>2 DEF StepFailed
  <2>4. EndIsLast(step.end) /\ step.end \in BOOLEAN
    <3> HIDE DEF step
    <3> QED
      BY <2>3, EndingAllowed
  <2> QED
    BY <2>1, <2>3, <2>4
<1> QED
  BY <1>4, <1>5

\* The end of the stream seen by a step keeps Delivered when nothing is passed on.
LEMMA DeliveredNext ==
  ASSUME DecoderInv, NEW end, EndIsLast(end), stream_end' = (stream_end \/ end),
         UNCHANGED <<trace, converting, registered, delivered>>
  PROVE  Delivered'
<1>1. delivered = IF converting THEN <<>> ELSE SentUpTo(registered)
  BY DEF DecoderInv, Delivered
<1>2. SentUpTo(registered)' = SentUpTo(registered)
  BY DEF SentUpTo, Sent
<1>3. EndIsLast(stream_end)
  BY DEF DecoderInv, Delivered, EndIsLast
<1>4. (stream_end => trace[Len(trace)].code = EndStream /\ registered >= Len(trace) - 1)'
  <2>1. EndIsLast(stream_end')
    BY <1>3 DEF EndIsLast
  <2> QED
    BY <2>1 DEF EndIsLast
<1> QED
  BY <1>1, <1>2, <1>4 DEF Delivered

LEMMA TryStepsInv ==
  ASSUME DecoderInv, TrySteps
  PROVE  DecoderInv'
<1> DEFINE step == OneStep(data, cur, registered)
           p == cur.num_read
           r == registered
           a == Arrived
<1>1. /\ trace \in Traces /\ Len(trace) \in Nat /\ r \in 0 .. Len(trace) /\ Located(trace, data, cur, a)
      /\ End(r) \in Nat /\ End(r) <= a /\ a \in 0 .. given /\ pending = Span(trace, a, given)
      /\ given \in 0 .. Len(Input) /\ Len(Input) \in Nat
  BY InvIs
<1>2. /\ phase = "search" /\ stream_end' = (stream_end \/ step.end)
      /\ \/ step.ok /\ phase' = "decode" /\ rollbacks' = Append(rollbacks, cur) /\ cur' = cur
         \/ /\ ~step.ok /\ rollbacks' = rollbacks
            /\ cur' = IF cur.unread = 0 THEN cur ELSE AfterNext(cur)
            /\ phase' = IF cur'.unread > 0 THEN "search" ELSE "undefined"
      /\ UNCHANGED <<trace, converting, given, pending, data, registered, delivered>>
  BY DEF TrySteps
<1>3. r < Len(trace) /\ Searching(p)
  BY <1>2 DEF DecoderInv, Placed
<1>4. /\ EndIsLast(step.end) /\ step.end \in BOOLEAN
      /\ \/ step.ok = Yes /\ p = End(r) /\ End(r + 1) <= a
         \/ step.ok = No /\ (p < End(r) \/ a < End(r + 1))
  BY <1>3, TrialIs
<1> HIDE DEF step
<1>5. /\ cur \in Cursor /\ p \in Nat /\ cur.unread \in Nat
  BY <1>1, LocatedIs
<1>6. Located(trace, data, cur', a) /\ cur' \in Cursor
      /\ (~step.ok => cur'.num_read = p \/ cur'.num_read = p + 1)
      /\ (~step.ok /\ cur'.num_read = p => phase' = "undefined")
  <2>1. CASE step.ok
    BY <2>1, <1>1, <1>2, <1>5
  <2>2. CASE ~step.ok /\ cur.unread = 0
    <3>1. cur' = cur /\ phase' = "undefined"
      BY <2>2, <1>2
    <3> QED
      BY <3>1, <2>2, <1>1, <1>5
  <2>3. CASE ~step.ok /\ cur.unread # 0
    <3>1. cur' = AfterNext(cur)
      BY <2>3, <1>2
    <3>2. Located(trace, data, AfterNext(cur), a) /\ AfterNext(cur).num_read = p + 1
      <4> HIDE DEF a
      <4> QED
        BY <2>3, <1>1, OneByteOn
    <3>3. cur' \in Cursor
      BY <3>1, <3>2, LocatedIs
    <3> QED
      BY <3>1, <3>2, <3>3, <2>3, <1>5
  <2> QED
    BY <2>1, <2>2, <2>3
<1>7. Holds' /\ Arrived' = a
  <2> HIDE DEF a
  <2>1. trace' = trace /\ given' = given /\ pending' = Span(trace, a, given) /\ Located(trace, data', cur', a)
    BY <1>1, <1>2, <1>6
  <2> QED
    BY <1>1, <2>1, HoldsNext
<1>8. Typed'
  <2>1. rollbacks' \in Seq(Cursor)
    <3>1. rollbacks \in Seq(Cursor) /\ Append(rollbacks, cur) \in Seq(Cursor)
      <4>1. rollbacks \in Seq(Cursor)
        BY DEF DecoderInv, Typed
      <4> QED
        BY <4>1, <1>5
    <3> QED
      BY <3>1, <1>2
  <2>2. phase' \in {"idle", "search", "decode", "refill", "undefined"}
    BY <1>2
  <2>3. stream_end' \in BOOLEAN
    <3>1. stream_end \in BOOLEAN
      BY DEF DecoderInv, Typed
    <3> QED
      BY <3>1, <1>2, <1>4
  <2>4. Input' = Input
    BY <1>2 DEF Input
  <2> QED
    BY <1>2, <2>1, <2>2, <2>3, <2>4 DEF DecoderInv, Typed
<1>9. Placed'
  <2>1. End(r)' = End(r) /\ End(r + 1)' = End(r + 1) /\ End(r - 1)' = End(r - 1) /\ registered' = r
    BY <1>2 DEF End
  <2>2. End(registered)' <= Arrived'
    BY <2>1, <1>1, <1>7
  <2>3. CASE step.ok
    <3>1. phase' = "decode" /\ cur'.num_read = End(r)
      BY <2>3, <1>2, <1>4 DEF No
    <3> QED
      BY <2>1, <2>2, <3>1 DEF Placed
  <2>4. CASE ~step.ok
    <3>1. phase' \in {"search", "undefined"}
      BY <2>4, <1>2
    <3>2. ASSUME phase' = "search" PROVE Searching(cur.num_read)'
      <4>1. cur'.num_read = p + 1
        BY <2>4, <3>2, <1>6
      <4>2. p < End(r) \/ a < End(r + 1)
        BY <2>4, <1>4 DEF Yes
      <4>3. End(r) < End(r + 1) /\ End(r + 1) \in Nat
        BY <1>3, EndNext
      <4>4. r > 0 => End(r - 1) \in Nat
        BY EndBefore
      <4>5. \/ p + 1 <= End(r) /\ (r > 0 => End(r - 1) <= p + 1)
            \/ p + 1 > End(r) /\ a < End(r + 1)
        BY <1>1, <1>3, <1>5, <4>2, <4>3, <4>4 DEF Searching
      <4> QED
        BY <4>1, <4>5, <2>1, <1>7 DEF Searching
    <3> QED
      BY <1>2, <1>3, <2>2, <3>1, <3>2 DEF Placed
  <2> QED
    BY <2>3, <2>4
<1>10. Delivered'
  BY <1>2, <1>4, DeliveredNext
<1> QED
  BY <1>7, <1>8, <1>9, <1>10 DEF DecoderInv

(***************************************************************************)
(* The inner loop: where it is, the next event is decoded if it has        *)
(* arrived, and otherwise nothing is.                                      *)
(***************************************************************************)
EventMade(step) ==
  /\ registered < Len(trace) /\ cur.num_read = End(registered) /\ End(registered + 1) <= Arrived
  /\ step.ok = Yes /\ step.event[1] = Sent(registered + 1) /\ step.cur.num_read = End(registered + 1)

NothingMade(step) ==
  /\ step.ok = No
  /\ cur.num_read = End(registered) => registered = Len(trace) \/ Arrived < End(registered + 1)

LEMMA LocatedStep ==
  ASSUME NEW t, NEW d, NEW c, NEW a, Located(t, d, c, a), NEW k,
         k \in Cursor, R!Describes(k, d, Upto(t, a))
  PROVE  Located(t, d, k, a)
BY DEF Located

LEMMA ReceivedIsSent ==
  ASSUME NEW n \in Nat
  PROVE  Received(trace[n + 1], n) = Sent(n + 1)
<1>1. (n + 1) - 1 = n
  OBVIOUS
<1> QED
  BY <1>1 DEF Received, Sent

LEMMA DecodeFinds ==
  ASSUME DecoderInv, phase = "decode"
  PROVE  LET step == OneStep(data, cur, registered)
         IN  /\ EndIsLast(step.end) /\ step.end \in BOOLEAN
             /\ Located(trace, data, step.cur, Arrived)
             /\ EventMade(step) \/ NothingMade(step)
<1> DEFINE step == OneStep(data, cur, registered)
           r == registered
           a == Arrived
           t == trace
<1>1. /\ t \in Traces /\ Len(t) \in Nat /\ r \in 0 .. Len(t) /\ Located(t, data, cur, a) /\ End(r) \in Nat
      /\ a \in Nat /\ r \in Nat
  BY InvIs, LocatedIs
<1>2. cur.num_read = End(r) \/ (r > 0 /\ cur.num_read = End(r - 1))
  BY DEF DecoderInv, Placed
<1>3. ASSUME NEW end, StepFailed(t, data, a, step, end),
             end = No \/ (r < Len(t) /\ end = Ending(t[r + 1].code))
      PROVE  /\ EndIsLast(step.end) /\ step.end \in BOOLEAN /\ Located(t, data, step.cur, a) /\ step.ok = No
  <2> HIDE DEF step, a
  <2>1. step.ok = No /\ step.end = end /\ step.cur \in Cursor /\ R!Describes(step.cur, data, Upto(t, a))
    BY <1>3 DEF StepFailed
  <2>2. Located(t, data, step.cur, a)
    <3> HIDE DEF t
    <3> QED
      BY <1>1, <2>1, LocatedStep
  <2>3. EndIsLast(end) /\ end \in BOOLEAN
    BY <1>3, EndingAllowed
  <2> QED
    BY <2>1, <2>2, <2>3
<1>4. CASE cur.num_read = End(r) /\ r < Len(t) /\ End(r + 1) <= a
  <2>1. cur.num_read = Ends[t][r] /\ End(r + 1) = Ends[t][r + 1] /\ Ends[t][r + 1] <= a
    BY <1>4 DEF End
  <2>2. StepMade(t, data, a, step, Ends[t][r + 1], Received(t[r + 1], r), Ending(t[r + 1].code))
    <3> HIDE DEF t, a
    <3> QED
      BY <1>1, <1>4, <2>1, AtNext DEF t
  <2>3. /\ step.ok = Yes /\ step.end = Ending(t[r + 1].code) /\ step.event[1] = Received(t[r + 1], r)
        /\ step.cur.num_read = Ends[t][r + 1]
        /\ step.cur \in Cursor /\ R!Describes(step.cur, data, Upto(t, a))
    <3> HIDE DEF t, a, step
    <3> QED
      BY <2>2 DEF StepMade
  <2>4. Located(t, data, step.cur, a)
    <3> HIDE DEF step, a, t
    <3> QED
      BY <1>1, <2>3, LocatedStep
  <2>5. EndIsLast(step.end) /\ step.end \in BOOLEAN
    <3> HIDE DEF step
    <3> QED
      BY <1>4, <2>3, EndingAllowed
  <2>6. step.event[1] = Sent(r + 1)
    BY <1>1, <2>3, ReceivedIsSent
  <2>7. EventMade(step)
    BY <1>4, <2>1, <2>3, <2>6 DEF EventMade
  <2> QED
    BY <2>4, <2>5, <2>7
<1>5. CASE cur.num_read = End(r) /\ ~(r < Len(t) /\ End(r + 1) <= a)
  <2>1. r = Len(t) \/ a < End(r + 1)
    <3>1. r < Len(t) => End(r + 1) \in Nat
      BY EndNext
    <3> QED
      BY <1>1, <1>5, <3>1
  <2>2. cur.num_read = Ends[t][r] /\ (r = Len(t) \/ a < Ends[t][r + 1])
    BY <1>5, <2>1 DEF End
  <2>3. \/ StepFailed(t, data, a, step, No)
        \/ r < Len(t) /\ StepFailed(t, data, a, step, Ending(t[r + 1].code))
    <3> HIDE DEF t, a
    <3> QED
      BY <1>1, <2>2, AtNext DEF t
  <2>4. /\ EndIsLast(step.end) /\ step.end \in BOOLEAN /\ Located(t, data, step.cur, a) /\ step.ok = No
    <3> HIDE DEF step, a
    <3> QED
      BY <2>3, <1>3
  <2> QED
    BY <2>1, <2>4 DEF NothingMade
<1>6. CASE r > 0 /\ cur.num_read = End(r - 1)
  <2>1. cur.num_read = Ends[t][r - 1] /\ r \in 1 .. Len(t)
    BY <1>1, <1>6 DEF End
  <2>2. StepFailed(t, data, a, step, No)
    <3> HIDE DEF t, a
    <3> QED
      BY <1>1, <2>1, AtLast
  <2>3. /\ EndIsLast(step.end) /\ step.end \in BOOLEAN /\ Located(t, data, step.cur, a) /\ step.ok = No
    <3> HIDE DEF step, a
    <3> QED
      BY <2>2, <1>3
  <2>4. cur.num_read # End(r)
    BY <1>6, EndBefore
  <2> QED
    BY <2>3, <2>4 DEF NothingMade
<1> QED
  BY <1>2, <1>4, <1>5, <1>6

LEMMA AppendLast ==
  ASSUME NEW D, NEW s \in Seq(D), NEW x \in D
  PROVE  Append(s, x) \in Seq(D) /\ Append(s, x) # <<>> /\ Append(s, x)[Len(Append(s, x))] = x
OBVIOUS

LEMMA SentIs ==
  ASSUME NEW n \in Nat
  PROVE  Append(SentUpTo(n), Sent(n + 1)) = SentUpTo(n + 1)
<1>1. Len(SentUpTo(n)) = n /\ \A k \in 1 .. n : SentUpTo(n)[k] = Sent(k)
  BY DEF SentUpTo
<1>2. SentUpTo(n) \in Seq({Sent(k) : k \in 1 .. n + 1})
  BY DEF SentUpTo
<1>3. Append(SentUpTo(n), Sent(n + 1)) = [k \in 1 .. n + 1 |-> IF k = n + 1 THEN Sent(n + 1) ELSE SentUpTo(n)[k]]
  BY <1>1, <1>2
<1>4. \A k \in 1 .. n + 1 : k = n + 1 \/ k \in 1 .. n
  OBVIOUS
<1> QED
  BY <1>1, <1>3, <1>4 DEF SentUpTo

\* What a turn of the inner loop leaves alone, and what it always does.
Turned(step) ==
  /\ rollbacks' = Append(rollbacks, cur) /\ cur' = step.cur /\ stream_end' = (stream_end \/ step.end)
  /\ UNCHANGED <<trace, converting, given, pending, data>>

PassedOn(step) ==
  /\ registered' = registered + 1
  /\ IF converting THEN delivered' = delivered ELSE delivered' = Append(delivered, step.event[1])
  /\ phase' = IF step.cur.unread > 0 THEN "decode" ELSE "refill"

GaveUp == phase' = "refill" /\ registered' = registered /\ delivered' = delivered

LEMMA DecodeIs ==
  ASSUME Decode
  PROVE  LET step == OneStep(data, cur, registered)
         IN  /\ phase = "decode" /\ Turned(step)
             /\ (step.ok /\ PassedOn(step)) \/ (~step.ok /\ GaveUp)
<1> DEFINE step == OneStep(data, cur, registered)
<1>1. /\ phase = "decode" /\ rollbacks' = Append(rollbacks, cur) /\ cur' = step.cur
      /\ stream_end' = (stream_end \/ step.end)
      /\ \/ /\ step.ok
            /\ registered' = registered + 1
            /\ PassOn(step.event[1])
            /\ phase' = IF step.cur.unread > 0 THEN "decode" ELSE "refill"
         \/ /\ ~step.ok
            /\ phase' = "refill"
            /\ UNCHANGED <<registered, delivered>>
      /\ UNCHANGED <<trace, converting, given, pending, data>>
  BY DEF Decode
<1> HIDE DEF step
<1>2. Turned(step)
  BY <1>1 DEF Turned
<1>3. (step.ok /\ PassedOn(step)) \/ (~step.ok /\ GaveUp)
  BY <1>1 DEF PassOn, PassedOn, GaveUp
<1> QED
  BY <1>1, <1>2, <1>3 DEF step

LEMMA TurnedKeeps ==
  ASSUME DecoderInv, NEW step, Turned(step), step.end \in BOOLEAN, Located(trace, data, step.cur, Arrived)
  PROVE  /\ Holds' /\ Arrived' = Arrived /\ Input' = Input /\ rollbacks' \in Seq(Cursor) /\ rollbacks' # <<>>
         /\ stream_end' \in BOOLEAN /\ rollbacks'[Len(rollbacks')] = cur
         /\ Located(trace', data', cur, Arrived')
<1> DEFINE a == Arrived
<1>1. /\ a \in 0 .. given /\ pending = Span(trace, a, given) /\ given \in 0 .. Len(Input)
      /\ Located(trace, data, cur, a)
  BY InvIs
<1>2. /\ rollbacks' = Append(rollbacks, cur) /\ cur' = step.cur /\ stream_end' = (stream_end \/ step.end)
      /\ UNCHANGED <<trace, converting, given, pending, data>>
  BY DEF Turned
<1>3. Located(trace, data', cur', a)
  BY <1>2
<1> HIDE DEF a
<1>4. Holds' /\ Arrived' = a
  BY <1>1, <1>2, <1>3, HoldsNext
<1>5. rollbacks \in Seq(Cursor) /\ stream_end \in BOOLEAN
  BY DEF DecoderInv, Typed
<1>6. cur \in Cursor
  BY <1>1, LocatedIs
<1>7. rollbacks' \in Seq(Cursor) /\ rollbacks' # <<>> /\ rollbacks'[Len(rollbacks')] = cur
  BY <1>2, <1>5, <1>6, AppendLast
<1>8. Input' = Input /\ stream_end' \in BOOLEAN
  BY <1>2, <1>5 DEF Input
<1>9. Located(trace', data', cur, Arrived')
  BY <1>1, <1>2, <1>4
<1> QED
  BY <1>4, <1>7, <1>8, <1>9 DEF a

LEMMA PassedOnInv ==
  ASSUME DecoderInv, NEW step, Turned(step), step.end \in BOOLEAN, Located(trace, data, step.cur, Arrived),
         EndIsLast(step.end), EventMade(step), PassedOn(step)
  PROVE  DecoderInv'
<1> DEFINE r == registered
<1>1. /\ Holds' /\ Arrived' = Arrived /\ Input' = Input /\ rollbacks' \in Seq(Cursor) /\ rollbacks' # <<>>
      /\ stream_end' \in BOOLEAN /\ rollbacks'[Len(rollbacks')] = cur
      /\ Located(trace', data', cur, Arrived')
  BY TurnedKeeps
<1>2. /\ r < Len(trace) /\ cur.num_read = End(r) /\ End(r + 1) <= Arrived
      /\ step.event[1] = Sent(r + 1) /\ step.cur.num_read = End(r + 1)
  BY DEF EventMade
<1>3. /\ registered' = r + 1
      /\ IF converting THEN delivered' = delivered ELSE delivered' = Append(delivered, step.event[1])
      /\ phase' \in {"decode", "refill"}
      /\ cur' = step.cur /\ stream_end' = (stream_end \/ step.end)
      /\ UNCHANGED <<trace, converting, given, pending, data>>
  BY DEF PassedOn, Turned
<1>4. r \in Nat /\ Len(trace) \in Nat /\ r + 1 \in 0 .. Len(trace) /\ (r + 1) - 1 = r
  BY <1>2, InvIs, EndNext
<1>5. Typed'
  BY <1>1, <1>3, <1>4 DEF DecoderInv, Typed
<1>6. Placed'
  <2>1. End(registered)' = End(r + 1) /\ End(registered - 1)' = End(r) /\ registered' > 0
    BY <1>3, <1>4 DEF End
  <2>2. End(registered)' <= Arrived' /\ cur'.num_read = End(registered)'
    BY <2>1, <1>1, <1>2, <1>3
  <2>3. Loadable'
    <3>2. cur.num_read = End(registered - 1)'
      BY <2>1, <1>2
    <3> QED
      BY <2>1, <3>2, <1>1 DEF Loadable, Behind
  <2> QED
    BY <2>2, <2>3, <1>3 DEF Placed
<1>7. Delivered'
  <2>1. delivered = (IF converting THEN <<>> ELSE SentUpTo(r))
        /\ (stream_end => trace[Len(trace)].code = EndStream /\ registered >= Len(trace) - 1)
    BY DEF DecoderInv, Delivered
  <2>2. SentUpTo(registered)' = SentUpTo(r + 1)
    BY <1>3 DEF SentUpTo, Sent
  <2>3. delivered' = IF converting' THEN <<>> ELSE SentUpTo(registered)'
    BY <2>1, <2>2, <1>2, <1>3, <1>4, SentIs
  <2>4. stream_end' => trace'[Len(trace')].code = EndStream /\ registered' >= Len(trace') - 1
    BY <2>1, <1>3, <1>4 DEF EndIsLast
  <2> QED
    BY <2>3, <2>4 DEF Delivered
<1> QED
  BY <1>1, <1>5, <1>6, <1>7 DEF DecoderInv

LEMMA GaveUpInv ==
  ASSUME DecoderInv, NEW step, Turned(step), step.end \in BOOLEAN, Located(trace, data, step.cur, Arrived),
         EndIsLast(step.end), phase = "decode", GaveUp
  PROVE  DecoderInv'
<1>1. /\ Holds' /\ Arrived' = Arrived /\ Input' = Input /\ rollbacks' \in Seq(Cursor) /\ rollbacks' # <<>>
      /\ stream_end' \in BOOLEAN /\ rollbacks'[Len(rollbacks')] = cur
      /\ Located(trace', data', cur, Arrived')
  BY TurnedKeeps
<1>2. /\ phase' = "refill" /\ registered' = registered /\ delivered' = delivered
      /\ cur' = step.cur /\ stream_end' = (stream_end \/ step.end)
      /\ UNCHANGED <<trace, converting, given, pending, data>>
  BY DEF GaveUp, Turned
<1>3. Typed'
  BY <1>1, <1>2 DEF DecoderInv, Typed
<1>4. Placed'
  <2>1. End(registered)' = End(registered) /\ End(registered - 1)' = End(registered - 1)
    BY <1>2 DEF End
  <2>2. End(registered)' <= Arrived'
    <3>1. End(registered) <= Arrived
      BY InvIs
    <3> QED
      BY <2>1, <3>1, <1>1
  <2>3. cur.num_read = End(registered) \/ (registered > 0 /\ cur.num_read = End(registered - 1))
    BY DEF DecoderInv, Placed
  <2>4. Loadable'
    BY <2>1, <2>3, <1>1, <1>2 DEF Loadable, Behind
  <2> QED
    BY <2>2, <2>4, <1>2 DEF Placed
<1>5. Delivered'
  BY <1>2, DeliveredNext
<1> QED
  BY <1>1, <1>3, <1>4, <1>5 DEF DecoderInv

LEMMA DecodeInv ==
  ASSUME DecoderInv, Decode
  PROVE  DecoderInv'
<1> DEFINE step == OneStep(data, cur, registered)
<1>1. /\ phase = "decode" /\ Turned(step)
      /\ (step.ok /\ PassedOn(step)) \/ (~step.ok /\ GaveUp)
  BY DecodeIs
<1>2. /\ EndIsLast(step.end) /\ step.end \in BOOLEAN /\ Located(trace, data, step.cur, Arrived)
      /\ EventMade(step) \/ NothingMade(step)
  BY <1>1, DecodeFinds
<1> HIDE DEF step
<1>3. CASE step.ok /\ PassedOn(step)
  <2>1. EventMade(step)
    BY <1>2, <1>3 DEF NothingMade, No
  <2> QED
    BY <2>1, <1>1, <1>2, <1>3, PassedOnInv
<1>4. CASE ~step.ok /\ GaveUp
  BY <1>1, <1>2, <1>4, GaveUpInv
<1> QED
  BY <1>1, <1>3, <1>4

LEMMA InputNotEmpty ==
  ASSUME DecoderInv
  PROVE  Len(Input) >= 1
<1>1. trace \in Traces /\ Len(trace) \in Nat /\ Len(trace) >= 1
  BY InvIs
<1>2. Ends[trace][0] = 0 /\ Ends[trace][Len(trace)] = Len(Bytes[trace]) /\ Len(Bytes[trace]) \in Nat
  BY <1>1, StreamIs
<1>3. Ends[trace][0] < Ends[trace][Len(trace)]
  <2>1. 0 \in 0 .. Len(trace) /\ Len(trace) \in 0 .. Len(trace) /\ 0 < Len(trace)
    BY <1>1
  <2> QED
    BY <1>1, <2>1, EndsGrow
<1> QED
  BY <1>2, <1>3 DEF Input

LEMMA StutterInv ==
  ASSUME DecoderInv, UNCHANGED vars
  PROVE  DecoderInv'
<1>1. UNCHANGED <<trace, converting, given, phase, pending, data, cur, rollbacks, registered, stream_end, delivered>>
  BY DEF vars, ring, decoder
<1>2. Arrived' = Arrived /\ Input' = Input /\ \A x : End(x)' = End(x)
  BY <1>1 DEF Arrived, Input, End
<1>3. Typed'
  BY <1>1, <1>2 DEF DecoderInv, Typed
<1>4. Holds'
  <2>1. Span(trace', Arrived', given') = Span(trace, Arrived, given)
    BY <1>1, <1>2
  <2> QED
    BY <1>1, <1>2, <2>1 DEF DecoderInv, Holds
<1>5. Placed'
  <2>1. Behind(cur.num_read)' = Behind(cur.num_read) /\ Searching(cur.num_read)' = Searching(cur.num_read)
        /\ Loadable' = Loadable /\ End(registered)' = End(registered) /\ End(registered - 1)' = End(registered - 1)
    BY <1>1, <1>2 DEF Behind, Searching, Loadable, End
  <2> QED
    BY <1>1, <1>2, <2>1 DEF DecoderInv, Placed
<1>6. Delivered'
  BY <1>1 DEF DecoderInv, Delivered, SentUpTo, Sent
<1> QED
  BY <1>3, <1>4, <1>5, <1>6 DEF DecoderInv

LEMMA DecoderNext == DecoderInv /\ [Next]_vars => DecoderInv'
<1> SUFFICES ASSUME DecoderInv, [Next]_vars PROVE DecoderInv'
  OBVIOUS
<1>1. ASSUME NEW size \in ChunkSizes, UnpackStream(size) PROVE DecoderInv'
  <2>1. size \in Nat /\ size >= 1
    BY ChunkAssumption
  <2>2. given + size <= Len(Input) /\ EnterCall(size)
    BY <1>1 DEF UnpackStream
  <2> QED
    BY <2>1, <2>2, EnterCallInv
<1>2. CASE SaveAsCSV
  <2> DEFINE size == Len(Input)
  <2>1. size \in Nat /\ size >= 1 /\ given + size <= Len(Input) /\ EnterCall(size)
    <3>1. size \in Nat /\ size >= 1
      BY InvIs, InputNotEmpty
    <3>2. given = 0 /\ EnterCall(size)
      BY <1>2 DEF SaveAsCSV
    <3> QED
      BY <3>1, <3>2
  <2> HIDE DEF size
  <2> QED
    BY <2>1, EnterCallInv
<1>3. CASE TrySteps
  BY <1>3, TryStepsInv
<1>4. CASE Decode
  BY <1>4, DecodeInv
<1>5. CASE Refill
  BY <1>5, RefillInv
<1>6. CASE UNCHANGED vars
  BY <1>6, StutterInv
<1> QED
  BY <1>1, <1>2, <1>3, <1>4, <1>5, <1>6 DEF Next

\* In every state the ring and pending hold what has arrived and is not read,
\* the cursor and the records are where an event begins or the search may be,
\* and what has been passed on is what is registered: every action of the decoder
\* keeps this, with chunks of any size.
THEOREM DecoderInvariant == Spec => []DecoderInv
BY DecoderInit, DecoderNext, PTL DEF Spec

\* The events passed on are the ones sent: in order, each once, with the count,
\* time and arguments it was sent with, however the bytes were cut into chunks.
THEOREM DecoderDelivers == Spec => []DeliveredInOrder
<1>1. DecoderInv => DeliveredInOrder
  <2> SUFFICES ASSUME DecoderInv PROVE DeliveredInOrder
    OBVIOUS
  <2>1. registered \in 0 .. Len(trace) /\ Len(trace) \in Nat /\ converting \in BOOLEAN
        /\ delivered = IF converting THEN <<>> ELSE SentUpTo(registered)
    BY InvIs DEF DecoderInv, Delivered, Typed
  <2>2. Len(SentUpTo(registered)) = registered
    BY <2>1 DEF SentUpTo
  <2>3. SentUpTo(0) = <<>>
    BY DEF SentUpTo
  <2>4. CASE converting
    <3>1. delivered = <<>> /\ Len(delivered) = 0
      BY <2>1, <2>4
    <3> QED
      BY <2>1, <2>3, <2>4, <3>1 DEF DeliveredInOrder
  <2>5. CASE ~converting
    BY <2>1, <2>2, <2>5 DEF DeliveredInOrder
  <2> QED
    BY <2>4, <2>5
<1> QED
  BY <1>1, DecoderInvariant, PTL

\* The record that loadRollback takes counts the same bytes as the ring does now:
\* no byte arrived after it was saved that going back to it would lose.
THEOREM DecoderRollsBackFresh == Spec => []RollbackIsFresh
<1>1. DecoderInv => RollbackIsFresh
  <2> SUFFICES ASSUME DecoderInv, phase = "refill"
               PROVE  /\ rollbacks # <<>>
                      /\ LET top == rollbacks[Len(rollbacks)]
                         IN  top.num_read + top.unread = cur.num_read + cur.unread
    BY DEF RollbackIsFresh
  <2> DEFINE top == rollbacks[Len(rollbacks)]
  <2>1. rollbacks # <<>> /\ Located(trace, data, top, Arrived)
    BY DEF DecoderInv, Placed, Loadable
  <2>2. Located(trace, data, cur, Arrived)
    BY InvIs
  <2> HIDE DEF top
  <2>3. top.num_read + top.unread = Arrived
    BY <2>1, LocatedIs
  <2>4. cur.num_read + cur.unread = Arrived
    BY <2>2, LocatedIs
  <2> QED
    BY <2>1, <2>3, <2>4 DEF top
<1> QED
  BY <1>1, DecoderInvariant, PTL

\* Whenever the inner loop decodes and all bytes of the call are in the ring, the
\* cursor is where the next event begins: the search has ended at the right place.
THEOREM DecoderAtBoundary == Spec => []AtEventBoundary
<1>1. DecoderInv => AtEventBoundary
  BY DEF DecoderInv, Placed, AtEventBoundary, End
<1> QED
  BY <1>1, DecoderInvariant, PTL

\* The end of the stream is seen in a stream that ends, and there only when no
\* event but the last is missing.
THEOREM DecoderSeesTheEnd == Spec => []StreamEndIsLast
<1>1. DecoderInv => StreamEndIsLast
  BY DEF DecoderInv, Delivered, StreamEndIsLast
<1> QED
  BY <1>1, DecoderInvariant, PTL

(***************************************************************************)
(* When every chunk fits behind what is left over, nothing stays pending.  *)
(***************************************************************************)
\* The next event has not arrived as a whole.
Incomplete == registered = Len(trace) \/ Arrived < End(registered + 1)

\* What is left over: the beginning of the next event, or the last one.
Leftover(p) ==
  \/ p = End(registered)
  \/ registered > 0 /\ p = End(registered - 1) /\ Arrived = End(registered)

FitInv ==
  /\ pending = <<>>
  /\ phase \in {"refill", "undefined"} => Incomplete
  /\ phase = "idle" => Incomplete /\ Leftover(cur.num_read)
  /\ phase = "refill" => Leftover(rollbacks[Len(rollbacks)].num_read)

\* Arrived and registered, as they are.
LEMMA WhereIs ==
  ASSUME DecoderInv
  PROVE  /\ registered \in Nat /\ Len(trace) \in Nat /\ Arrived \in Nat /\ Len(trace) >= 1
         /\ End(registered) \in Nat /\ End(registered) <= Arrived
         /\ registered <= Len(trace) /\ trace \in Traces
         /\ registered < Len(trace) => /\ End(registered) < End(registered + 1) /\ End(registered + 1) \in Nat
                                       /\ registered + 1 \in 1 .. Len(trace)
                                       /\ (registered + 1) - 1 = registered
         /\ registered > 0 => /\ End(registered - 1) < End(registered) /\ End(registered - 1) \in Nat
                              /\ registered \in 1 .. Len(trace)
         /\ registered = Len(trace) => Arrived = End(registered)
         /\ cur.num_read \in Nat /\ cur.unread \in Nat /\ cur.num_read + cur.unread = Arrived
<1>1. /\ registered \in Nat /\ Len(trace) \in Nat /\ Len(trace) >= 1 /\ registered <= Len(trace)
      /\ End(registered) \in Nat /\ End(registered) <= Arrived /\ trace \in Traces
      /\ Located(trace, data, cur, Arrived) /\ Arrived \in 0 .. Len(Input) /\ Len(Input) \in Nat
  BY InvIs
<1>2. cur.num_read \in Nat /\ cur.unread \in Nat /\ cur.num_read + cur.unread = Arrived /\ Arrived \in Nat
  <2> DEFINE a == Arrived
  <2>1. Located(trace, data, cur, a)
    BY <1>1
  <2> HIDE DEF a
  <2>2. cur.num_read \in Nat /\ cur.unread \in Nat /\ cur.num_read + cur.unread = a /\ a \in Nat
    BY <2>1, LocatedIs
  <2> QED
    BY <2>2 DEF a
<1>3. registered = Len(trace) => Arrived = End(registered)
  <2>1. End(Len(trace)) = Len(Input)
    BY <1>1, StreamIs DEF End, Input
  <2> DEFINE a == Arrived
             e == End(registered)
             l == Len(Input)
  <2>2. a \in 0 .. l /\ l \in Nat /\ e <= a /\ e \in Nat
    BY <1>1
  <2>3. registered = Len(trace) => e = l
    BY <2>1
  <2> HIDE DEF a, e, l
  <2>4. registered = Len(trace) => a = e
    BY <2>2, <2>3
  <2> QED
    BY <2>4 DEF a, e
<1> QED
  BY <1>1, <1>2, <1>3, EndNext, EndBefore

LEMMA FitInit == DecoderInv /\ Init => FitInv
<1> SUFFICES ASSUME DecoderInv, Init PROVE FitInv
  OBVIOUS
<1>1. pending = <<>> /\ phase = "idle" /\ registered = 0 /\ given = 0 /\ cur = EmptyCursor
  BY DEF Init
<1>2. Arrived = 0
  <2>1. Len(pending) = 0 /\ given = 0
    BY <1>1
  <2> QED
    BY <2>1 DEF Arrived
<1>3. End(registered) = 0 /\ cur.num_read = 0
  BY <1>1, WhereIs, StreamIs DEF End, EmptyCursor
<1>4. Incomplete
  BY <1>1, <1>2, <1>3, WhereIs DEF Incomplete
<1> QED
  BY <1>1, <1>3, <1>4 DEF FitInv, Leftover

\* What is unread between calls.
LEMMA LeftoverFits ==
  ASSUME DecoderInv, Incomplete, Leftover(cur.num_read)
  PROVE  cur.unread = 0 \/ \E n \in 1 .. Len(trace) : cur.unread <= Ends[trace][n] - Ends[trace][n - 1]
<1>1. CASE registered = Len(trace) /\ cur.num_read = End(registered)
  BY <1>1, WhereIs
<1>2. CASE registered < Len(trace) /\ cur.num_read = End(registered)
  <2> DEFINE n == registered + 1
  <2>1. Arrived < End(n) /\ n \in 1 .. Len(trace) /\ n - 1 = registered
        /\ End(n) \in Nat
    BY <1>2, WhereIs DEF Incomplete
  <2>2. cur.unread <= End(n) - End(registered)
    <3> DEFINE a == Arrived
               e == End(n)
               l == End(registered)
               p == cur.num_read
               u == cur.unread
    <3>1. a < e /\ e \in Nat /\ l \in Nat /\ p = l /\ u \in Nat /\ p + u = a
      BY <2>1, <1>2, WhereIs
    <3> HIDE DEF a, e, l, p, u
    <3>2. u <= e - l
      BY <3>1
    <3> QED
      BY <3>2 DEF e, l, u
  <2> HIDE DEF n
  <2> QED
    BY <2>1, <2>2 DEF End
<1>3. CASE registered > 0 /\ cur.num_read = End(registered - 1) /\ Arrived = End(registered)
  <2>1. cur.unread <= End(registered) - End(registered - 1) /\ registered \in 1 .. Len(trace)
    BY <1>3, WhereIs
  <2> QED
    BY <2>1 DEF End
<1> QED
  BY <1>1, <1>2, <1>3, WhereIs DEF Leftover

\* A call's bytes enter the ring as a whole.
LEMMA CallFits ==
  ASSUME ChunksFit, DecoderInv, FitInv, phase = "idle", NEW size \in Nat,
         \/ size \in ChunkSizes /\ ~converting
         \/ size = Len(Input) /\ converting /\ given = 0
  PROVE  cur.unread + size <= Cap
<1>1. cur.unread \in Nat /\ Cap \in Nat
  BY WhereIs, CapAssumption
<1>2. CASE size \in ChunkSizes /\ ~converting
  <2>1. trace \in Streamed
    BY <1>2 DEF DecoderInv, Typed
  <2>2. Incomplete /\ Leftover(cur.num_read)
    BY DEF FitInv
  <2>3. cur.unread = 0 \/ \E n \in 1 .. Len(trace) : cur.unread <= Ends[trace][n] - Ends[trace][n - 1]
    BY <2>2, LeftoverFits
  <2>4. CASE cur.unread = 0
    <3>1. 1 \in 1 .. Len(trace) /\ trace \in Traces
      BY WhereIs
    <3>2. size + (Ends[trace][1] - Ends[trace][1 - 1]) <= Cap
      BY <1>2, <2>1, <3>1 DEF ChunksFit
    <3>3. Ends[trace][1 - 1] < Ends[trace][1] /\ Ends[trace][1 - 1] \in Nat /\ Ends[trace][1] \in Nat
      BY <3>1, EventPlace
    <3> QED
      BY <1>1, <2>4, <3>2, <3>3
  <2>5. ASSUME NEW n \in 1 .. Len(trace), cur.unread <= Ends[trace][n] - Ends[trace][n - 1]
        PROVE  cur.unread + size <= Cap
    <3>1. size + (Ends[trace][n] - Ends[trace][n - 1]) <= Cap
      BY <1>2, <2>1 DEF ChunksFit
    <3>2. Ends[trace][n - 1] \in Nat /\ Ends[trace][n] \in Nat
      BY WhereIs, EventPlace
    <3> QED
      BY <1>1, <2>5, <3>1, <3>2
  <2> QED
    BY <2>3, <2>4, <2>5
<1>3. CASE size = Len(Input) /\ converting /\ given = 0
  <2>1. trace \in Files
    BY <1>3 DEF DecoderInv, Typed
  <2>2. size <= Cap
    BY <1>3, <2>1 DEF ChunksFit, Input
  <2>3. cur.unread = 0
    <3>1. Arrived \in 0 .. given
      BY InvIs
    <3>2. Arrived = 0
      BY <1>3, <3>1
    <3> QED
      BY <3>2, WhereIs
  <2> QED
    BY <2>2, <2>3
<1> QED
  BY <1>2, <1>3

LEMMA EnterCallFit ==
  ASSUME DecoderInv, NEW size \in Nat, size >= 1, given + size <= Len(Input), EnterCall(size),
         cur.unread + size <= Cap
  PROVE  FitInv'
<1> DEFINE buff == SubSeq(Input, given + 1, given + size)
<1>1. Input \in Seq(Byte) /\ given \in Nat /\ Len(Input) \in Nat
  <2>1. trace \in Traces /\ given \in 0 .. Len(Input)
    BY InvIs
  <2>2. Input \in Seq(Byte) /\ Len(Input) \in Nat
    BY <2>1, StreamIs DEF Input
  <2> QED
    BY <2>1, <2>2
<1>2. buff \in Seq(Byte) /\ Len(buff) = size
  <2> DEFINE s == Input
             m == given + 1
             n == given + size
  <2>1. s \in Seq(Byte) /\ m \in 1 .. (Len(s) + 1) /\ n \in (m - 1) .. Len(s) /\ n - m + 1 = size
    BY <1>1
  <2> HIDE DEF s, m, n
  <2>2. SubSeq(s, m, n) \in Seq(Byte) /\ Len(SubSeq(s, m, n)) = n - m + 1
    BY <2>1, SubSeqProperties
  <2> QED
    BY <2>1, <2>2 DEF s, m, n
<1>3. pending' = SubSeq(buff, ToWrite(cur, Len(buff)) + 1, Len(buff)) /\ phase' = "search"
  BY DEF EnterCall, Populate
<1> HIDE DEF buff
<1>4. ToWrite(cur, size) = size
  BY WhereIs, CapAssumption DEF ToWrite, SizeMin
<1>5. pending' = <<>>
  <2>1. pending' = SubSeq(buff, size + 1, size)
    BY <1>2, <1>3, <1>4
  <2> QED
    BY <2>1, <1>2
<1> QED
  BY <1>3, <1>5 DEF FitInv

LEMMA TryStepsFit ==
  ASSUME DecoderInv, FitInv, TrySteps
  PROVE  FitInv'
<1> DEFINE step == OneStep(data, cur, registered)
           p == cur.num_read
           r == registered
           a == Arrived
<1>1. /\ phase = "search" /\ pending' = pending /\ pending = <<>>
      /\ \/ step.ok /\ phase' = "decode"
         \/ /\ ~step.ok
            /\ cur' = IF cur.unread = 0 THEN cur ELSE AfterNext(cur)
            /\ phase' = IF cur'.unread > 0 THEN "search" ELSE "undefined"
      /\ UNCHANGED <<trace, given, pending, registered>>
  BY DEF TrySteps, FitInv
<1>2. r < Len(trace) /\ Searching(p)
  BY <1>1 DEF DecoderInv, Placed
<1>3. \/ step.ok = Yes /\ p = End(r) /\ End(r + 1) <= a
      \/ step.ok = No /\ (p < End(r) \/ a < End(r + 1))
  BY <1>2, TrialIs
<1>4. /\ phase' \in {"search", "decode", "undefined"}
      /\ phase' = "undefined" => ~step.ok
      /\ phase' = "undefined" /\ cur.unread # 0 => ~(AfterNext(cur).unread > 0)
  <2> HIDE DEF step
  <2> QED
    BY <1>1
<1> HIDE DEF step
<1>5. ASSUME phase' = "undefined" PROVE Incomplete'
  <2>1. p < End(r) \/ a < End(r + 1)
    BY <1>3, <1>4, <1>5 DEF Yes
  <2>2. cur.unread = 0 \/ cur.unread = 1
    <3>1. Located(trace, data, cur, a)
      BY InvIs
    <3> HIDE DEF a
    <3>2. cur.unread # 0 => AfterNext(cur).unread = cur.unread - 1
      BY <3>1, OneByteOn
    <3> QED
      BY <1>4, <1>5, <3>2, WhereIs
  <2>3. a < End(r + 1)
    <3> DEFINE e == End(r)
               f == End(r + 1)
               u == cur.unread
    <3>1. /\ a \in Nat /\ e \in Nat /\ f \in Nat /\ p \in Nat /\ e <= a /\ e < f /\ p + u = a
          /\ (u = 0 \/ u = 1) /\ (p < e \/ a < f)
      BY <1>2, <2>1, <2>2, WhereIs
    <3> HIDE DEF a, e, f, u, p
    <3>2. a < f
      BY <3>1
    <3> QED
      BY <3>2 DEF f
  <2>4. Arrived' = a /\ End(r + 1)' = End(r + 1) /\ registered' = r
    BY <1>1 DEF Arrived, End
  <2> QED
    BY <2>3, <2>4 DEF Incomplete
<1> QED
  BY <1>1, <1>4, <1>5 DEF FitInv

LEMMA DecodeFit ==
  ASSUME DecoderInv, FitInv, Decode
  PROVE  FitInv'
<1> DEFINE step == OneStep(data, cur, registered)
           r == registered
<1>1. /\ phase = "decode" /\ Turned(step)
      /\ (step.ok /\ PassedOn(step)) \/ (~step.ok /\ GaveUp)
  BY DecodeIs
<1>2. /\ step.end \in BOOLEAN /\ Located(trace, data, step.cur, Arrived)
      /\ EventMade(step) \/ NothingMade(step)
  BY <1>1, DecodeFinds
<1> HIDE DEF step
<1>3. pending = <<>> /\ cur.num_read = End(r)
  BY <1>1 DEF FitInv, DecoderInv, Placed
<1>4. /\ Arrived' = Arrived /\ rollbacks'[Len(rollbacks')] = cur /\ pending' = pending
      /\ \A n : End(n)' = End(n)
      /\ trace' = trace
  BY <1>1, <1>2, TurnedKeeps DEF Turned, End
<1>5. CASE step.ok /\ PassedOn(step)
  <2>1. EventMade(step)
    BY <1>2, <1>5 DEF NothingMade, No
  <2>2. r < Len(trace) /\ step.cur.num_read = End(r + 1)
    BY <2>1 DEF EventMade
  <2>3. registered' = r + 1 /\ phase' = (IF step.cur.unread > 0 THEN "decode" ELSE "refill")
    BY <1>5 DEF PassedOn
  <2>4. ASSUME phase' = "refill" PROVE Arrived = End(r + 1)
    <3>1. step.cur.num_read + step.cur.unread = Arrived /\ step.cur.unread \in Nat
      <4> DEFINE a == Arrived
      <4>1. Located(trace, data, step.cur, a)
        BY <1>2
      <4> HIDE DEF a
      <4>2. step.cur.num_read + step.cur.unread = a /\ step.cur.unread \in Nat
        BY <4>1, LocatedIs
      <4> QED
        BY <4>2 DEF a
    <3>2. step.cur.unread = 0
      BY <2>3, <2>4, <3>1
    <3> QED
      BY <2>2, <3>1, <3>2, WhereIs
  <2>5. ASSUME phase' = "refill" PROVE Incomplete'
    <3>1. CASE r + 1 = Len(trace)
      BY <3>1, <1>4, <2>3 DEF Incomplete
    <3>2. CASE r + 1 # Len(trace)
      <4> DEFINE n == (r + 1) + 1
      <4>1. n \in 1 .. Len(trace) /\ n - 1 = r + 1
        BY <2>2, <3>2, WhereIs
      <4> HIDE DEF n
      <4>2. Ends[trace][n - 1] < Ends[trace][n]
        BY <4>1, WhereIs, EventPlace
      <4>3. Arrived < End(n)
        BY <4>1, <4>2, <2>4, <2>5 DEF End
      <4> QED
        BY <4>3, <1>4, <2>3 DEF Incomplete, n
    <3> QED
      BY <3>1, <3>2
  <2>6. ASSUME phase' = "refill" PROVE Leftover(rollbacks[Len(rollbacks)].num_read)'
    <3>1. Arrived' = End(r + 1)
      BY <2>4, <2>6, <1>4
    <3>2. registered' > 0 /\ registered' - 1 = r
      BY <2>3, WhereIs
    <3>3. End(registered - 1)' = End(r) /\ End(registered)' = End(r + 1)
      BY <1>4, <2>3, <3>2 DEF End
    <3>4. rollbacks'[Len(rollbacks')].num_read = End(r)
      BY <1>3, <1>4
    <3> QED
      BY <3>1, <3>2, <3>3, <3>4 DEF Leftover
  <2> QED
    BY <1>3, <1>4, <2>3, <2>5, <2>6 DEF FitInv
<1>6. CASE ~step.ok /\ GaveUp
  <2>1. NothingMade(step)
    BY <1>2, <1>6 DEF EventMade, Yes
  <2>2. r = Len(trace) \/ Arrived < End(r + 1)
    BY <2>1, <1>3 DEF NothingMade
  <2>3. registered' = r /\ phase' = "refill"
    BY <1>6 DEF GaveUp
  <2>4. Incomplete'
    BY <1>4, <2>2, <2>3 DEF Incomplete
  <2>5. Leftover(rollbacks[Len(rollbacks)].num_read)'
    <3>1. End(registered)' = End(r)
      BY <1>4, <2>3 DEF End
    <3>2. rollbacks'[Len(rollbacks')].num_read = End(r)
      BY <1>3, <1>4
    <3> QED
      BY <3>1, <3>2 DEF Leftover
  <2> QED
    BY <1>3, <1>4, <2>3, <2>4, <2>5 DEF FitInv
<1> QED
  BY <1>1, <1>5, <1>6

LEMMA RefillFit ==
  ASSUME DecoderInv, FitInv, Refill
  PROVE  FitInv'
<1> DEFINE top == rollbacks[Len(rollbacks)]
<1>1. Reloaded(top) /\ phase = "refill"
  BY ReloadedIs DEF Refill
<1>2. pending = <<>> /\ Incomplete /\ Leftover(top.num_read)
  BY <1>1 DEF FitInv
<1> HIDE DEF top
<1>3. PICK n \in 0 .. (given - Arrived) :
           /\ n = ToWrite(top, Len(pending)) /\ Arrived' = Arrived + n
           /\ (pending' = <<>> <=> n = Len(pending)) /\ cur'.num_read = top.num_read
  BY <1>1, RefillStep
<1>4. /\ IF n < Len(pending) THEN phase' = "decode" /\ rollbacks' = Front(rollbacks)
                             ELSE phase' = "idle" /\ rollbacks' = <<>>
      /\ UNCHANGED <<trace, registered>>
  BY <1>1, <1>3 DEF Reloaded
<1>5. n = 0 /\ Len(pending) = 0
  <2>1. Len(pending) = 0
    BY <1>2
  <2>2. Len(pending) = given - Arrived
    BY InvIs
  <2> QED
    BY <2>1, <2>2
<1>6. pending' = <<>> /\ phase' = "idle"
  BY <1>3, <1>4, <1>5
<1>7. Arrived' = Arrived
  BY <1>3, <1>5, WhereIs
<1>8. Incomplete' /\ Leftover(cur.num_read)'
  BY <1>2, <1>3, <1>4, <1>7 DEF Incomplete, Leftover, End
<1> QED
  BY <1>6, <1>8 DEF FitInv

LEMMA StutterFit ==
  ASSUME FitInv, UNCHANGED vars
  PROVE  FitInv'
BY DEF FitInv, vars, ring, decoder, Incomplete, Leftover, Arrived, End

LEMMA FitNext == ChunksFit /\ DecoderInv /\ FitInv /\ [Next]_vars => FitInv'
<1> SUFFICES ASSUME ChunksFit, DecoderInv, FitInv, [Next]_vars PROVE FitInv'
  OBVIOUS
<1>1. ASSUME NEW size \in ChunkSizes, UnpackStream(size) PROVE FitInv'
  <2>1. size \in Nat /\ size >= 1
    BY ChunkAssumption
  <2>2. given + size <= Len(Input) /\ EnterCall(size) /\ ~converting /\ phase = "idle"
    BY <1>1 DEF UnpackStream, EnterCall
  <2> QED
    BY <2>1, <2>2, CallFits, EnterCallFit
<1>2. CASE SaveAsCSV
  <2> DEFINE size == Len(Input)
  <2>1. size \in Nat /\ size >= 1 /\ given + size <= Len(Input) /\ EnterCall(size)
        /\ given = 0 /\ converting /\ phase = "idle" /\ size = Len(Input)
    <3>1. size \in Nat /\ size >= 1
      BY InvIs, InputNotEmpty
    <3>2. given = 0 /\ EnterCall(size) /\ converting /\ phase = "idle"
      BY <1>2 DEF SaveAsCSV, EnterCall
    <3> QED
      BY <3>1, <3>2
  <2> HIDE DEF size
  <2> QED
    BY <2>1, CallFits, EnterCallFit
<1>3. CASE TrySteps
  BY <1>3, TryStepsFit
<1>4. CASE Decode
  BY <1>4, DecodeFit
<1>5. CASE Refill
  BY <1>5, RefillFit
<1>6. CASE UNCHANGED vars
  BY <1>6, StutterFit
<1> QED
  BY <1>1, <1>2, <1>3, <1>4, <1>5, <1>6 DEF Next

\* The events that are complete in what was given are the registered ones.
LEMMA CompletedIs ==
  ASSUME DecoderInv, pending = <<>>, Incomplete
  PROVE  Completed(given) = registered
<1> DEFINE done == {k \in 1 .. Len(trace) : Ends[trace][k] <= given}
           r == registered
<1>1. /\ r \in Nat /\ Len(trace) \in Nat /\ End(r) \in Nat /\ r <= Len(trace) /\ trace \in Traces
      /\ r < Len(trace) => /\ End(r) < End(r + 1) /\ End(r + 1) \in Nat /\ r + 1 \in 1 .. Len(trace)
      /\ End(r) <= Arrived
  BY WhereIs
<1>2. Arrived = given /\ given \in Nat
  <2>1. Len(pending) = 0 /\ given \in 0 .. Len(Input)
    BY InvIs
  <2> QED
    BY <2>1 DEF Arrived
<1>3. ASSUME NEW k \in 1 .. Len(trace), k <= r
      PROVE  Ends[trace][k] <= given
  <2>1. Ends[trace][r] <= given
    BY <1>1, <1>2 DEF End
  <2>2. Ends[trace][k] \in Nat /\ Ends[trace][r] \in Nat /\ k \in 0 .. Len(trace) /\ r \in 0 .. Len(trace)
    BY <1>1, StreamIs
  <2>3. k < r => Ends[trace][k] < Ends[trace][r]
    BY <1>1, <2>2, EndsGrow
  <2> QED
    BY <1>2, <1>3, <2>1, <2>2, <2>3, <1>1
<1>4. ASSUME NEW k \in 1 .. Len(trace), k > r
      PROVE  ~(Ends[trace][k] <= given)
  <2> DEFINE n == r + 1
  <2>1. n \in 0 .. Len(trace) /\ k \in 0 .. Len(trace) /\ r # Len(trace) /\ (n < k \/ n = k)
    BY <1>1, <1>4
  <2>2. given < Ends[trace][n]
    BY <1>2, <2>1 DEF Incomplete, End
  <2> HIDE DEF n
  <2>3. Ends[trace][k] \in Nat /\ Ends[trace][n] \in Nat
    BY <1>1, <2>1, StreamIs
  <2>4. n < k => Ends[trace][n] < Ends[trace][k]
    BY <1>1, <2>1, EndsGrow
  <2> QED
    BY <1>2, <2>1, <2>2, <2>3, <2>4
<1>5. done = 1 .. r
  <2>1. \A k \in 1 .. Len(trace) : Ends[trace][k] <= given <=> k <= r
    <3> TAKE k \in 1 .. Len(trace)
    <3>1. k <= r \/ k > r
      BY <1>1
    <3> QED
      BY <3>1, <1>3, <1>4
  <2>2. \A k \in 1 .. r : k \in 1 .. Len(trace)
    BY <1>1
  <2> QED
    BY <1>1, <2>1, <2>2
<1>6. Cardinality(1 .. r) = r
  <2>1. Cardinality(1 .. r) = IF 1 > r THEN 0 ELSE r - 1 + 1
    BY <1>1, FS_Interval
  <2> QED
    BY <1>1, <2>1
<1> QED
  BY <1>5, <1>6 DEF Completed

\* When a call ends, every event whose last byte was given to the decoder has been
\* passed on, if each chunk fits into the ring behind the rest of one event.
THEOREM DecoderNothingWaits == ChunksFit => (Spec => []NothingWaits)
<1> SUFFICES ASSUME ChunksFit PROVE Spec => []NothingWaits
  OBVIOUS
<1>1. DecoderInv /\ FitInv => NothingWaits
  <2> SUFFICES ASSUME DecoderInv, FitInv, ~converting, phase \in {"idle", "undefined"}
               PROVE  Len(delivered) = Completed(given)
    BY DEF NothingWaits
  <2>1. pending = <<>> /\ Incomplete
    BY DEF FitInv
  <2>2. delivered = SentUpTo(registered) /\ registered \in Nat
    BY InvIs DEF DecoderInv, Delivered
  <2>3. Len(delivered) = registered
    BY <2>2 DEF SentUpTo
  <2> QED
    BY <2>1, <2>3, CompletedIs
<1>2. Spec => []FitInv
  BY DecoderInvariant, FitInit, FitNext, PTL DEF Spec
<1> QED
  BY <1>1, <1>2, DecoderInvariant, PTL

\* When a call ends, what it leaves in the ring is no more than one event, the
\* beginning of the next or the last one once more: so the next chunk finds room.
THEOREM DecoderLeavesLittle == ChunksFit => (Spec => []LeftoverIsSmall)
<1> SUFFICES ASSUME ChunksFit PROVE Spec => []LeftoverIsSmall
  OBVIOUS
<1>1. DecoderInv /\ FitInv => LeftoverIsSmall
  BY LeftoverFits DEF FitInv, LeftoverIsSmall
<1>2. Spec => []FitInv
  BY DecoderInvariant, FitInit, FitNext, PTL DEF Spec
<1> QED
  BY <1>1, <1>2, DecoderInvariant, PTL

(***************************************************************************)
(* Reading a CSV file again, symbol by symbol.                             *)
(***************************************************************************)
Symbol == ({"char", "dec", "hex"} \X Nat) \cup {<<"remark", "#stream ended">>}

Cell == Seq(Symbol)

RowOfCells == Seq(Cell)

\* What has been read: whole rows, whole cells of the next one, and the last cell.
State(rows, cells, cell) == Append(rows, Append(cells, cell))

States == {State(r, s, c) : r \in Seq(RowOfCells), s \in RowOfCells, c \in Cell}

LEMMA LastAndFront ==
  ASSUME NEW D, NEW s \in Seq(D), NEW x \in D
  PROVE  Last(Append(s, x)) = x /\ Front(Append(s, x)) = s
<1>1. Append(s, x) \in Seq(D) /\ Len(Append(s, x)) = Len(s) + 1 /\ Append(s, x)[Len(s) + 1] = x
      /\ Len(s) \in Nat
  OBVIOUS
<1>2. Last(Append(s, x)) = x
  BY <1>1 DEF Last
<1>3. Front(Append(s, x)) = SubSeq(Append(s, x), 1, Len(s))
  <2>1. (Len(s) + 1) - 1 = Len(s)
    BY <1>1
  <2> QED
    BY <1>1, <2>1 DEF Front
<1>4. SubSeq(Append(s, x), 1, Len(s)) = s
  OBVIOUS
<1> QED
  BY <1>2, <1>3, <1>4

LEMMA AppendIn == ASSUME NEW D, NEW s \in Seq(D), NEW x \in D PROVE Append(s, x) \in Seq(D)
OBVIOUS

LEMMA EmptyIn == ASSUME NEW D PROVE <<>> \in Seq(D)
OBVIOUS

LEMMA StateIs ==
  ASSUME NEW r \in Seq(RowOfCells), NEW s \in RowOfCells, NEW c \in Cell
  PROVE  /\ Last(State(r, s, c)) = Append(s, c) /\ Front(State(r, s, c)) = r
         /\ Last(Append(s, c)) = c /\ Front(Append(s, c)) = s
         /\ Append(s, c) \in RowOfCells /\ State(r, s, c) \in States
<1>1. Append(s, c) \in RowOfCells /\ Last(Append(s, c)) = c /\ Front(Append(s, c)) = s
  BY AppendIn, LastAndFront DEF RowOfCells
<1>2. Last(Append(r, Append(s, c))) = Append(s, c) /\ Front(Append(r, Append(s, c))) = r
  BY <1>1, LastAndFront
<1> QED
  BY <1>1, <1>2 DEF State, States

Separators == {<<"char", 44>>, <<"char", 10>>}

LEMMA SeparatorsAre ==
  /\ Comma = <<<<"char", 44>>>> /\ Newline = <<<<"char", 10>>>>
  /\ Comma \in Cell /\ Newline \in Cell
  /\ \A x : (<<x>> = Comma <=> x = <<"char", 44>>) /\ (<<x>> = Newline <=> x = <<"char", 10>>)
<1>1. ASSUME NEW n \in Nat PROVE Text(<<n>>) = <<<<"char", n>>>>
  BY DEF Text
<1>2. Comma = <<<<"char", 44>>>> /\ Newline = <<<<"char", 10>>>>
  BY <1>1 DEF Comma, Newline
<1>3. <<"char", 44>> \in Symbol /\ <<"char", 10>> \in Symbol
  BY DEF Symbol
<1>4. ASSUME NEW x, NEW y PROVE <<x>> = <<y>> <=> x = y
  OBVIOUS
<1> QED
  BY <1>2, <1>3, <1>4 DEF Cell

LEMMA NewlineRead ==
  ASSUME NEW r \in Seq(RowOfCells), NEW s \in RowOfCells, NEW c \in Cell, NEW x, x = <<"char", 10>>
  PROVE  ReadSymbol(State(r, s, c), x) =
           IF Append(s, c) = Blank THEN State(r, s, c) ELSE Append(State(r, s, c), Blank)
BY SeparatorsAre, StateIs DEF ReadSymbol

LEMMA CommaRead ==
  ASSUME NEW r \in Seq(RowOfCells), NEW s \in RowOfCells, NEW c \in Cell, NEW x, x = <<"char", 44>>
  PROVE  ReadSymbol(State(r, s, c), x) = State(r, Append(s, c), <<>>)
<1>1. <<x>> = Comma /\ ~(<<x>> = Newline)
  <2>1. x # <<"char", 10>>
    OBVIOUS
  <2> QED
    BY <2>1, SeparatorsAre
<1>2. Last(State(r, s, c)) = Append(s, c) /\ Front(State(r, s, c)) = r
  BY StateIs
<1>3. ReadSymbol(State(r, s, c), x) = Append(r, Append(Append(s, c), <<>>))
  BY <1>1, <1>2 DEF ReadSymbol
<1> QED
  BY <1>3 DEF State

LEMMA PlainRead ==
  ASSUME NEW r \in Seq(RowOfCells), NEW s \in RowOfCells, NEW c \in Cell, NEW x, x \notin Separators
  PROVE  ReadSymbol(State(r, s, c), x) = State(r, s, Append(c, x))
<1>1. ~(<<x>> = Comma) /\ ~(<<x>> = Newline)
  BY SeparatorsAre DEF Separators
<1>2. /\ Last(State(r, s, c)) = Append(s, c) /\ Front(State(r, s, c)) = r
      /\ Last(Append(s, c)) = c /\ Front(Append(s, c)) = s
  BY StateIs
<1>3. ReadSymbol(State(r, s, c), x) = Append(r, Append(s, Append(c, x)))
  BY <1>1, <1>2 DEF ReadSymbol
<1> QED
  BY <1>3 DEF State

LEMMA BlankIs == /\ Blank = Append(<<>>, <<>>) /\ Blank \in RowOfCells /\ <<>> \in RowOfCells /\ <<>> \in Cell
                 /\ <<>> \in Seq(RowOfCells) /\ <<Blank>> = State(<<>>, <<>>, <<>>) /\ Blank # <<>>
                 /\ <<Blank>> \in States
<1>1. <<>> \in RowOfCells /\ <<>> \in Cell /\ <<>> \in Seq(RowOfCells)
  BY EmptyIn DEF RowOfCells, Cell
<1>2. \A x : Append(<<>>, x) = <<x>> /\ <<x>> # <<>>
  OBVIOUS
<1>3. Blank = Append(<<>>, <<>>) /\ Blank # <<>>
  BY <1>2 DEF Blank
<1>4. <<Blank>> = Append(<<>>, Append(<<>>, <<>>))
  BY <1>2, <1>3
<1>5. State(<<>>, <<>>, <<>>) \in States /\ Append(<<>>, <<>>) \in RowOfCells
  BY <1>1, StateIs
<1> QED
  BY <1>1, <1>3, <1>4, <1>5 DEF State

LEMMA SymbolRead ==
  ASSUME NEW rows \in States, NEW x \in Symbol
  PROVE  ReadSymbol(rows, x) \in States
<1>1. PICK r \in Seq(RowOfCells), s \in RowOfCells, c \in Cell : rows = State(r, s, c)
  BY DEF States
<1>2. CASE x = <<"char", 10>>
  <2>1. Append(State(r, s, c), Blank) = State(Append(r, Append(s, c)), <<>>, <<>>)
    BY BlankIs DEF State
  <2>2. Append(r, Append(s, c)) \in Seq(RowOfCells)
    BY StateIs, AppendIn
  <2>3. State(Append(r, Append(s, c)), <<>>, <<>>) \in States
    BY <2>2, BlankIs, StateIs
  <2>4. ReadSymbol(rows, x) =
          IF Append(s, c) = Blank THEN State(r, s, c) ELSE Append(State(r, s, c), Blank)
    BY <1>1, <1>2, NewlineRead
  <2>5. Append(State(r, s, c), Blank) \in States
    BY <2>1, <2>3
  <2>6. State(r, s, c) \in States
    BY StateIs
  <2>7. CASE Append(s, c) = Blank
    <3>1. ReadSymbol(rows, x) = State(r, s, c)
      BY <2>4, <2>7
    <3> QED
      BY <3>1, <2>6
  <2>8. CASE Append(s, c) # Blank
    <3>1. ReadSymbol(rows, x) = Append(State(r, s, c), Blank)
      BY <2>4, <2>8
    <3> QED
      BY <3>1, <2>5
  <2> QED
    BY <2>7, <2>8
<1>3. CASE x = <<"char", 44>>
  <2>1. Append(s, c) \in RowOfCells
    BY StateIs
  <2>2. State(r, Append(s, c), <<>>) \in States
    BY <2>1, BlankIs, StateIs
  <2> QED
    BY <1>1, <1>3, <2>2, CommaRead
<1>4. CASE x \notin Separators
  <2>1. Append(c, x) \in Cell
    BY AppendIn DEF Cell
  <2>2. State(r, s, Append(c, x)) \in States
    BY <2>1, StateIs
  <2> QED
    BY <1>1, <1>4, <2>2, PlainRead
<1> QED
  BY <1>2, <1>3, <1>4 DEF Separators

ReadingOf(text) ==
  CHOOSE f : f = [n \in 0 .. Len(text) |-> IF n = 0 THEN <<Blank>> ELSE ReadSymbol(f[n - 1], text[n])]

\* The recursive function of ReadRows is there.
LEMMA ReadingIs ==
  ASSUME NEW text \in Cell
  PROVE  /\ ReadRows(text) = ReadingOf(text)[Len(text)]
         /\ ReadingOf(text)[0] = <<Blank>>
         /\ \A n \in 1 .. Len(text) : ReadingOf(text)[n] = ReadSymbol(ReadingOf(text)[n - 1], text[n])
<1> DEFINE D == 0 .. Len(text)
           V == States
           first == <<Blank>>
           size == [n \in D |-> n]
           S == [g \in [D -> V] |-> [n \in D |-> IF n = 0 THEN first ELSE ReadSymbol(g[n - 1], text[n])]]
<1>1. first \in V
  BY BlankIs
<1>2. Len(text) \in Nat
  BY DEF Cell
<1>3. ASSUME NEW g \in [D -> V], NEW n \in D
      PROVE  (IF n = 0 THEN first ELSE ReadSymbol(g[n - 1], text[n])) \in V
  <2>1. CASE n = 0
    BY <2>1, <1>1
  <2>2. CASE n # 0
    <3>1. n - 1 \in D /\ n \in 1 .. Len(text)
      BY <2>2, <1>2
    <3>2. g[n - 1] \in V /\ text[n] \in Symbol
      BY <3>1 DEF Cell
    <3> QED
      BY <2>2, <3>2, SymbolRead
  <2> QED
    BY <2>1, <2>2
<1>4. S \in [[D -> V] -> [D -> V]]
  <2> HIDE DEF V, first, D
  <2> QED
    BY <1>3
<1>5. ASSUME NEW g \in [D -> V], NEW h \in [D -> V], NEW n \in D,
             \A y \in D : size[y] < size[n] => g[y] = h[y]
      PROVE  S[g][n] = S[h][n]
  <2>1. n # 0 => n - 1 \in D /\ n - 1 < n
    BY <1>2
  <2> HIDE DEF V, first, D
  <2>2. n # 0 => g[n - 1] = h[n - 1]
    BY <1>5, <2>1
  <2> QED
    BY <2>2
<1>6. size \in [D -> Nat] /\ V # {}
  <2>1. size \in [D -> Nat]
    OBVIOUS
  <2> HIDE DEF V, first, size
  <2> QED
    BY <1>1, <2>1
<1>7. PICK h : Fixed(h, S, D, V)
  <2> HIDE DEF S, V, size, D
  <2>1. LooksBack(S, size, D, V)
    BY <1>4, <1>5, <1>6 DEF LooksBack
  <2> QED
    BY <2>1, Recursion
<1>8. h \in [D -> V] /\ h = [n \in D |-> IF n = 0 THEN first ELSE ReadSymbol(h[n - 1], text[n])]
  <2> HIDE DEF V, first, D
  <2> QED
    BY <1>7 DEF Fixed
<1> DEFINE f == ReadingOf(text)
<1>9. f = [n \in D |-> IF n = 0 THEN first ELSE ReadSymbol(f[n - 1], text[n])]
  BY <1>8 DEF ReadingOf
<1>10. ReadRows(text) = f[Len(text)]
  BY DEF ReadRows, ReadingOf
<1> HIDE DEF f, first
<1>11. f[0] = first
  BY <1>9, <1>2
<1>12. \A n \in 1 .. Len(text) : f[n] = ReadSymbol(f[n - 1], text[n])
  BY <1>9, <1>2
<1> QED
  BY <1>10, <1>11, <1>12 DEF f, first

LEMMA ReadFirst == ReadRows(<<>>) = <<Blank>>
<1>1. <<>> \in Cell /\ Len(<<>>) = 0
  BY BlankIs
<1> QED
  BY <1>1, ReadingIs

LEMMA ReadNext ==
  ASSUME NEW text \in Cell, NEW x \in Symbol
  PROVE  ReadRows(Append(text, x)) = ReadSymbol(ReadRows(text), x)
<1> DEFINE longer == Append(text, x)
           f == ReadingOf(text)
           g == ReadingOf(longer)
<1>1. /\ longer \in Cell /\ Len(text) \in Nat /\ Len(longer) = Len(text) + 1
      /\ longer[Len(text) + 1] = x /\ \A n \in 1 .. Len(text) : longer[n] = text[n]
  BY DEF Cell
<1> HIDE DEF longer
<1>2. /\ ReadRows(text) = f[Len(text)] /\ f[0] = <<Blank>>
      /\ \A n \in 1 .. Len(text) : f[n] = ReadSymbol(f[n - 1], text[n])
  BY ReadingIs
<1>3. /\ ReadRows(longer) = g[Len(longer)] /\ g[0] = <<Blank>>
      /\ \A n \in 1 .. Len(longer) : g[n] = ReadSymbol(g[n - 1], longer[n])
  BY <1>1, ReadingIs
<1> HIDE DEF f, g
<1> DEFINE T == {n \in Nat : n <= Len(text) => f[n] = g[n]}
<1>4. 0 \in T
  BY <1>2, <1>3
<1>5. ASSUME NEW n \in T PROVE n + 1 \in T
  <2> SUFFICES ASSUME n + 1 <= Len(text) PROVE f[n + 1] = g[n + 1]
    OBVIOUS
  <2>1. n \in Nat /\ n + 1 \in 1 .. Len(text) /\ n + 1 \in 1 .. Len(longer) /\ (n + 1) - 1 = n /\ n <= Len(text)
    BY <1>1
  <2>2. f[n] = g[n] /\ longer[n + 1] = text[n + 1]
    BY <1>1, <2>1
  <2>3. f[n + 1] = ReadSymbol(f[n], text[n + 1])
    BY <1>2, <2>1
  <2>4. g[n + 1] = ReadSymbol(g[n], longer[n + 1])
    BY <1>3, <2>1
  <2> QED
    BY <2>2, <2>3, <2>4
<1>6. T = Nat
  <2>1. T \in SUBSET Nat
    OBVIOUS
  <2> HIDE DEF T
  <2> QED
    BY <1>4, <1>5, <2>1, Induction
<1>7. f[Len(text)] = g[Len(text)]
  BY <1>1, <1>6
<1>8. Len(text) + 1 \in 1 .. Len(longer) /\ (Len(text) + 1) - 1 = Len(text)
  BY <1>1
<1>9. g[Len(longer)] = ReadSymbol(g[Len(text)], x)
  BY <1>1, <1>3, <1>8
<1> QED
  BY <1>2, <1>3, <1>7, <1>9 DEF longer

LEMMA AppendSome == ASSUME NEW D, NEW s \in Seq(D), NEW x \in D PROVE Append(s, x) # <<>>
<1>1. Len(Append(s, x)) = Len(s) + 1 /\ Len(s) \in Nat
  OBVIOUS
<1>2. Len(<<>>) = 0
  OBVIOUS
<1> QED
  BY <1>1, <1>2

LEMMA AppendConcat ==
  ASSUME NEW D, NEW s \in Seq(D), NEW t \in Seq(D), NEW x \in D, NEW u, u = Append(t, x)
  PROVE  Append(s \o t, x) = s \o u
<1>1. <<x>> \in Seq(D)
  OBVIOUS
<1>2. Append(t, x) = t \o <<x>>
  OBVIOUS
<1>3. s \o t \in Seq(D)
  OBVIOUS
<1>4. Append(s \o t, x) = (s \o t) \o <<x>>
  BY <1>3
<1>5. (s \o t) \o <<x>> = s \o (t \o <<x>>)
  BY <1>1, ConcatThrice
<1> QED
  BY <1>2, <1>4, <1>5

\* After this text: whole rows r, and cells of the next row, the last one unfinished.
Reads(text, r, row) ==
  /\ text \in Cell /\ r \in Seq(RowOfCells)
  /\ \E s \in RowOfCells, c \in Cell : row = Append(s, c) /\ ReadRows(text) = State(r, s, c)

LEMMA ReadsIs ==
  ASSUME NEW text, NEW r, NEW row, Reads(text, r, row)
  PROVE  /\ text \in Cell /\ r \in Seq(RowOfCells) /\ row \in RowOfCells /\ row # <<>>
         /\ ReadRows(text) = Append(r, row)
<1>1. text \in Cell /\ r \in Seq(RowOfCells)
  BY DEF Reads
<1>2. PICK s \in RowOfCells, c \in Cell : row = Append(s, c) /\ ReadRows(text) = State(r, s, c)
  BY DEF Reads
<1>3. row \in RowOfCells /\ row # <<>>
  <2>1. Append(s, c) \in RowOfCells
    BY AppendIn DEF RowOfCells
  <2>2. Append(s, c) # <<>>
    BY AppendSome DEF RowOfCells
  <2> QED
    BY <1>2, <2>1, <2>2
<1> QED
  BY <1>1, <1>2, <1>3 DEF State

LEMMA ReadsFirst == Reads(<<>>, <<>>, Blank)
<1>1. /\ Blank = Append(<<>>, <<>>) /\ <<>> \in RowOfCells /\ <<>> \in Cell /\ <<>> \in Seq(RowOfCells)
      /\ <<Blank>> = State(<<>>, <<>>, <<>>)
  BY BlankIs
<1> QED
  BY <1>1, ReadFirst DEF Reads

\* One cell more.
LEMMA ReadsComma ==
  ASSUME NEW text, NEW r, NEW row, Reads(text, r, row)
  PROVE  Reads(text \o Comma, r, Append(row, <<>>))
<1>1. text \in Cell /\ r \in Seq(RowOfCells)
  BY DEF Reads
<1>2. PICK s \in RowOfCells, c \in Cell : row = Append(s, c) /\ ReadRows(text) = State(r, s, c)
  BY DEF Reads
<1> DEFINE x == <<"char", 44>>
<1>3. x \in Symbol
  BY DEF Symbol
<1>4. text \o Comma = Append(text, x)
  <2>1. Comma = <<x>>
    BY SeparatorsAre
  <2> HIDE DEF x
  <2>2. text \o <<x>> = Append(text, x)
    BY <1>1, <1>3 DEF Cell
  <2> QED
    BY <2>1, <2>2
<1>5. ReadSymbol(State(r, s, c), x) = State(r, Append(s, c), <<>>)
  BY <1>1, CommaRead
<1> HIDE DEF x
<1>6. Append(text, x) \in Cell
  BY <1>1, <1>3, AppendIn DEF Cell
<1>7. ReadRows(text \o Comma) = State(r, row, <<>>)
  BY <1>1, <1>2, <1>3, <1>4, <1>5, ReadNext
<1>8. row \in RowOfCells /\ <<>> \in Cell
  BY ReadsIs, BlankIs
<1> QED
  BY <1>1, <1>4, <1>6, <1>7, <1>8 DEF Reads

\* A row that is not blank ends.
LEMMA ReadsNewline ==
  ASSUME NEW text, NEW r, NEW row, Reads(text, r, row)
  PROVE  /\ row # Blank => Reads(text \o Newline, Append(r, row), Blank)
         /\ row = Blank => Reads(text \o Newline, r, Blank)
<1>1. text \in Cell /\ r \in Seq(RowOfCells)
  BY DEF Reads
<1>2. PICK s \in RowOfCells, c \in Cell : row = Append(s, c) /\ ReadRows(text) = State(r, s, c)
  BY DEF Reads
<1> DEFINE x == <<"char", 10>>
<1>3. x \in Symbol
  BY DEF Symbol
<1>4. text \o Newline = Append(text, x)
  <2>1. Newline = <<x>>
    BY SeparatorsAre
  <2> HIDE DEF x
  <2>2. text \o <<x>> = Append(text, x)
    BY <1>1, <1>3 DEF Cell
  <2> QED
    BY <2>1, <2>2
<1>5. ReadSymbol(State(r, s, c), x) =
        IF Append(s, c) = Blank THEN State(r, s, c) ELSE Append(State(r, s, c), Blank)
  BY <1>1, NewlineRead
<1> HIDE DEF x
<1>6. Append(text, x) \in Cell
  BY <1>1, <1>3, AppendIn DEF Cell
<1>7. ReadRows(text \o Newline) = IF row = Blank THEN State(r, s, c) ELSE Append(State(r, s, c), Blank)
  BY <1>1, <1>2, <1>3, <1>4, <1>5, ReadNext
<1>8. row \in RowOfCells
  BY ReadsIs
<1>9. ASSUME row # Blank PROVE Reads(text \o Newline, Append(r, row), Blank)
  <2>1. Append(r, row) \in Seq(RowOfCells)
    BY <1>1, <1>8, AppendIn
  <2>2. ReadRows(text \o Newline) = Append(Append(r, row), Blank)
    BY <1>2, <1>7, <1>9 DEF State
  <2>3. /\ Blank = Append(<<>>, <<>>) /\ <<>> \in RowOfCells /\ <<>> \in Cell
    BY BlankIs
  <2>4. ReadRows(text \o Newline) = State(Append(r, row), <<>>, <<>>)
    BY <2>2, <2>3 DEF State
  <2> QED
    BY <1>4, <1>6, <2>1, <2>3, <2>4 DEF Reads
<1>10. ASSUME row = Blank PROVE Reads(text \o Newline, r, Blank)
  <2>1. ReadRows(text \o Newline) = State(r, s, c) /\ Blank = Append(s, c)
    BY <1>2, <1>7, <1>10
  <2> QED
    BY <1>1, <1>4, <1>6, <2>1 DEF Reads
<1> QED
  BY <1>9, <1>10

\* The text of a cell, which has no separators.
Plain(b) == b \in Cell /\ \A i \in 1 .. Len(b) : b[i] \notin Separators

LEMMA ReadsPlain ==
  ASSUME NEW text, NEW r, NEW s \in RowOfCells, NEW c \in Cell, Reads(text, r, Append(s, c)),
         NEW x \in Symbol, x \notin Separators
  PROVE  Reads(Append(text, x), r, Append(s, Append(c, x)))
<1>1. text \in Cell /\ r \in Seq(RowOfCells)
  BY DEF Reads
<1>2. PICK s1 \in RowOfCells, c1 \in Cell : Append(s, c) = Append(s1, c1) /\ ReadRows(text) = State(r, s1, c1)
  BY DEF Reads
<1>3. ReadRows(text) = State(r, s, c)
  BY <1>2 DEF State
<1>4. ReadSymbol(State(r, s, c), x) = State(r, s, Append(c, x))
  BY <1>1, PlainRead
<1>5. ReadRows(Append(text, x)) = State(r, s, Append(c, x))
  BY <1>1, <1>3, <1>4, ReadNext
<1>6. Append(text, x) \in Cell /\ Append(c, x) \in Cell
  BY <1>1, AppendIn DEF Cell
<1> QED
  BY <1>1, <1>5, <1>6 DEF Reads

LEMMA ReadsCell ==
  ASSUME NEW text, NEW r, NEW s \in RowOfCells, Reads(text, r, Append(s, <<>>)), NEW b, Plain(b)
  PROVE  Reads(text \o b, r, Append(s, b))
<1> DEFINE pre(n) == SubSeq(b, 1, n)
           P(n) == Reads(text \o pre(n), r, Append(s, pre(n)))
           T == {n \in Nat : n <= Len(b) => P(n)}
<1>1. b \in Seq(Symbol) /\ Len(b) \in Nat /\ text \in Seq(Symbol)
  BY DEF Plain, Reads, Cell
<1>2. 0 \in T
  <2>1. SubSeq(b, 1, 0) = <<>> /\ text \o <<>> = text
    BY <1>1
  <2>2. P(0)
    BY <2>1
  <2> QED
    BY <2>2
<1>3. ASSUME NEW n \in T PROVE n + 1 \in T
  <2> SUFFICES ASSUME n + 1 <= Len(b) PROVE P(n + 1)
    OBVIOUS
  <2> DEFINE m == n + 1
             x == b[m]
             p == SubSeq(b, 1, m - 1)
             q == SubSeq(b, 1, m)
  <2>1. m \in 1 .. Len(b) /\ m - 1 = n /\ n <= Len(b)
    BY <1>1
  <2> HIDE DEF m
  <2>2. Append(p, x) = q /\ p \in Seq(Symbol) /\ x \in Symbol
    BY <1>1, <2>1, SubSeqAppend
  <2>3. Reads(text \o p, r, Append(s, p))
    BY <2>1
  <2>4. x \notin Separators
    BY <2>1 DEF Plain
  <2> HIDE DEF p, q, x
  <2>5. p \in Cell
    BY <2>2 DEF Cell
  <2>6. Reads(Append(text \o p, x), r, Append(s, Append(p, x)))
    BY <2>2, <2>3, <2>4, <2>5, ReadsPlain
  <2>7. Append(text \o p, x) = text \o q
    <3>1. text \in Seq(Symbol) /\ p \in Seq(Symbol) /\ x \in Symbol /\ q = Append(p, x)
      BY <1>1, <2>2
    <3> HIDE DEF T, P
    <3> QED
      BY ONLY <3>1, AppendConcat
  <2>8. Reads(text \o q, r, Append(s, q))
    BY <2>2, <2>6, <2>7
  <2> QED
    BY <2>8 DEF q, m
<1>4. T = Nat
  <2>1. T \in SUBSET Nat
    OBVIOUS
  <2> HIDE DEF T
  <2> QED
    BY <1>2, <1>3, <2>1, Induction
<1>5. Len(b) \in T
  <2> HIDE DEF T
  <2> QED
    BY <1>1, <1>4
<1>6. P(Len(b)) 
  BY <1>1, <1>5
<1>7. SubSeq(b, 1, Len(b)) = b
  BY <1>1
<1> QED
  BY <1>6, <1>7

Grouped(x, y, z) == (x \o y) \o z = x \o (y \o z)

LEMMA Regroup ==
  ASSUME NEW D, NEW x \in Seq(D), NEW y \in Seq(D), NEW z \in Seq(D)
  PROVE  Grouped(x, y, z)
BY ConcatThrice DEF Grouped

Regrouped(t, a, b, c, d, f, n) ==
  ((((t \o a) \o (d \o b)) \o (d \o c)) \o f) \o n = t \o ((((((a \o d) \o b) \o d) \o c) \o f) \o n)

LEMMA RowText ==
  ASSUME NEW D, NEW t \in Seq(D), NEW a \in Seq(D), NEW b \in Seq(D), NEW c \in Seq(D),
         NEW d \in Seq(D), NEW f \in Seq(D), NEW n \in Seq(D)
  PROVE  Regrouped(t, a, b, c, d, f, n)
<1> DEFINE v1 == a \o d
           v2 == v1 \o b
           v3 == v2 \o d
           v4 == v3 \o c
           v5 == v4 \o f
           v6 == v5 \o n
           db == d \o b
           dc == d \o c
           t1 == t \o a
           t2 == t1 \o db
           t3 == t2 \o dc
           t4 == t3 \o f
           t5 == t4 \o n
<1>1. v1 \in Seq(D) /\ db \in Seq(D) /\ dc \in Seq(D)
  BY ConcatIn
<1>2. v2 \in Seq(D)
  <2> HIDE DEF v1
  <2> QED
    BY <1>1, ConcatIn
<1>3. v3 \in Seq(D)
  <2> HIDE DEF v2
  <2> QED
    BY <1>2, ConcatIn
<1>4. v4 \in Seq(D)
  <2> HIDE DEF v3
  <2> QED
    BY <1>3, ConcatIn
<1>5. v5 \in Seq(D)
  <2> HIDE DEF v4
  <2> QED
    BY <1>4, ConcatIn
<1>6. Grouped(a, d, b) /\ Grouped(t, a, db)
  <2> HIDE DEF db
  <2> QED
    BY <1>1, Regroup
<1>7. Grouped(v2, d, c) /\ Grouped(t, v2, dc)
  <2> HIDE DEF v2, dc
  <2> QED
    BY <1>1, <1>2, Regroup
<1>8. Grouped(t, v4, f) /\ Grouped(t, v5, n)
  <2> HIDE DEF v4, v5
  <2> QED
    BY <1>4, <1>5, Regroup
<1>9. t2 = t \o v2
  BY <1>6, Zenon DEF Grouped
<1>10. t3 = t \o v4
  <2> HIDE DEF v2, t2
  <2> QED
    BY <1>7, <1>9, Zenon DEF Grouped
<1>11. t5 = t \o v6
  <2> HIDE DEF v4, t3
  <2> QED
    BY <1>8, <1>10, Zenon DEF Grouped
<1> QED
  BY <1>11 DEF Regrouped

Longer(D, p, s, n, x) ==
  /\ p \in Seq(D) /\ Len(p) = n + 1 /\ p[n + 1] = x
  /\ \A i \in 1 .. n : p[i] = s[i]

LEMMA AppendIs ==
  ASSUME NEW D, NEW s \in Seq(D), NEW x \in D
  PROVE  Longer(D, Append(s, x), s, Len(s), x)
BY DEF Longer

LEMMA ThreeCells ==
  ASSUME NEW D, NEW x \in D, NEW y \in D, NEW z \in D
  PROVE  /\ Append(Append(Append(<<>>, x), y), z) = <<x, y, z>>
         /\ <<x, y, z>> \in Seq(D) /\ Len(<<x, y, z>>) = 3
<1>1. Append(<<>>, x) = <<x>>
  OBVIOUS
<1>2. Append(<<x>>, y) = <<x, y>>
  <2> DEFINE s == <<x>>
             p == Append(s, y)
             q == <<x, y>>
  <2>1. s \in Seq(D) /\ Len(s) = 1 /\ s[1] = x
    OBVIOUS
  <2> HIDE DEF s
  <2>2. p \in Seq(D) /\ Len(p) = 2 /\ p[1] = x /\ p[2] = y
    <3>0. Longer(D, p, s, Len(s), y)
      BY <2>1, AppendIs
    <3> HIDE DEF p
    <3>1. p \in Seq(D) /\ Len(p) = 1 + 1 /\ p[1 + 1] = y /\ \A i \in 1 .. 1 : p[i] = s[i]
      BY <2>1, <3>0 DEF Longer
    <3>2. 1 + 1 = 2 /\ 1 \in 1 .. 1
      OBVIOUS
    <3> QED
      BY <2>1, <3>1, <3>2
  <2>3. q \in Seq(D) /\ Len(q) = 2 /\ q[1] = x /\ q[2] = y
    OBVIOUS
  <2> HIDE DEF p, q
  <2>4. \A i \in 1 .. 2 : p[i] = q[i]
    <3>1. \A i \in 1 .. 2 : i = 1 \/ i = 2
      OBVIOUS
    <3> QED
      BY <2>2, <2>3, <3>1
  <2>5. p = q
    BY <2>2, <2>3, <2>4
  <2> QED
    BY <2>5 DEF p, q, s
<1>3. Append(<<x, y>>, z) = <<x, y, z>>
  <2> DEFINE s == <<x, y>>
             p == Append(s, z)
             q == <<x, y, z>>
  <2>1. s \in Seq(D) /\ Len(s) = 2 /\ s[1] = x /\ s[2] = y
    OBVIOUS
  <2> HIDE DEF s
  <2>2. p \in Seq(D) /\ Len(p) = 3 /\ p[1] = x /\ p[2] = y /\ p[3] = z
    <3>0. Longer(D, p, s, Len(s), z)
      BY <2>1, AppendIs
    <3> HIDE DEF p
    <3>1. p \in Seq(D) /\ Len(p) = 2 + 1 /\ p[2 + 1] = z /\ \A i \in 1 .. 2 : p[i] = s[i]
      BY <2>1, <3>0 DEF Longer
    <3>2. 2 + 1 = 3 /\ 1 \in 1 .. 2 /\ 2 \in 1 .. 2
      OBVIOUS
    <3> QED
      BY <2>1, <3>1, <3>2
  <2>3. q \in Seq(D) /\ Len(q) = 3 /\ q[1] = x /\ q[2] = y /\ q[3] = z
    OBVIOUS
  <2> HIDE DEF p, q
  <2>4. \A i \in 1 .. 3 : p[i] = q[i]
    <3>1. \A i \in 1 .. 3 : i = 1 \/ i = 2 \/ i = 3
      OBVIOUS
    <3> QED
      BY <2>2, <2>3, <3>1
  <2>5. p = q
    BY <2>2, <2>3, <2>4
  <2> QED
    BY <2>5 DEF p, q, s
<1>4. <<x, y, z>> \in Seq(D) /\ Len(<<x, y, z>>) = 3
  OBVIOUS
<1> QED
  BY <1>1, <1>2, <1>3, <1>4

LEMMA NotBlank ==
  ASSUME NEW D, NEW x \in Seq(D), Len(x) = 3, NEW y \in Seq(D)
  PROVE  x \o y # Blank
<1> DEFINE z == x \o y
<1>1. z \in Seq(D) /\ Len(z) = Len(x) + Len(y) /\ Len(y) \in Nat
  BY ConcatParts
<1>2. Len(Blank) = 1
  BY DEF Blank
<1> HIDE DEF z
<1>3. ASSUME z = Blank PROVE FALSE
  <2>1. Len(z) = 1
    BY <1>2, <1>3
  <2> DEFINE l == Len(y)
  <2>2. 1 = 3 + l /\ l \in Nat
    BY <1>1, <2>1
  <2> HIDE DEF l
  <2> QED
    BY <2>2
<1> QED
  BY <1>3 DEF z

\* A cell more, behind its comma.
LEMMA ReadsAnother ==
  ASSUME NEW text, NEW r, NEW row, Reads(text, r, row), NEW b, Plain(b)
  PROVE  Reads(text \o (Comma \o b), r, Append(row, b))
<1>1. Reads(text \o Comma, r, Append(row, <<>>))
  BY ReadsComma
<1>2. row \in RowOfCells /\ text \in Seq(Symbol) /\ b \in Seq(Symbol)
  BY ReadsIs DEF Plain, Cell
<1>3. Reads((text \o Comma) \o b, r, Append(row, b))
  BY <1>1, <1>2, ReadsCell
<1>4. Comma \in Seq(Symbol)
  BY SeparatorsAre DEF Cell
<1>5. (text \o Comma) \o b = text \o (Comma \o b)
  BY <1>2, <1>4, ConcatThrice
<1> QED
  BY <1>3, <1>5

WithCommas(columns) == [i \in DOMAIN columns |-> Comma \o columns[i]]

AllPlain(columns) == columns \in RowOfCells /\ \A i \in 1 .. Len(columns) : Plain(columns[i])

LEMMA ReadsColumns ==
  ASSUME NEW text, NEW r, NEW row, Reads(text, r, row), NEW columns, AllPlain(columns)
  PROVE  Reads(text \o FlattenSeq(WithCommas(columns)), r, row \o columns) /\ FlattenSeq(WithCommas(columns)) \in Cell
<1> DEFINE p == WithCommas(columns)
<1>1. /\ columns \in Seq(Cell) /\ Len(columns) \in Nat /\ DOMAIN columns = 1 .. Len(columns)
      /\ text \in Seq(Symbol) /\ row \in Seq(Cell)
  <2>1. columns \in Seq(Cell)
    BY DEF AllPlain, RowOfCells
  <2>2. text \in Seq(Symbol) /\ row \in Seq(Cell)
    BY ReadsIs DEF Cell, RowOfCells
  <2> QED
    BY <2>1, <2>2
<1>2. \A i \in 1 .. Len(columns) : p[i] = Comma \o columns[i] /\ p[i] \in Seq(Symbol) /\ Plain(columns[i])
  <2> TAKE i \in 1 .. Len(columns)
  <2>1. columns[i] \in Seq(Symbol) /\ Comma \in Seq(Symbol) /\ Plain(columns[i])
    BY <1>1, SeparatorsAre DEF AllPlain, Cell
  <2>2. p[i] = Comma \o columns[i]
    BY <1>1 DEF WithCommas
  <2>3. Comma \o columns[i] \in Seq(Symbol)
    BY <2>1, ConcatIn
  <2> QED
    BY <2>1, <2>2, <2>3
<1>3. p \in Seq(Seq(Symbol)) /\ Len(p) = Len(columns)
  <2>1. p = [i \in 1 .. Len(columns) |-> p[i]]
    BY <1>1 DEF WithCommas
  <2> HIDE DEF p
  <2>2. [i \in 1 .. Len(columns) |-> p[i]] \in Seq(Seq(Symbol))
    BY <1>1, <1>2
  <2>3. Len([i \in 1 .. Len(columns) |-> p[i]]) = Len(columns)
    BY <1>1
  <2> QED
    BY <2>1, <2>2, <2>3
<1> HIDE DEF p
<1>4. PICK f : Joins(f, p, Symbol)
  BY <1>3, JoinExists
<1>5. FlattenSeq(p) = f[Len(columns)]
  BY <1>3, <1>4, FlattenJoins
<1>6. f \in [0 .. Len(columns) -> Seq(Symbol)] /\ f[0] = <<>>
  BY <1>3, <1>4 DEF Joins
<1>7. \A i \in 1 .. Len(columns) : f[i] = f[i - 1] \o p[i]
  BY <1>3, <1>4, Zenon DEF Joins
<1> DEFINE P(n) == Reads(text \o f[n], r, row \o SubSeq(columns, 1, n))
           T == {n \in Nat : n <= Len(columns) => P(n)}
<1>8. 0 \in T
  <2>1. SubSeq(columns, 1, 0) = <<>> /\ text \o <<>> = text /\ row \o <<>> = row
    BY <1>1
  <2>2. P(0)
    BY <2>1, <1>6
  <2> QED
    BY <2>2
<1>9. ASSUME NEW n \in T PROVE n + 1 \in T
  <2> SUFFICES ASSUME n + 1 <= Len(columns) PROVE P(n + 1)
    OBVIOUS
  <2> DEFINE m == n + 1
             x == columns[m]
             a == SubSeq(columns, 1, m - 1)
             b == SubSeq(columns, 1, m)
             y == f[n]
  <2>1. m \in 1 .. Len(columns) /\ m - 1 = n /\ n <= Len(columns) /\ n \in 0 .. Len(columns)
    BY <1>1
  <2> HIDE DEF m
  <2>2. Append(a, x) = b /\ a \in Seq(Cell) /\ x \in Cell
    BY <1>1, <2>1, SubSeqAppend
  <2>3. Reads(text \o y, r, row \o a)
    BY <2>1
  <2>4. f[m] = f[n] \o p[m] /\ p[m] = Comma \o x /\ Plain(x)
    BY <1>2, <1>7, <2>1, Zenon
  <2>5. y \in Seq(Symbol) /\ p[m] \in Seq(Symbol)
    BY <1>2, <1>6, <2>1
  <2> HIDE DEF a, b, x, y, T, P
  <2>6. Reads((text \o y) \o (Comma \o x), r, Append(row \o a, x))
    BY <2>3, <2>4, ReadsAnother
  <2>7. (text \o y) \o p[m] = text \o (y \o p[m])
    <3>1. Grouped(text, y, p[m])
      BY <1>1, <2>5, Regroup
    <3> QED
      BY <3>1, Zenon DEF Grouped
  <2>8. Append(row \o a, x) = row \o b
    <3>1. row \in Seq(Cell) /\ a \in Seq(Cell) /\ x \in Cell /\ b = Append(a, x)
      BY <1>1, <2>2
    <3> QED
      BY ONLY <3>1, AppendConcat
  <2>9. Reads(text \o f[m], r, row \o b)
    BY <2>4, <2>6, <2>7, <2>8 DEF y
  <2> QED
    BY <2>9 DEF P, b, m
<1>10. T = Nat
  <2>1. T \in SUBSET Nat
    OBVIOUS
  <2> HIDE DEF T
  <2> QED
    BY <1>8, <1>9, <2>1, Induction
<1>11. P(Len(columns))
  <2>1. Len(columns) \in T
    <3> HIDE DEF T
    <3> QED
      BY <1>1, <1>10
  <2> QED
    BY <1>1, <2>1
<1>12. SubSeq(columns, 1, Len(columns)) = columns
  BY <1>1
<1>13. f[Len(columns)] \in Cell
  BY <1>1, <1>6 DEF Cell
<1> QED
  BY <1>5, <1>11, <1>12, <1>13 DEF p

Heading(e) == <<Dec(<<e.count>>), Dec(<<e.code>>), Dec(<<e.time>>)>>

LEMMA PlainNumber ==
  ASSUME NEW n \in Nat
  PROVE  Plain(Dec(<<n>>)) /\ Plain(Hex(<<n>>))
<1>1. Dec(<<n>>) = <<<<"dec", n>>>> /\ Hex(<<n>>) = <<<<"hex", n>>>>
  BY DEF Dec, Hex
<1>2. <<"dec", n>> \in Symbol /\ <<"hex", n>> \in Symbol
  BY DEF Symbol
<1>3. <<"dec", n>> \notin Separators /\ <<"hex", n>> \notin Separators
  BY DEF Separators
<1>4. \A x \in Symbol : x \notin Separators => Plain(<<x>>)
  BY DEF Plain, Cell
<1> QED
  BY <1>1, <1>2, <1>3, <1>4

\* The text of a row is read as a row, and the empty line behind it as nothing.
LEMMA ReadsRow ==
  ASSUME NEW text, NEW r, Reads(text, r, Blank), NEW e, e.count \in Nat, e.code \in Nat, e.time \in Nat,
         NEW columns, AllPlain(columns)
  PROVE  Reads(text \o Row(e, columns) \o Newline, Append(r, Heading(e) \o columns), Blank)
<1> DEFINE a == Dec(<<e.count>>)
           b == Dec(<<e.code>>)
           c == Dec(<<e.time>>)
           f == FlattenSeq(WithCommas(columns))
           row == Heading(e) \o columns
<1>1. Plain(a) /\ Plain(b) /\ Plain(c)
  BY PlainNumber
<1>2. Row(e, columns) = ((((((a \o Comma) \o b) \o Comma) \o c) \o f)) \o Newline /\ Heading(e) = <<a, b, c>>
  BY DEF Row, EventCSV, WithCommas, Heading
<1> HIDE DEF a, b, c, f
<1>3. /\ a \in Seq(Symbol) /\ b \in Seq(Symbol) /\ c \in Seq(Symbol) /\ text \in Seq(Symbol)
      /\ Comma \in Seq(Symbol) /\ Newline \in Seq(Symbol)
  BY <1>1, ReadsIs, SeparatorsAre DEF Plain, Cell
<1>4. Reads(text \o a, r, Append(<<>>, a))
  <2>1. Blank = Append(<<>>, <<>>) /\ <<>> \in RowOfCells
    BY BlankIs
  <2> QED
    BY <1>1, <2>1, ReadsCell
<1> DEFINE t1 == text \o a
           t2 == t1 \o (Comma \o b)
           t3 == t2 \o (Comma \o c)
           t4 == t3 \o f
<1>5. Reads(t2, r, Append(Append(<<>>, a), b))
  BY <1>1, <1>4, ReadsAnother
<1>6. Reads(t3, r, Append(Append(Append(<<>>, a), b), c))
  BY <1>1, <1>5, ReadsAnother
<1>7. /\ Append(Append(Append(<<>>, a), b), c) = Heading(e)
      /\ Heading(e) \in Seq(Cell) /\ Len(Heading(e)) = 3
  <2>1. a \in Cell /\ b \in Cell /\ c \in Cell
    BY <1>1 DEF Plain
  <2> QED
    BY <1>2, <2>1, ThreeCells
<1>8. Reads(t4, r, row) /\ f \in Seq(Symbol)
  BY <1>6, <1>7, ReadsColumns DEF f, Cell
<1>9. row # Blank
  BY <1>7, NotBlank DEF AllPlain, RowOfCells
<1>10. Reads(t4 \o Newline, Append(r, row), Blank)
  BY <1>8, <1>9, ReadsNewline
<1>11. Reads((t4 \o Newline) \o Newline, Append(r, row), Blank)
  BY <1>10, ReadsNewline
<1>12. t4 \o Newline = text \o Row(e, columns)
  <2>1. f \in Seq(Symbol)
    BY <1>8
  <2>2. Regrouped(text, a, b, c, Comma, f, Newline)
    BY ONLY <1>3, <2>1, RowText
  <2>3. ((((text \o a) \o (Comma \o b)) \o (Comma \o c)) \o f) \o Newline
          = text \o ((((((a \o Comma) \o b) \o Comma) \o c) \o f) \o Newline)
    BY <2>2 DEF Regrouped
  <2> QED
    BY <1>2, <2>3
<1> QED
  BY <1>11, <1>12 DEF row

\* What ReadRow makes of a cell.
Values(cell) == [k \in DOMAIN cell |-> cell[k][2]]

CellOf(cell, arg) == Plain(cell) /\ Values(cell) = arg

LEMMA OneValue ==
  ASSUME NEW arg \in Seq(Nat), Len(arg) = 1
  PROVE  arg = <<arg[1]>> /\ arg[1] \in Nat
OBVIOUS

LEMMA SymbolValue == \A kind, n : Values(<<<<kind, n>>>>) = <<n>>
BY DEF Values

LEMMA NumberCell ==
  ASSUME NEW n \in Nat
  PROVE  CellOf(Dec(<<n>>), <<n>>) /\ CellOf(Hex(<<n>>), <<n>>)
<1>1. Dec(<<n>>) = <<<<"dec", n>>>> /\ Hex(<<n>>) = <<<<"hex", n>>>>
  BY DEF Dec, Hex
<1>2. Values(Dec(<<n>>)) = <<n>> /\ Values(Hex(<<n>>)) = <<n>>
  BY <1>1, SymbolValue
<1> QED
  BY <1>2, PlainNumber DEF CellOf

LEMMA DecCell ==
  ASSUME NEW arg \in Seq(Nat), Len(arg) = 1
  PROVE  CellOf(Dec(arg), arg) /\ CellOf(Hex(arg), arg)
<1>1. arg = <<arg[1]>> /\ arg[1] \in Nat
  BY OneValue
<1> DEFINE n == arg[1]
<1>2. arg = <<n>> /\ n \in Nat
  BY <1>1
<1> HIDE DEF n
<1> QED
  BY <1>2, NumberCell

LEMMA BoolCell ==
  ASSUME NEW arg \in Seq(Nat), Len(arg) = 1, arg[1] \in {0, 1}
  PROVE  CellOf(Bool(arg), arg)
<1>1. arg = <<arg[1]>> /\ arg[1] \in Nat
  BY OneValue
<1> DEFINE n == arg[1]
           m == IF n = 0 THEN 0 ELSE 1
<1>2. arg = <<n>> /\ n \in Nat /\ m = n
  BY <1>1
<1>3. Bool(arg) = Dec(<<m>>)
  BY DEF Bool
<1> HIDE DEF n, m
<1> QED
  BY <1>2, <1>3, NumberCell

LEMMA TextCell ==
  ASSUME NEW arg \in Seq(Nat), \A k \in DOMAIN arg : arg[k] \notin {10, 44}
  PROVE  CellOf(Text(arg), arg)
<1> DEFINE cell == Text(arg)
<1>1. cell = [i \in 1 .. Len(arg) |-> <<"char", arg[i]>>] /\ Len(arg) \in Nat
  BY DEF Text
<1> HIDE DEF cell
<1>2. \A i \in 1 .. Len(arg) : cell[i] = <<"char", arg[i]>> /\ arg[i] \in Nat /\ arg[i] # 10 /\ arg[i] # 44
  BY <1>1
<1>3. \A i \in 1 .. Len(arg) : cell[i] \in Symbol /\ cell[i] \notin Separators /\ cell[i][2] = arg[i]
  <2> TAKE i \in 1 .. Len(arg)
  <2> DEFINE n == arg[i]
  <2>1. cell[i] = <<"char", n>> /\ n \in Nat /\ n # 10 /\ n # 44
    BY <1>2
  <2> HIDE DEF n
  <2>2. <<"char", n>> \in Symbol
    BY <2>1 DEF Symbol
  <2>3. <<"char", n>> \notin Separators
    BY <2>1 DEF Separators
  <2>4. <<"char", n>>[2] = n
    OBVIOUS
  <2> QED
    BY <2>1, <2>2, <2>3, <2>4 DEF n
<1>4. cell \in Seq(Symbol) /\ Len(cell) = Len(arg) /\ DOMAIN cell = 1 .. Len(arg)
  <2>1. cell \in [1 .. Len(arg) -> Symbol] /\ DOMAIN cell = 1 .. Len(arg)
    BY <1>1, <1>3
  <2> QED
    BY <1>1, <2>1
<1>5. Plain(cell)
  BY <1>3, <1>4 DEF Plain, Cell
<1>6. Values(cell) = arg
  <2>1. Values(cell) = [k \in 1 .. Len(arg) |-> cell[k][2]]
    BY <1>4 DEF Values
  <2>2. [k \in 1 .. Len(arg) |-> cell[k][2]] = [k \in 1 .. Len(arg) |-> arg[k]]
    BY <1>3
  <2>3. [k \in 1 .. Len(arg) |-> arg[k]] = arg
    OBVIOUS
  <2> QED
    BY <2>1, <2>2, <2>3
<1> QED
  BY <1>5, <1>6 DEF CellOf, cell

\* The cells of the arguments.
CellsOf(columns, args) ==
  /\ AllPlain(columns) /\ Len(columns) = Len(args)
  /\ \A i \in 1 .. Len(args) : CellOf(columns[i], args[i])

LEMMA CellsAre ==
  ASSUME NEW columns \in Seq(Cell), NEW args \in Seq(Seq(Nat)), Len(columns) = Len(args),
         \A i \in 1 .. Len(args) : CellOf(columns[i], args[i])
  PROVE  CellsOf(columns, args)
BY DEF CellsOf, AllPlain, CellOf, RowOfCells

LEMMA OneColumn ==
  ASSUME NEW args \in Seq(Seq(Nat)), Len(args) = 1, NEW a, CellOf(a, args[1])
  PROVE  CellsOf(<<a>>, args)
<1>1. a \in Cell
  BY DEF CellOf, Plain
<1>2. <<a>> \in Seq(Cell) /\ Len(<<a>>) = 1 /\ <<a>>[1] = a
  BY <1>1
<1>3. \A i \in 1 .. 1 : i = 1
  OBVIOUS
<1>4. \A i \in 1 .. Len(args) : CellOf(<<a>>[i], args[i])
  BY <1>2, <1>3
<1> QED
  BY <1>2, <1>4, CellsAre

LEMMA TwoColumns ==
  ASSUME NEW args \in Seq(Seq(Nat)), Len(args) = 2, NEW a, CellOf(a, args[1]), NEW b, CellOf(b, args[2])
  PROVE  CellsOf(<<a, b>>, args)
<1>1. a \in Cell /\ b \in Cell
  BY DEF CellOf, Plain
<1> DEFINE s == <<a, b>>
<1>2. s \in Seq(Cell) /\ Len(s) = 2 /\ s[1] = a /\ s[2] = b
  BY <1>1
<1> HIDE DEF s
<1>3. \A i \in 1 .. 2 : i = 1 \/ i = 2
  OBVIOUS
<1>4. \A i \in 1 .. Len(args) : CellOf(s[i], args[i])
  BY <1>2, <1>3
<1>5. CellsOf(s, args)
  BY <1>2, <1>4, CellsAre
<1> QED
  BY <1>5 DEF s

LEMMA ThreeColumns ==
  ASSUME NEW args \in Seq(Seq(Nat)), Len(args) = 3, NEW a, CellOf(a, args[1]), NEW b, CellOf(b, args[2]),
         NEW c, CellOf(c, args[3])
  PROVE  CellsOf(<<a, b, c>>, args)
<1>1. a \in Cell /\ b \in Cell /\ c \in Cell
  BY DEF CellOf, Plain
<1> DEFINE s == <<a, b, c>>
<1>2. s \in Seq(Cell) /\ Len(s) = 3 /\ s[1] = a /\ s[2] = b /\ s[3] = c
  BY <1>1
<1> HIDE DEF s
<1>3. \A i \in 1 .. 3 : i = 1 \/ i = 2 \/ i = 3
  OBVIOUS
<1>4. \A i \in 1 .. Len(args) : CellOf(s[i], args[i])
  BY <1>2, <1>3
<1>5. CellsOf(s, args)
  BY <1>2, <1>4, CellsAre
<1> QED
  BY <1>5 DEF s

LEMMA FourColumns ==
  ASSUME NEW args \in Seq(Seq(Nat)), Len(args) = 4, NEW a, CellOf(a, args[1]), NEW b, CellOf(b, args[2]),
         NEW c, CellOf(c, args[3]), NEW d, CellOf(d, args[4])
  PROVE  CellsOf(<<a, b, c, d>>, args)
<1>1. a \in Cell /\ b \in Cell /\ c \in Cell /\ d \in Cell
  BY DEF CellOf, Plain
<1> DEFINE s == <<a, b, c, d>>
<1>2. s \in Seq(Cell) /\ Len(s) = 4 /\ s[1] = a /\ s[2] = b /\ s[3] = c /\ s[4] = d
  BY <1>1
<1> HIDE DEF s
<1>3. \A i \in 1 .. 4 : i = 1 \/ i = 2 \/ i = 3 \/ i = 4
  OBVIOUS
<1>4. \A i \in 1 .. Len(args) : CellOf(s[i], args[i])
  BY <1>2, <1>3
<1>5. CellsOf(s, args)
  BY <1>2, <1>4, CellsAre
<1> QED
  BY <1>5 DEF s

\* The row that an event becomes, by its columns; only StopStream has one more than arguments.
Columns(e, columns) ==
  /\ GetAsCSV(e) = Row(e, columns) /\ AllPlain(columns)
  /\ Len(e.args) <= Len(columns) /\ \A i \in 1 .. Len(e.args) : CellOf(columns[i], e.args[i])

LEMMA ColumnsAre ==
  ASSUME NEW e, NEW columns, GetAsCSV(e) = Row(e, columns), CellsOf(columns, e.args), e.args \in Seq(Seq(Nat))
  PROVE  \E c : Columns(e, c)
<1>1. Len(columns) \in Nat
  BY DEF CellsOf, AllPlain, RowOfCells
<1>2. Columns(e, columns)
  BY <1>1 DEF CellsOf, Columns
<1> QED
  BY <1>2

\* Which row and which layout a code has.
LEMMA RowOf ==
  ASSUME NEW e
  PROVE  /\ e.code = BeginStream => GetAsCSV(e) = InitStreamRow(e)
         /\ e.code = EndStream => GetAsCSV(e) = StopStreamRow(e)
         /\ e.code = HeapCreate => GetAsCSV(e) = AddHeapRow(e)
         /\ e.code = HeapDestroy => GetAsCSV(e) = RemoveHeapRow(e)
         /\ e.code = HeapAddCore => GetAsCSV(e) = AddCoreRow(e)
         /\ e.code = HeapGrowCore => GetAsCSV(e) = GrowCoreRow(e)
         /\ e.code = HeapRemoveCore => GetAsCSV(e) = RemoveCoreRow(e)
         /\ e.code = HeapShrinkCore => GetAsCSV(e) = ShrinkCoreRow(e)
         /\ e.code = HeapAllocate => GetAsCSV(e) = AddAllocationRow(e)
         /\ e.code = HeapFree => GetAsCSV(e) = RemoveAllocationRow(e)
         /\ e.code = HeapFreeAll => GetAsCSV(e) = RemoveAllAllocationsRow(e)
         /\ e.code = EventStart => GetAsCSV(e) = StartEventRow(e)
         /\ e.code = EventEnd => GetAsCSV(e) = EndEventRow(e)
         /\ e.code = SetBackingAllocator => GetAsCSV(e) = HeapSetBackingAllocatorRow(e)
BY DEF GetAsCSV, BeginStream, EndStream, HeapCreate, HeapDestroy, HeapAddCore,
       HeapGrowCore, HeapRemoveCore, HeapShrinkCore, HeapAllocate, HeapFree, HeapFreeAll,
       EventStart, EventEnd, SetBackingAllocator

LEMMA LayoutOf ==
  /\ Layout[BeginStream] = <<"value", "string", "value">>
  /\ Layout[EndStream] = <<>>
  /\ Layout[HeapCreate] = <<"value", "string", "string">>
  /\ Layout[HeapDestroy] = <<"value">>
  /\ Layout[HeapAddCore] = <<"value", "value", "value">>
  /\ Layout[HeapGrowCore] = <<"value", "value", "value">>
  /\ Layout[HeapRemoveCore] = <<"value", "value", "value">>
  /\ Layout[HeapShrinkCore] = <<"value", "value", "value">>
  /\ Layout[HeapAllocate] = <<"value", "value", "value", "value">>
  /\ Layout[HeapFree] = <<"value", "value", "value">>
  /\ Layout[HeapFreeAll] = <<"value">>
  /\ Layout[EventStart] = <<"string">>
  /\ Layout[EventEnd] = <<"string">>
  /\ Layout[SetBackingAllocator] = <<"value", "value">>
BY DEF Layout, Codes, BeginStream, EndStream, HeapCreate, HeapDestroy, HeapAddCore,
       HeapGrowCore, HeapRemoveCore, HeapShrinkCore, HeapAllocate, HeapFree, HeapFreeAll,
       EventStart, EventEnd, SetBackingAllocator

\* An event whose arguments are as they were sent, and fit the columns.
Tabular(e) == e.code \in Codes /\ e.args \in Seq(Seq(Nat)) /\ HasArgs(e) /\ FitsColumns(e)

NumberAt(e, i) == /\ CellOf(Dec(e.args[i]), e.args[i]) /\ CellOf(Hex(e.args[i]), e.args[i])
                  /\ e.args[i] \in Seq(Nat) /\ Len(e.args[i]) = 1

TextAt(e, i) == CellOf(Text(e.args[i]), e.args[i])

LEMMA CellAt ==
  ASSUME NEW e, Tabular(e), NEW i \in 1 .. Len(Layout[e.code])
  PROVE  /\ Layout[e.code][i] = "value" => NumberAt(e, i)
         /\ Layout[e.code][i] = "string" => TextAt(e, i)
         /\ Len(e.args) = Len(Layout[e.code])
<1>1. e.args \in Seq(Seq(Nat)) /\ Len(e.args) = Len(Layout[e.code]) /\ DOMAIN e.args = 1 .. Len(e.args)
  BY DEF Tabular, HasArgs
<1>2. i \in DOMAIN e.args /\ e.args[i] \in Seq(Nat)
  BY <1>1
<1>3. CASE Layout[e.code][i] = "value"
  <2>1. Len(e.args[i]) = 1
    BY <1>2, <1>3 DEF Tabular, HasArgs
  <2>2. NumberAt(e, i)
    BY <1>2, <2>1, DecCell DEF NumberAt
  <2> QED
    BY <1>1, <1>3, <2>2
<1>4. CASE Layout[e.code][i] = "string"
  <2>1. \A k \in DOMAIN e.args[i] : e.args[i][k] \notin {10, 44}
    BY <1>2, <1>4 DEF Tabular, FitsColumns
  <2>2. TextAt(e, i)
    BY <1>2, <2>1, TextCell DEF TextAt
  <2> QED
    BY <1>1, <1>4, <2>2
<1> QED
  BY <1>1, <1>3, <1>4

LEMMA ShapeS ==
  ASSUME NEW e, Tabular(e), Layout[e.code] = <<"string">>
  PROVE  Len(e.args) = 1 /\ e.args \in Seq(Seq(Nat))
         /\ TextAt(e, 1)
<1> DEFINE l == <<"string">>
<1>1. Len(l) = 1 /\ l[1] = "string"
  OBVIOUS
<1>2. Layout[e.code] = l
  OBVIOUS
<1> HIDE DEF l
<1>3. 1 \in 1 .. 1
  OBVIOUS
<1> QED
  BY <1>1, <1>2, <1>3, CellAt DEF Tabular

LEMMA ShapeV ==
  ASSUME NEW e, Tabular(e), Layout[e.code] = <<"value">>
  PROVE  Len(e.args) = 1 /\ e.args \in Seq(Seq(Nat))
         /\ NumberAt(e, 1)
<1> DEFINE l == <<"value">>
<1>1. Len(l) = 1 /\ l[1] = "value"
  OBVIOUS
<1>2. Layout[e.code] = l
  OBVIOUS
<1> HIDE DEF l
<1>3. 1 \in 1 .. 1
  OBVIOUS
<1> QED
  BY <1>1, <1>2, <1>3, CellAt DEF Tabular

LEMMA ShapeVV ==
  ASSUME NEW e, Tabular(e), Layout[e.code] = <<"value", "value">>
  PROVE  Len(e.args) = 2 /\ e.args \in Seq(Seq(Nat))
         /\ NumberAt(e, 1) /\ NumberAt(e, 2)
<1> DEFINE l == <<"value", "value">>
<1>1. Len(l) = 2 /\ l[1] = "value" /\ l[2] = "value"
  OBVIOUS
<1>2. Layout[e.code] = l
  OBVIOUS
<1> HIDE DEF l
<1>3. 1 \in 1 .. 2 /\ 2 \in 1 .. 2
  OBVIOUS
<1> QED
  BY <1>1, <1>2, <1>3, CellAt DEF Tabular

LEMMA ShapeVSS ==
  ASSUME NEW e, Tabular(e), Layout[e.code] = <<"value", "string", "string">>
  PROVE  Len(e.args) = 3 /\ e.args \in Seq(Seq(Nat))
         /\ NumberAt(e, 1) /\ TextAt(e, 2) /\ TextAt(e, 3)
<1> DEFINE l == <<"value", "string", "string">>
<1>1. Len(l) = 3 /\ l[1] = "value" /\ l[2] = "string" /\ l[3] = "string"
  OBVIOUS
<1>2. Layout[e.code] = l
  OBVIOUS
<1> HIDE DEF l
<1>3. 1 \in 1 .. 3 /\ 2 \in 1 .. 3 /\ 3 \in 1 .. 3
  OBVIOUS
<1> QED
  BY <1>1, <1>2, <1>3, CellAt DEF Tabular

LEMMA ShapeVSV ==
  ASSUME NEW e, Tabular(e), Layout[e.code] = <<"value", "string", "value">>
  PROVE  Len(e.args) = 3 /\ e.args \in Seq(Seq(Nat))
         /\ NumberAt(e, 1) /\ TextAt(e, 2) /\ NumberAt(e, 3)
<1> DEFINE l == <<"value", "string", "value">>
<1>1. Len(l) = 3 /\ l[1] = "value" /\ l[2] = "string" /\ l[3] = "value"
  OBVIOUS
<1>2. Layout[e.code] = l
  OBVIOUS
<1> HIDE DEF l
<1>3. 1 \in 1 .. 3 /\ 2 \in 1 .. 3 /\ 3 \in 1 .. 3
  OBVIOUS
<1> QED
  BY <1>1, <1>2, <1>3, CellAt DEF Tabular

LEMMA ShapeVVV ==
  ASSUME NEW e, Tabular(e), Layout[e.code] = <<"value", "value", "value">>
  PROVE  Len(e.args) = 3 /\ e.args \in Seq(Seq(Nat))
         /\ NumberAt(e, 1) /\ NumberAt(e, 2) /\ NumberAt(e, 3)
<1> DEFINE l == <<"value", "value", "value">>
<1>1. Len(l) = 3 /\ l[1] = "value" /\ l[2] = "value" /\ l[3] = "value"
  OBVIOUS
<1>2. Layout[e.code] = l
  OBVIOUS
<1> HIDE DEF l
<1>3. 1 \in 1 .. 3 /\ 2 \in 1 .. 3 /\ 3 \in 1 .. 3
  OBVIOUS
<1> QED
  BY <1>1, <1>2, <1>3, CellAt DEF Tabular

LEMMA ShapeVVVV ==
  ASSUME NEW e, Tabular(e), Layout[e.code] = <<"value", "value", "value", "value">>
  PROVE  Len(e.args) = 4 /\ e.args \in Seq(Seq(Nat))
         /\ NumberAt(e, 1) /\ NumberAt(e, 2) /\ NumberAt(e, 3) /\ NumberAt(e, 4)
<1> DEFINE l == <<"value", "value", "value", "value">>
<1>1. Len(l) = 4 /\ l[1] = "value" /\ l[2] = "value" /\ l[3] = "value" /\ l[4] = "value"
  OBVIOUS
<1>2. Layout[e.code] = l
  OBVIOUS
<1> HIDE DEF l
<1>3. 1 \in 1 .. 4 /\ 2 \in 1 .. 4 /\ 3 \in 1 .. 4 /\ 4 \in 1 .. 4
  OBVIOUS
<1> QED
  BY <1>1, <1>2, <1>3, CellAt DEF Tabular

LEMMA ColumnsExist ==
  ASSUME NEW e, Tabular(e)
  PROVE  \E c : Columns(e, c)
<1>1. CASE e.code = BeginStream
  <2> DEFINE a == Hex(e.args[1])
             b == Text(e.args[2])
             c == Dec(e.args[3])
  <2>1. GetAsCSV(e) = Row(e, <<a, b, c>>)
    BY <1>1, RowOf DEF InitStreamRow
  <2>2. Len(e.args) = 3 /\ e.args \in Seq(Seq(Nat))
        /\ NumberAt(e, 1) /\ TextAt(e, 2) /\ NumberAt(e, 3)
    BY <1>1, LayoutOf, ShapeVSV
  <2>5. CellOf(a, e.args[1]) /\ CellOf(b, e.args[2]) /\ CellOf(c, e.args[3])
    BY <2>2 DEF NumberAt, TextAt
  <2> HIDE DEF a, b, c
  <2>6. CellsOf(<<a, b, c>>, e.args)
    BY <2>2, <2>5, ThreeColumns
  <2> QED
    BY <2>1, <2>2, <2>6, ColumnsAre
<1>2. CASE e.code = EndStream
  <2> DEFINE x == <<"remark", "#stream ended">>
             s == <<<<x>>>>
  <2>1. GetAsCSV(e) = Row(e, s)
    BY <1>2, RowOf DEF StopStreamRow
  <2>2. Len(e.args) = 0
    <3>1. Len(Layout[e.code]) = 0
      BY <1>2, LayoutOf
    <3> QED
      BY <3>1 DEF Tabular, HasArgs
  <2>3. x \in Symbol /\ x \notin Separators
    BY DEF Symbol, Separators
  <2> HIDE DEF x
  <2>4. Plain(<<x>>) /\ <<x>> \in Cell
    BY <2>3 DEF Plain, Cell
  <2> DEFINE y == <<x>>
  <2>5. Plain(y) /\ y \in Cell /\ s = <<y>>
    BY <2>4
  <2> HIDE DEF y, s
  <2>6. AllPlain(s) /\ Len(s) = 1
    BY <2>5 DEF AllPlain, RowOfCells
  <2>7. Columns(e, s)
    BY <2>1, <2>2, <2>6 DEF Columns
  <2> QED
    BY <2>7
<1>3. CASE e.code = HeapCreate
  <2> DEFINE a == Dec(e.args[1])
             b == Text(e.args[2])
             c == Text(e.args[3])
  <2>1. GetAsCSV(e) = Row(e, <<a, b, c>>)
    BY <1>3, RowOf DEF AddHeapRow
  <2>2. Len(e.args) = 3 /\ e.args \in Seq(Seq(Nat))
        /\ NumberAt(e, 1) /\ TextAt(e, 2) /\ TextAt(e, 3)
    BY <1>3, LayoutOf, ShapeVSS
  <2>5. CellOf(a, e.args[1]) /\ CellOf(b, e.args[2]) /\ CellOf(c, e.args[3])
    BY <2>2 DEF NumberAt, TextAt
  <2> HIDE DEF a, b, c
  <2>6. CellsOf(<<a, b, c>>, e.args)
    BY <2>2, <2>5, ThreeColumns
  <2> QED
    BY <2>1, <2>2, <2>6, ColumnsAre
<1>4. CASE e.code = HeapDestroy
  <2> DEFINE a == Dec(e.args[1])
  <2>1. GetAsCSV(e) = Row(e, <<a>>)
    BY <1>4, RowOf DEF RemoveHeapRow
  <2>2. Len(e.args) = 1 /\ e.args \in Seq(Seq(Nat))
        /\ NumberAt(e, 1)
    BY <1>4, LayoutOf, ShapeV
  <2>5. CellOf(a, e.args[1])
    BY <2>2 DEF NumberAt, TextAt
  <2> HIDE DEF a
  <2>6. CellsOf(<<a>>, e.args)
    BY <2>2, <2>5, OneColumn
  <2> QED
    BY <2>1, <2>2, <2>6, ColumnsAre
<1>5. CASE e.code = HeapAddCore
  <2> DEFINE a == Dec(e.args[1])
             b == Hex(e.args[2])
             c == Dec(e.args[3])
  <2>1. GetAsCSV(e) = Row(e, <<a, b, c>>)
    BY <1>5, RowOf DEF AddCoreRow
  <2>2. Len(e.args) = 3 /\ e.args \in Seq(Seq(Nat))
        /\ NumberAt(e, 1) /\ NumberAt(e, 2) /\ NumberAt(e, 3)
    BY <1>5, LayoutOf, ShapeVVV
  <2>5. CellOf(a, e.args[1]) /\ CellOf(b, e.args[2]) /\ CellOf(c, e.args[3])
    BY <2>2 DEF NumberAt, TextAt
  <2> HIDE DEF a, b, c
  <2>6. CellsOf(<<a, b, c>>, e.args)
    BY <2>2, <2>5, ThreeColumns
  <2> QED
    BY <2>1, <2>2, <2>6, ColumnsAre
<1>6. CASE e.code = HeapGrowCore
  <2> DEFINE a == Dec(e.args[1])
             b == Hex(e.args[2])
             c == Dec(e.args[3])
  <2>1. GetAsCSV(e) = Row(e, <<a, b, c>>)
    BY <1>6, RowOf DEF GrowCoreRow
  <2>2. Len(e.args) = 3 /\ e.args \in Seq(Seq(Nat))
        /\ NumberAt(e, 1) /\ NumberAt(e, 2) /\ NumberAt(e, 3)
    BY <1>6, LayoutOf, ShapeVVV
  <2>5. CellOf(a, e.args[1]) /\ CellOf(b, e.args[2]) /\ CellOf(c, e.args[3])
    BY <2>2 DEF NumberAt, TextAt
  <2> HIDE DEF a, b, c
  <2>6. CellsOf(<<a, b, c>>, e.args)
    BY <2>2, <2>5, ThreeColumns
  <2> QED
    BY <2>1, <2>2, <2>6, ColumnsAre
<1>7. CASE e.code = HeapRemoveCore
  <2> DEFINE a == Dec(e.args[1])
             b == Hex(e.args[2])
             c == Dec(e.args[3])
  <2>1. GetAsCSV(e) = Row(e, <<a, b, c>>)
    BY <1>7, RowOf DEF RemoveCoreRow
  <2>2. Len(e.args) = 3 /\ e.args \in Seq(Seq(Nat))
        /\ NumberAt(e, 1) /\ NumberAt(e, 2) /\ NumberAt(e, 3)
    BY <1>7, LayoutOf, ShapeVVV
  <2>5. CellOf(a, e.args[1]) /\ CellOf(b, e.args[2]) /\ CellOf(c, e.args[3])
    BY <2>2 DEF NumberAt, TextAt
  <2> HIDE DEF a, b, c
  <2>6. CellsOf(<<a, b, c>>, e.args)
    BY <2>2, <2>5, ThreeColumns
  <2> QED
    BY <2>1, <2>2, <2>6, ColumnsAre
<1>8. CASE e.code = HeapShrinkCore
  <2> DEFINE a == Dec(e.args[1])
             b == Hex(e.args[2])
             c == Dec(e.args[3])
  <2>1. GetAsCSV(e) = Row(e, <<a, b, c>>)
    BY <1>8, RowOf DEF ShrinkCoreRow
  <2>2. Len(e.args) = 3 /\ e.args \in Seq(Seq(Nat))
        /\ NumberAt(e, 1) /\ NumberAt(e, 2) /\ NumberAt(e, 3)
    BY <1>8, LayoutOf, ShapeVVV
  <2>5. CellOf(a, e.args[1]) /\ CellOf(b, e.args[2]) /\ CellOf(c, e.args[3])
    BY <2>2 DEF NumberAt, TextAt
  <2> HIDE DEF a, b, c
  <2>6. CellsOf(<<a, b, c>>, e.args)
    BY <2>2, <2>5, ThreeColumns
  <2> QED
    BY <2>1, <2>2, <2>6, ColumnsAre
<1>9. CASE e.code = HeapAllocate
  <2> DEFINE a == Dec(e.args[1])
             b == Hex(e.args[2])
             c == Dec(e.args[3])
             d == Bool(e.args[4])
  <2>1. GetAsCSV(e) = Row(e, <<a, b, c, d>>)
    BY <1>9, RowOf DEF AddAllocationRow
  <2>2. Len(e.args) = 4 /\ e.args \in Seq(Seq(Nat))
        /\ NumberAt(e, 1) /\ NumberAt(e, 2) /\ NumberAt(e, 3) /\ NumberAt(e, 4)
    BY <1>9, LayoutOf, ShapeVVVV
  <2>3. e.args[4][1] \in {0, 1}
    BY <1>9 DEF Tabular, FitsColumns
  <2>4. CellOf(d, e.args[4])
    BY <2>2, <2>3, BoolCell DEF NumberAt
  <2>5. CellOf(a, e.args[1]) /\ CellOf(b, e.args[2]) /\ CellOf(c, e.args[3]) /\ CellOf(d, e.args[4])
    BY <2>2, <2>4 DEF NumberAt, TextAt
  <2> HIDE DEF a, b, c, d
  <2>6. CellsOf(<<a, b, c, d>>, e.args)
    BY <2>2, <2>5, FourColumns
  <2> QED
    BY <2>1, <2>2, <2>6, ColumnsAre
<1>10. CASE e.code = HeapFree
  <2> DEFINE a == Dec(e.args[1])
             b == Hex(e.args[2])
             c == Bool(e.args[3])
  <2>1. GetAsCSV(e) = Row(e, <<a, b, c>>)
    BY <1>10, RowOf DEF RemoveAllocationRow
  <2>2. Len(e.args) = 3 /\ e.args \in Seq(Seq(Nat))
        /\ NumberAt(e, 1) /\ NumberAt(e, 2) /\ NumberAt(e, 3)
    BY <1>10, LayoutOf, ShapeVVV
  <2>3. e.args[3][1] \in {0, 1}
    BY <1>10 DEF Tabular, FitsColumns
  <2>4. CellOf(c, e.args[3])
    BY <2>2, <2>3, BoolCell DEF NumberAt
  <2>5. CellOf(a, e.args[1]) /\ CellOf(b, e.args[2]) /\ CellOf(c, e.args[3])
    BY <2>2, <2>4 DEF NumberAt, TextAt
  <2> HIDE DEF a, b, c
  <2>6. CellsOf(<<a, b, c>>, e.args)
    BY <2>2, <2>5, ThreeColumns
  <2> QED
    BY <2>1, <2>2, <2>6, ColumnsAre
<1>11. CASE e.code = HeapFreeAll
  <2> DEFINE a == Dec(e.args[1])
  <2>1. GetAsCSV(e) = Row(e, <<a>>)
    BY <1>11, RowOf DEF RemoveAllAllocationsRow
  <2>2. Len(e.args) = 1 /\ e.args \in Seq(Seq(Nat))
        /\ NumberAt(e, 1)
    BY <1>11, LayoutOf, ShapeV
  <2>5. CellOf(a, e.args[1])
    BY <2>2 DEF NumberAt, TextAt
  <2> HIDE DEF a
  <2>6. CellsOf(<<a>>, e.args)
    BY <2>2, <2>5, OneColumn
  <2> QED
    BY <2>1, <2>2, <2>6, ColumnsAre
<1>12. CASE e.code = EventStart
  <2> DEFINE a == Text(e.args[1])
  <2>1. GetAsCSV(e) = Row(e, <<a>>)
    BY <1>12, RowOf DEF StartEventRow
  <2>2. Len(e.args) = 1 /\ e.args \in Seq(Seq(Nat))
        /\ TextAt(e, 1)
    BY <1>12, LayoutOf, ShapeS
  <2>5. CellOf(a, e.args[1])
    BY <2>2 DEF NumberAt, TextAt
  <2> HIDE DEF a
  <2>6. CellsOf(<<a>>, e.args)
    BY <2>2, <2>5, OneColumn
  <2> QED
    BY <2>1, <2>2, <2>6, ColumnsAre
<1>13. CASE e.code = EventEnd
  <2> DEFINE a == Text(e.args[1])
  <2>1. GetAsCSV(e) = Row(e, <<a>>)
    BY <1>13, RowOf DEF EndEventRow
  <2>2. Len(e.args) = 1 /\ e.args \in Seq(Seq(Nat))
        /\ TextAt(e, 1)
    BY <1>13, LayoutOf, ShapeS
  <2>5. CellOf(a, e.args[1])
    BY <2>2 DEF NumberAt, TextAt
  <2> HIDE DEF a
  <2>6. CellsOf(<<a>>, e.args)
    BY <2>2, <2>5, OneColumn
  <2> QED
    BY <2>1, <2>2, <2>6, ColumnsAre
<1>14. CASE e.code = SetBackingAllocator
  <2> DEFINE a == Dec(e.args[1])
             b == Dec(e.args[2])
  <2>1. GetAsCSV(e) = Row(e, <<a, b>>)
    BY <1>14, RowOf DEF HeapSetBackingAllocatorRow
  <2>2. Len(e.args) = 2 /\ e.args \in Seq(Seq(Nat))
        /\ NumberAt(e, 1) /\ NumberAt(e, 2)
    BY <1>14, LayoutOf, ShapeVV
  <2>5. CellOf(a, e.args[1]) /\ CellOf(b, e.args[2])
    BY <2>2 DEF NumberAt, TextAt
  <2> HIDE DEF a, b
  <2>6. CellsOf(<<a, b>>, e.args)
    BY <2>2, <2>5, TwoColumns
  <2> QED
    BY <2>1, <2>2, <2>6, ColumnsAre
<1> QED
  BY <1>1, <1>2, <1>3, <1>4, <1>5, <1>6, <1>7, <1>8, <1>9, <1>10, <1>11, <1>12, <1>13, <1>14 DEF Tabular, Codes

LEMMA ReadRowIs ==
  ASSUME NEW cells
  PROVE  ReadRow(cells) =
           [count |-> Values(cells[1])[1], code |-> Values(cells[2])[1], time |-> Values(cells[3])[1],
            args |-> [i \in DOMAIN Layout[Values(cells[2])[1]] |-> Values(cells[i + 3])]]
BY DEF ReadRow, Values

\* A row that was written for an event reads as this event.
LEMMA RowIsRead ==
  ASSUME NEW e, Tabular(e), e.count \in Nat, e.time \in Nat, NEW columns, Columns(e, columns)
  PROVE  /\ ReadRow(Heading(e) \o columns) = [count |-> e.count, code |-> e.code, time |-> e.time, args |-> e.args]
         /\ Heading(e) \o columns \in RowOfCells
<1> DEFINE a == Dec(<<e.count>>)
           b == Dec(<<e.code>>)
           c == Dec(<<e.time>>)
           h == Heading(e)
           cells == h \o columns
           args == e.args
<1>0. e.code \in Nat
  BY DEF Tabular, Codes, BeginStream, EndStream, HeapCreate, HeapDestroy, HeapAddCore,
       HeapGrowCore, HeapRemoveCore, HeapShrinkCore, HeapAllocate, HeapFree, HeapFreeAll,
       EventStart, EventEnd, SetBackingAllocator
<1>1. CellOf(a, <<e.count>>) /\ CellOf(b, <<e.code>>) /\ CellOf(c, <<e.time>>)
  BY <1>0, NumberCell
<1>2. h = <<a, b, c>>
  BY DEF Heading
<1> HIDE DEF a, b, c
<1>3. h \in Seq(Cell) /\ Len(h) = 3 /\ h[1] = a /\ h[2] = b /\ h[3] = c
  <2>1. a \in Cell /\ b \in Cell /\ c \in Cell
    BY <1>1 DEF CellOf, Plain
  <2> HIDE DEF h
  <2> QED
    BY <1>2, <2>1
<1>4. columns \in Seq(Cell) /\ Len(columns) \in Nat /\ args \in Seq(Seq(Nat)) /\ Len(args) \in Nat
      /\ Len(args) <= Len(columns) /\ \A i \in 1 .. Len(args) : Values(columns[i]) = args[i]
  <2>1. columns \in Seq(Cell) /\ args \in Seq(Seq(Nat)) /\ Len(args) <= Len(columns)
    BY DEF Columns, AllPlain, RowOfCells, Tabular
  <2>2. \A i \in 1 .. Len(args) : Values(columns[i]) = args[i]
    BY DEF Columns, CellOf
  <2> QED
    BY <2>1, <2>2
<1>5. Len(args) = Len(Layout[e.code]) /\ DOMAIN Layout[e.code] = 1 .. Len(args)
  <2>1. Layout[e.code] \in Seq(Kinds)
    BY LayoutKinds DEF Tabular
  <2>2. Len(args) = Len(Layout[e.code])
    BY DEF Tabular, HasArgs
  <2> QED
    BY <2>1, <2>2
<1> HIDE DEF h, args
<1>6. /\ cells \in Seq(Cell) /\ \A i \in 1 .. Len(h) : cells[i] = h[i]
      /\ \A i \in 1 .. Len(columns) : cells[Len(h) + i] = columns[i]
  <2>1. h \in Seq(Cell) /\ columns \in Seq(Cell)
    BY <1>3, <1>4
  <2>2. cells \in Seq(Cell)
    BY <2>1, ConcatIn
  <2>3. \A i \in 1 .. Len(h) : cells[i] = h[i]
    BY <2>1, ConcatParts
  <2>4. \A i \in 1 .. Len(columns) : cells[Len(h) + i] = columns[i]
    BY <2>1, ConcatParts
  <2> QED
    BY <2>2, <2>3, <2>4
<1> HIDE DEF cells
<1>7. cells[1] = a /\ cells[2] = b /\ cells[3] = c
  <2>1. 1 \in 1 .. Len(h) /\ 2 \in 1 .. Len(h) /\ 3 \in 1 .. Len(h)
    BY <1>3
  <2> QED
    BY <1>3, <1>6, <2>1
<1>8. Values(cells[1])[1] = e.count /\ Values(cells[2])[1] = e.code /\ Values(cells[3])[1] = e.time
  <2>1. Values(cells[1]) = <<e.count>> /\ Values(cells[2]) = <<e.code>> /\ Values(cells[3]) = <<e.time>>
    BY <1>1, <1>7 DEF CellOf
  <2>2. \A n : <<n>>[1] = n
    OBVIOUS
  <2> QED
    BY <2>1, <2>2
<1>9. \A i \in 1 .. Len(args) : Values(cells[i + 3]) = args[i]
  <2> TAKE i \in 1 .. Len(args)
  <2>1. i \in 1 .. Len(columns) /\ Len(h) + i = i + 3
    BY <1>3, <1>4
  <2>2. cells[i + 3] = columns[i]
    <3>1. cells[Len(h) + i] = columns[i]
      BY <1>6, <2>1
    <3> QED
      BY <3>1, <2>1
  <2> QED
    BY <1>4, <2>2
<1>10. [i \in 1 .. Len(args) |-> Values(cells[i + 3])] = args
  <2>1. [i \in 1 .. Len(args) |-> Values(cells[i + 3])] = [i \in 1 .. Len(args) |-> args[i]]
    BY <1>9
  <2>2. [i \in 1 .. Len(args) |-> args[i]] = args
    BY <1>4
  <2> QED
    BY <2>1, <2>2
<1>11. ReadRow(cells) = [count |-> e.count, code |-> e.code, time |-> e.time, args |-> args]
  BY <1>5, <1>8, <1>10, ReadRowIs
<1> QED
  BY <1>6, <1>11 DEF cells, h, args, RowOfCells

\* The n-th event of a trace, as it should be received.
SentOf(t, n) == [count |-> n - 1, code |-> t[n].code, time |-> t[n].time, args |-> t[n].args]

LEMMA SentOfIs ==
  ASSUME NEW t \in Files, FilesFitColumns, NEW n \in 1 .. Len(t)
  PROVE  /\ Tabular(SentOf(t, n)) /\ SentOf(t, n).count \in Nat /\ SentOf(t, n).time \in Nat
         /\ SentOf(t, n) = [count |-> SentOf(t, n).count, code |-> SentOf(t, n).code,
                            time |-> SentOf(t, n).time, args |-> SentOf(t, n).args]
<1> DEFINE x == t[n]
           e == SentOf(t, n)
<1>1. x \in Sendable /\ HasArgs(x) /\ Len(t) \in Nat
  BY TraceIs DEF Traces
<1>2. FitsColumns(x)
  <2>1. t \in Seq(Sendable)
    BY TraceIs DEF Traces
  <2>2. n \in DOMAIN t
    BY <2>1
  <2> QED
    BY <2>2 DEF FilesFitColumns
<1>3. e = [count |-> n - 1, code |-> x.code, time |-> x.time, args |-> x.args]
  BY DEF SentOf
<1> HIDE DEF e, x
<1>4. e.code = x.code /\ e.args = x.args /\ e.time = x.time /\ e.count = n - 1
  BY <1>3
<1>5. HasArgs(e)
  BY <1>1, <1>4 DEF HasArgs
<1>6. FitsColumns(e)
  BY <1>2, <1>4 DEF FitsColumns
<1>7. e.code \in Codes /\ e.args \in Seq(Seq(Nat)) /\ e.time \in Nat
  <2>1. x.code \in Codes /\ x.args \in Seq(Seq(Nat)) /\ x.time \in 0 .. (Word - 1)
    BY <1>1 DEF Sendable
  <2> QED
    BY <2>1, <1>4, WordIs
<1>8. e.count \in Nat
  BY <1>1, <1>4
<1> QED
  BY <1>3, <1>4, <1>5, <1>6, <1>7, <1>8 DEF Tabular, e

\* What a reader finds in the text: the first n events of the trace.
RowsOf(t, text, n, r) ==
  /\ Reads(text, r, Blank) /\ Len(r) = n /\ \A k \in 1 .. n : ReadRow(r[k]) = SentOf(t, k)

Tabled(t, text, n) == \E r : RowsOf(t, text, n, r)

LEMMA TabledFirst == \A t : Tabled(t, <<>>, 0)
<1>1. ASSUME NEW t PROVE RowsOf(t, <<>>, 0, <<>>)
  <2>1. Len(<<>>) = 0 /\ \A k \in 1 .. 0 : FALSE
    OBVIOUS
  <2> QED
    BY <2>1, ReadsFirst DEF RowsOf
<1> QED
  BY <1>1 DEF Tabled

LEMMA TabledNext ==
  ASSUME NEW t \in Files, FilesFitColumns, NEW n \in Nat, n + 1 <= Len(t), NEW text, Tabled(t, text, n)
  PROVE  Tabled(t, text \o GetAsCSV(SentOf(t, n + 1)) \o Newline, n + 1)
<1> DEFINE m == n + 1
           e == SentOf(t, m)
<1>1. PICK r : RowsOf(t, text, n, r)
  BY DEF Tabled
<1>2. m \in 1 .. Len(t)
  <2>1. Len(t) \in Nat
    BY TraceIs DEF Traces
  <2> QED
    BY <2>1
<1>3. /\ Tabular(e) /\ e.count \in Nat /\ e.time \in Nat
      /\ e = [count |-> e.count, code |-> e.code, time |-> e.time, args |-> e.args]
  <2> HIDE DEF m
  <2> QED
    BY <1>2, SentOfIs
<1>30. e.code \in Nat
  <2> HIDE DEF e
  <2> QED
    BY <1>3 DEF Tabular, Codes, BeginStream, EndStream, HeapCreate, HeapDestroy, HeapAddCore,
       HeapGrowCore, HeapRemoveCore, HeapShrinkCore, HeapAllocate, HeapFree, HeapFreeAll,
       EventStart, EventEnd, SetBackingAllocator
<1> HIDE DEF e
<1>4. PICK columns : Columns(e, columns)
  BY <1>3, ColumnsExist
<1> DEFINE row == Heading(e) \o columns
           s == Append(r, row)
<1>5. ReadRow(row) = e /\ row \in RowOfCells
  BY <1>3, <1>4, RowIsRead
<1>6. Reads(text \o Row(e, columns) \o Newline, s, Blank) /\ GetAsCSV(e) = Row(e, columns)
  BY <1>1, <1>3, <1>30, <1>4, ReadsRow DEF RowsOf, Columns
<1> HIDE DEF row
<1>7. r \in Seq(RowOfCells) /\ Len(r) = n /\ \A k \in 1 .. n : ReadRow(r[k]) = SentOf(t, k)
  BY <1>1, ReadsIs DEF RowsOf
<1>8. Longer(RowOfCells, s, r, Len(r), row)
  BY <1>5, <1>7, AppendIs
<1> HIDE DEF s
<1>9. Len(s) = m /\ s[m] = row /\ \A k \in 1 .. n : s[k] = r[k]
  BY <1>7, <1>8 DEF Longer
<1>10. \A k \in 1 .. m : ReadRow(s[k]) = SentOf(t, k)
  <2> TAKE k \in 1 .. m
  <2>1. k = m \/ k \in 1 .. n
    OBVIOUS
  <2>2. CASE k = m
    BY <1>5, <1>9, <2>2 DEF e
  <2>3. CASE k \in 1 .. n
    BY <1>7, <1>9, <2>3
  <2> QED
    BY <2>1, <2>2, <2>3
<1> HIDE DEF m
<1>11. RowsOf(t, text \o GetAsCSV(e) \o Newline, m, s)
  BY <1>6, <1>9, <1>10 DEF RowsOf
<1> QED
  BY <1>11 DEF Tabled, e, m

LEMMA TabledReadBack ==
  ASSUME NEW t, NEW text, NEW n \in Nat, Tabled(t, text, n)
  PROVE  ReadBack(text) = [k \in 1 .. n |-> SentOf(t, k)]
<1>1. PICK r : RowsOf(t, text, n, r)
  BY DEF Tabled
<1>2. r \in Seq(RowOfCells) /\ ReadRows(text) = Append(r, Blank) /\ Blank \in RowOfCells
  BY <1>1, ReadsIs DEF RowsOf
<1>3. Last(ReadRows(text)) = Blank /\ Front(ReadRows(text)) = r
  BY <1>2, LastAndFront
<1>4. ReadBack(text) = [k \in DOMAIN r |-> ReadRow(r[k])]
  BY <1>3 DEF ReadBack
<1>5. DOMAIN r = 1 .. n /\ \A k \in 1 .. n : ReadRow(r[k]) = SentOf(t, k)
  BY <1>1, <1>2 DEF RowsOf
<1> QED
  BY <1>4, <1>5

(***************************************************************************)
(* SaveAsCSV is called once, with the whole file, and what has been        *)
(* written reads as the events that are registered.                        *)
(***************************************************************************)
CsvInv ==
  converting => given \in {0, Len(Input)} /\ Tabled(trace, csv, registered)

LEMMA CsvInit == Init => CsvInv
<1> SUFFICES ASSUME Init PROVE CsvInv
  OBVIOUS
<1>1. given = 0 /\ csv = <<>> /\ registered = 0
  BY DEF Init
<1> QED
  BY <1>1, TabledFirst DEF CsvInv

LEMMA CsvKept ==
  ASSUME CsvInv, UNCHANGED <<trace, converting, given, registered, csv>>
  PROVE  CsvInv'
BY DEF CsvInv, Input

LEMMA CsvNext == FilesFitColumns /\ DecoderInv /\ CsvInv /\ [Next]_vars => CsvInv'
<1> SUFFICES ASSUME FilesFitColumns, DecoderInv, CsvInv, [Next]_vars PROVE CsvInv'
  OBVIOUS
<1>1. ASSUME NEW size \in ChunkSizes, UnpackStream(size) PROVE CsvInv'
  <2>1. ~converting /\ converting' = converting
    BY <1>1 DEF UnpackStream, EnterCall
  <2> QED
    BY <2>1 DEF CsvInv
<1>2. CASE SaveAsCSV
  <2>1. given = 0 /\ EnterCall(Len(Input)) /\ Len(Input) \in Nat
    BY <1>2, InvIs DEF SaveAsCSV
  <2>2. given' = 0 + Len(Input) /\ UNCHANGED <<trace, converting, registered, csv>>
    BY <2>1 DEF EnterCall, decoder
  <2>3. Input' = Input /\ given' = Len(Input)
    BY <2>1, <2>2 DEF Input
  <2> QED
    BY <2>2, <2>3 DEF CsvInv
<1>3. CASE TrySteps
  <2>1. UNCHANGED <<trace, converting, given, registered, csv>>
    BY <1>3 DEF TrySteps
  <2> QED
    BY <2>1, CsvKept
<1>4. CASE Decode
  <2> SUFFICES ASSUME converting'
               PROVE  given' \in {0, Len(Input)'} /\ Tabled(trace, csv, registered)'
    BY DEF CsvInv
  <2> DEFINE step == OneStep(data, cur, registered)
  <2>1. phase = "decode" /\ (EventMade(step) \/ NothingMade(step))
    BY <1>4, DecodeIs, DecodeFinds
  <2>2. /\ UNCHANGED <<trace, converting, given>>
        /\ \/ /\ step.ok
              /\ registered' = registered + 1
              /\ PassOn(step.event[1])
           \/ /\ ~step.ok
              /\ UNCHANGED <<registered, delivered, csv>>
    BY <1>4 DEF Decode
  <2> HIDE DEF step
  <2>3. CASE ~step.ok
    <3>1. UNCHANGED <<trace, converting, given, registered, csv>>
      BY <2>2, <2>3
    <3>2. CsvInv'
      BY <3>1, CsvKept
    <3> QED
      BY <3>2 DEF CsvInv
  <2>4. CASE step.ok
    <3>1. EventMade(step)
      BY <2>1, <2>4 DEF NothingMade, No
    <3>2. step.event[1] = Sent(registered + 1) /\ registered < Len(trace) /\ registered \in Nat /\ Len(trace) \in Nat
      BY <3>1, InvIs DEF EventMade
    <3>3. converting /\ trace \in Files
      BY <2>2 DEF DecoderInv, Typed
    <3>4. Sent(registered + 1) = SentOf(trace, registered + 1)
      BY DEF Sent, SentOf
    <3>5. csv' = csv \o GetAsCSV(SentOf(trace, registered + 1)) \o Newline /\ registered' = registered + 1
      BY <2>2, <2>4, <3>2, <3>3, <3>4 DEF PassOn
    <3>6. Tabled(trace, csv, registered) /\ given \in {0, Len(Input)}
      BY <3>3 DEF CsvInv
    <3>7. registered + 1 <= Len(trace)
      BY <3>2
    <3>8. Tabled(trace, csv \o GetAsCSV(SentOf(trace, registered + 1)) \o Newline, registered + 1)
      BY <3>2, <3>3, <3>6, <3>7, TabledNext
    <3>9. Tabled(trace, csv', registered')
      BY <3>5, <3>8
    <3> QED
      BY <2>2, <3>6, <3>9 DEF Input
  <2> QED
    BY <2>3, <2>4
<1>5. CASE Refill
  <2>1. UNCHANGED <<trace, converting, given, registered, csv>>
    BY <1>5 DEF Refill, decoder
  <2> QED
    BY <2>1, CsvKept
<1>6. CASE UNCHANGED vars
  <2>1. UNCHANGED <<trace, converting, given, registered, csv>>
    BY <1>6 DEF vars, decoder
  <2> QED
    BY <2>1, CsvKept
<1> QED
  BY <1>1, <1>2, <1>3, <1>4, <1>5, <1>6 DEF Next

\* The CSV that SaveAsCSV writes for a file reads as the events of the trace, all
\* of them, if the file fits into the ring and its names have no separators.
THEOREM DecoderConverts == ChunksFit /\ FilesFitColumns => (Spec => []Converted)
<1> SUFFICES ASSUME ChunksFit, FilesFitColumns PROVE Spec => []Converted
  OBVIOUS
<1>1. DecoderInv /\ FitInv /\ CsvInv => Converted
  <2> SUFFICES ASSUME DecoderInv, FitInv, CsvInv, converting, given > 0, phase = "idle"
               PROVE  ReadBack(csv) = SentUpTo(Len(trace))
    BY DEF Converted
  <2>1. given = Len(Input) /\ Tabled(trace, csv, registered)
    BY DEF CsvInv
  <2>2. /\ registered \in Nat /\ Len(trace) \in Nat /\ registered <= Len(trace) /\ trace \in Traces
        /\ Len(Input) \in Nat
    BY InvIs, WhereIs
  <2>3. pending = <<>> /\ Incomplete
    BY DEF FitInv
  <2>4. Arrived = Len(Input)
    <3>1. Len(pending) = 0
      BY <2>3
    <3> QED
      BY <2>1, <2>2, <3>1 DEF Arrived
  <2>5. registered = Len(trace)
    <3> SUFFICES ASSUME registered < Len(trace) PROVE FALSE
      BY <2>2
    <3> DEFINE m == registered + 1
    <3>1. m \in 0 .. Len(trace) /\ Len(trace) \in 0 .. Len(trace)
      BY <2>2
    <3>2. Arrived < End(m)
      BY <2>3 DEF Incomplete
    <3> HIDE DEF m
    <3>3. End(m) \in Nat /\ End(Len(trace)) = Len(Input)
      BY <2>2, <3>1, StreamIs DEF End, Input
    <3>4. End(m) <= End(Len(trace))
      <4>1. CASE m = Len(trace)
        BY <2>2, <3>3, <4>1
      <4>2. CASE m < Len(trace)
        <5>1. End(m) < End(Len(trace))
          BY <2>2, <3>1, <4>2, EndsGrow DEF End
        <5> QED
          BY <2>2, <3>3, <5>1
      <4> QED
        BY <3>1, <4>1, <4>2
    <3> QED
      BY <2>2, <2>4, <3>2, <3>3, <3>4
  <2>6. ReadBack(csv) = [k \in 1 .. Len(trace) |-> SentOf(trace, k)]
    BY <2>1, <2>2, <2>5, TabledReadBack
  <2> QED
    BY <2>6 DEF SentUpTo, Sent, SentOf
<1>2. Spec => []FitInv
  BY DecoderInvariant, FitInit, FitNext, PTL DEF Spec
<1>3. Spec => []CsvInv
  BY DecoderInvariant, CsvInit, CsvNext, PTL DEF Spec
<1> QED
  BY <1>1, <1>2, <1>3, DecoderInvariant, PTL

=============================================================================
