-------------------------- MODULE MemoryStateProofs --------------------------
(***************************************************************************)
(* Proofs about MemoryState.tla for every set of heaps, addresses, sizes   *)
(* and times and every width of a counter: whatever events come, types are *)
(* kept, managed memory is what the cores manage, and the curve of a heap  *)
(* ends at its used memory.  First what they need of totals, of maps and   *)
(* of the records heaps and cores are.                                     *)
(***************************************************************************)
EXTENDS MemoryState, WellFoundedInduction, FiniteSetTheorems, SequenceTheorems, TLAPS

(***************************************************************************)
(* Natural numbers.  Induction over places is stated with these: of the    *)
(* places that violate a claim there is a first.                           *)
(***************************************************************************)
\* A set of natural numbers has a least one.
LEMMA LeastNumber ==
  ASSUME NEW T \in SUBSET Nat, T # {}
  PROVE  \E m \in T : \A k \in T : m <= k
<1> DEFINE F == {0 .. k : k \in T}
<1>1. F \subseteq FiniteSubsetsOf(Nat) /\ F # {}
  <2>1. \A k \in T : IsFiniteSet(0 .. k)
    BY FS_Interval
  <2>2. \A k \in T : 0 .. k \in FiniteSubsetsOf(Nat)
    <3>1. \A k \in T : 0 .. k \subseteq Nat
      OBVIOUS
    <3> QED
      BY <2>1, <3>1 DEF FiniteSubsetsOf
  <2> QED
    BY <2>2
<1>2. \E x \in F : \A y \in F : ~(<<y, x>> \in StrictSubsetOrdering(Nat))
  BY <1>1, FS_StrictSubsetOrderingWellFounded, WFMin
<1>3. PICK m \in T : \A k \in T : ~(<<0 .. k, 0 .. m>> \in StrictSubsetOrdering(Nat))
  BY <1>2
<1>4. ASSUME NEW k \in T, k < m
      PROVE  FALSE
  <2>1. 0 .. k \in SUBSET Nat /\ 0 .. m \in SUBSET Nat
    OBVIOUS
  <2>2. 0 .. k \subseteq 0 .. m /\ m \in 0 .. m /\ m \notin 0 .. k
    BY <1>4
  <2> QED
    BY <1>3, <2>1, <2>2 DEF StrictSubsetOrdering
<1> QED
  BY <1>4

\* A bounded set of them has a greatest.
LEMMA GreatestNumber ==
  ASSUME NEW n \in Nat, NEW T \in SUBSET (0 .. n), T # {}
  PROVE  \E m \in T : \A k \in T : k <= m
<1> DEFINE U == {n - k : k \in T}
<1>1. U \in SUBSET Nat /\ U # {}
  <2>1. \A k \in T : n - k \in Nat
    OBVIOUS
  <2> QED
    BY <2>1
<1>2. PICK m \in U : \A k \in U : m <= k
  BY <1>1, LeastNumber
<1>3. PICK greatest \in T : m = n - greatest
  BY <1>2
<1>4. \A k \in T : n - greatest <= n - k
  BY <1>2, <1>3
<1> QED
  BY <1>4

\* Products, which the solver does not reorder by itself.
LEMMA OneTimeMore ==
  ASSUME NEW n \in Nat, NEW s \in Nat
  PROVE  n * s \in Nat /\ (n + 1) * s = n * s + s
OBVIOUS

\* A later multiple is a whole step further on.
LEMMA TimesGrow ==
  ASSUME NEW m \in Nat, NEW n \in Nat, NEW s \in Nat, m < n
  PROVE  m * s + s <= n * s
<1>1. PICK d \in Nat : n = m + 1 + d
  <2>1. n - m - 1 \in Nat /\ n = m + 1 + (n - m - 1)
    OBVIOUS
  <2> QED
    BY <2>1
<1>2. n * s = (m + 1) * s + d * s
  BY <1>1
<1>3. d * s \in Nat /\ m * s \in Nat
  OBVIOUS
<1> QED
  BY <1>2, <1>3, OneTimeMore

\* Remainders: adding or subtracting before or after one is taken comes to the same.
LEMMA Remainder ==
  ASSUME NEW w \in Nat \ {0}, NEW a \in Int
  PROVE  /\ a % w \in 0 .. (w - 1) /\ a \div w \in Int
         /\ a = w * (a \div w) + (a % w)
         /\ a \in 0 .. (w - 1) => a % w = a
OBVIOUS

LEMMA OneRemainder ==
  ASSUME NEW w \in Nat \ {0}, NEW q \in Int, NEW k \in Int,
         NEW r \in 0 .. (w - 1), NEW s \in 0 .. (w - 1), w * q + r = w * k + s
  PROVE  r = s
<1>1. w * (q - k) = s - r
  OBVIOUS
<1>2. CASE q - k >= 1
  <2>1. w * (q - k) = w + w * (q - k - 1) /\ w * (q - k - 1) >= 0
    BY <1>2
  <2> QED
    BY <1>1, <2>1
<1>3. CASE q - k <= -1
  <2>1. w * (q - k) = -w - w * (k - q - 1) /\ w * (k - q - 1) >= 0
    BY <1>3
  <2> QED
    BY <1>1, <2>1
<1>4. CASE q = k
  BY <1>4
<1> QED
  BY <1>2, <1>3, <1>4

LEMMA SameRemainder ==
  ASSUME NEW w \in Nat \ {0}, NEW a \in Int, NEW b \in Int, NEW k \in Int, a = b + w * k
  PROVE  a % w = b % w
<1> DEFINE q == a \div w
           r == a % w
           d == b \div w
           s == b % w
<1>1. a = w * q + r /\ q \in Int /\ r \in 0 .. (w - 1)
  BY Remainder
<1>2. b = w * d + s /\ d \in Int /\ s \in 0 .. (w - 1)
  BY Remainder
<1> HIDE DEF q, r, d, s
<1>3. w * d + w * k = w * (d + k) /\ d + k \in Int
  BY <1>2
<1>4. w * q + r = w * (d + k) + s
  BY <1>1, <1>2, <1>3
<1>5. r = s
  BY <1>1, <1>2, <1>3, <1>4, OneRemainder
<1> QED
  BY <1>5 DEF r, s

LEMMA RemainderFirst ==
  ASSUME NEW w \in Nat \ {0}, NEW a \in Int, NEW b \in Int
  PROVE  /\ ((a % w) + b) % w = (a + b) % w /\ (b + (a % w)) % w = (b + a) % w
         /\ ((a % w) - b) % w = (a - b) % w /\ (b - (a % w)) % w = (b - a) % w
<1> DEFINE r == a % w
           d == a \div w
           e == -d
<1>1. a = w * d + r /\ r \in Int /\ d \in Int
  BY Remainder
<1> HIDE DEF r, d
<1>2. r + b = (a + b) + w * e /\ r - b = (a - b) + w * e /\ b - r = (b - a) + w * d /\ e \in Int
  BY <1>1
<1> HIDE DEF e
<1>3. r + b \in Int /\ a + b \in Int /\ r - b \in Int /\ a - b \in Int /\ b - r \in Int /\ b - a \in Int
  BY <1>1
<1> DEFINE A == r + b
           B == a + b
           C == r - b
           D == a - b
           E == b - r
           F == b - a
<1>4. A = B + w * e /\ C = D + w * e /\ E = F + w * d
  BY <1>2
<1>5. A \in Int /\ B \in Int /\ C \in Int /\ D \in Int /\ E \in Int /\ F \in Int
  BY <1>3
<1> HIDE DEF A, B, C, D, E, F
<1>6. A % w = B % w
  BY <1>2, <1>4, <1>5, SameRemainder
<1>7. C % w = D % w
  BY <1>2, <1>4, <1>5, SameRemainder
<1>8. E % w = F % w
  BY <1>1, <1>4, <1>5, SameRemainder
<1>9. b + r = r + b /\ b + a = a + b
  BY <1>1
<1> QED
  BY <1>6, <1>7, <1>8, <1>9 DEF r, A, B, C, D, E, F

USE ConstantsAssumption

-----------------------------------------------------------------------------
(***************************************************************************)
(* Totals.  A total is a fold over the subsets of a domain in the order in *)
(* which CHOOSE takes their elements; these lemmas free it of that order.  *)
(***************************************************************************)
Element(s) == CHOOSE x \in s : TRUE

Rest(s) == s \ {Element(s)}

\* g folds f over each of these sets.
Folds(f, sets, g) ==
  g = [s \in sets |-> IF s = {} THEN 0 ELSE f[Element(s)] + g[Rest(s)]]

LEMMA TotalIsFold ==
  ASSUME NEW f
  PROVE  Total(f) = (CHOOSE g : Folds(f, SUBSET DOMAIN f, g))[DOMAIN f]
BY DEF Total, FoldFunction, FoldFunctionOnSet, MapThenFoldSet, Folds, Element, Rest

LEMMA RestIs ==
  ASSUME NEW s, IsFiniteSet(s), s # {}
  PROVE  /\ Element(s) \in s /\ Rest(s) \subseteq s
         /\ IsFiniteSet(Rest(s)) /\ Cardinality(s) \in Nat \ {0}
         /\ Cardinality(Rest(s)) = Cardinality(s) - 1
<1>1. Element(s) \in s
  BY DEF Element
<1>2. IsFiniteSet(Rest(s)) /\ Cardinality(Rest(s)) = Cardinality(s) - 1
  BY <1>1, FS_RemoveElement DEF Rest
<1>3. Cardinality(s) \in Nat /\ Cardinality(s) # 0
  BY FS_CardinalityType, FS_EmptySet
<1> QED
  BY <1>1, <1>2, <1>3 DEF Rest

Small(S, n) == {s \in SUBSET S : Cardinality(s) <= n}

LEMMA SmallFolds ==
  ASSUME NEW S, IsFiniteSet(S), NEW f
  PROVE  \A n \in Nat : \E g : Folds(f, Small(S, n), g)
<1> DEFINE T == {n \in Nat : ~\E g : Folds(f, Small(S, n), g)}
<1>1. \A s \in SUBSET S : IsFiniteSet(s) /\ Cardinality(s) \in Nat
  BY FS_Subset, FS_CardinalityType
<1>2. ASSUME T # {}
      PROVE  FALSE
  <2>1. PICK m \in T : \A n \in T : m <= n
    BY <1>2, LeastNumber
  <2>2. CASE m = 0
    <3> DEFINE g == [s \in Small(S, 0) |-> 0]
    <3>1. \A s \in Small(S, 0) : s = {}
      <4>1. \A s \in Small(S, 0) : Cardinality(s) = 0 /\ IsFiniteSet(s)
        BY <1>1 DEF Small
      <4> QED
        BY <4>1, FS_EmptySet
    <3>2. g = [s \in Small(S, 0) |-> IF s = {} THEN 0 ELSE f[Element(s)] + g[Rest(s)]]
      BY <3>1
    <3>3. Folds(f, Small(S, m), g)
      BY <2>2, <3>2 DEF Folds
    <3> QED
      BY <2>1, <3>3
  <2>3. CASE m # 0
    <3>1. m - 1 \in Nat /\ m - 1 \notin T
      BY <2>1, <2>3
    <3>2. PICK g : Folds(f, Small(S, m - 1), g)
      BY <3>1
    <3> DEFINE h == [s \in Small(S, m) |-> IF s = {} THEN 0 ELSE f[Element(s)] + g[Rest(s)]]
    <3>3. \A s \in Small(S, m - 1) : g[s] = IF s = {} THEN 0 ELSE f[Element(s)] + g[Rest(s)]
      BY <3>2 DEF Folds
    <3>4. \A s \in Small(S, m - 1) : s \in Small(S, m)
      BY <1>1, <2>1, <3>1 DEF Small
    <3>5. \A s \in Small(S, m - 1) : h[s] = g[s]
      BY <3>3, <3>4
    <3>6. \A s \in Small(S, m) : s # {} => Rest(s) \in Small(S, m - 1)
      <4> SUFFICES ASSUME NEW s \in Small(S, m), s # {}
                   PROVE  Rest(s) \in Small(S, m - 1)
        OBVIOUS
      <4>1. s \in SUBSET S /\ IsFiniteSet(s) /\ Cardinality(s) <= m
        BY <1>1 DEF Small
      <4>2. /\ Rest(s) \subseteq s /\ Cardinality(s) \in Nat \ {0}
            /\ Cardinality(Rest(s)) = Cardinality(s) - 1
        BY <4>1, RestIs
      <4>3. Cardinality(Rest(s)) <= m - 1
        BY <2>1, <4>1, <4>2
      <4> QED
        BY <4>1, <4>2, <4>3 DEF Small
    <3>7. \A s \in Small(S, m) : s # {} => h[Rest(s)] = g[Rest(s)]
      BY <3>5, <3>6
    <3>8. h = [s \in Small(S, m) |-> IF s = {} THEN 0 ELSE f[Element(s)] + h[Rest(s)]]
      BY <3>7
    <3>9. Folds(f, Small(S, m), h)
      BY <3>8 DEF Folds
    <3> QED
      BY <2>1, <3>9
  <2> QED
    BY <2>2, <2>3
<1> QED
  BY <1>2

\* The fold over the subsets of a finite set, and what it is for each of them.
Fold(f, S) == CHOOSE g : Folds(f, SUBSET S, g)

LEMMA FoldIs ==
  ASSUME NEW S, IsFiniteSet(S), NEW f
  PROVE  \A s \in SUBSET S :
           Fold(f, S)[s] = IF s = {} THEN 0 ELSE f[Element(s)] + Fold(f, S)[Rest(s)]
<1> DEFINE g == Fold(f, S)
<1>1. Cardinality(S) \in Nat
  BY FS_CardinalityType
<1>2. Small(S, Cardinality(S)) = SUBSET S
  BY FS_Subset DEF Small
<1>3. \E h : Folds(f, SUBSET S, h)
  <2>1. \E h : Folds(f, Small(S, Cardinality(S)), h)
    BY <1>1, SmallFolds
  <2> QED
    BY <1>2, <2>1
<1>4. Folds(f, SUBSET S, g)
  BY <1>3 DEF Fold
<1> HIDE DEF g
<1>5. g = [s \in SUBSET S |-> IF s = {} THEN 0 ELSE f[Element(s)] + g[Rest(s)]]
  BY <1>4 DEF Folds
<1>6. \A s \in SUBSET S : g[s] = IF s = {} THEN 0 ELSE f[Element(s)] + g[Rest(s)]
  BY <1>5
<1> QED
  BY <1>6 DEF g

\* A set with all smaller ones better than itself is a smallest exception.
LEMMA SmallestSet ==
  ASSUME NEW S, IsFiniteSet(S), NEW Bad \in SUBSET SUBSET S, Bad # {}
  PROVE  \E s \in Bad : IsFiniteSet(s) /\ \A t \in Bad : Cardinality(s) <= Cardinality(t)
<1> DEFINE T == {Cardinality(s) : s \in Bad}
<1>1. \A s \in Bad : IsFiniteSet(s) /\ Cardinality(s) \in Nat
  BY FS_Subset, FS_CardinalityType
<1>2. T \in SUBSET Nat /\ T # {}
  BY <1>1
<1>3. PICK m \in T : \A n \in T : m <= n
  BY <1>2, LeastNumber
<1> QED
  BY <1>1, <1>3

\* A fold depends on the values on its set only.
LEMMA FoldsAgree ==
  ASSUME NEW S, IsFiniteSet(S), NEW f, NEW R, IsFiniteSet(R), NEW g,
         NEW D, D \subseteq S, D \subseteq R, \A x \in D : f[x] = g[x]
  PROVE  Fold(f, S)[D] = Fold(g, R)[D]
<1> DEFINE F(s) == Fold(f, S)[s]
           G(s) == Fold(g, R)[s]
           Bad == {s \in SUBSET D : F(s) # G(s)}
<1>1. IsFiniteSet(D)
  BY FS_Subset
<1>2. \A s \in SUBSET D :
        /\ F(s) = IF s = {} THEN 0 ELSE f[Element(s)] + F(Rest(s))
        /\ G(s) = IF s = {} THEN 0 ELSE g[Element(s)] + G(Rest(s))
  <2>1. \A s \in SUBSET D : s \in SUBSET S /\ s \in SUBSET R
    OBVIOUS
  <2>2. \A s \in SUBSET S : F(s) = IF s = {} THEN 0 ELSE f[Element(s)] + F(Rest(s))
    BY FoldIs
  <2>3. \A s \in SUBSET R : G(s) = IF s = {} THEN 0 ELSE g[Element(s)] + G(Rest(s))
    BY FoldIs
  <2> HIDE DEF F, G
  <2> QED
    BY <2>1, <2>2, <2>3
<1> HIDE DEF F, G
<1>3. ASSUME Bad # {}
      PROVE  FALSE
  <2>1. PICK s \in Bad : IsFiniteSet(s) /\ \A t \in Bad : Cardinality(s) <= Cardinality(t)
    BY <1>1, <1>3, SmallestSet
  <2>2. s # {}
    BY <1>2, <2>1
  <2>3. /\ Element(s) \in s /\ Rest(s) \subseteq s
        /\ Cardinality(s) \in Nat \ {0} /\ Cardinality(Rest(s)) = Cardinality(s) - 1
    BY <2>1, <2>2, RestIs
  <2>4. Rest(s) \notin Bad
    BY <2>1, <2>3
  <2>5. F(Rest(s)) = G(Rest(s))
    BY <2>1, <2>3, <2>4
  <2>6. f[Element(s)] = g[Element(s)]
    BY <2>1, <2>3
  <2> QED
    BY <1>2, <2>1, <2>2, <2>5, <2>6
<1>4. F(D) = G(D)
  BY <1>3
<1> QED
  BY <1>4 DEF F, G

LEMMA FoldNatural ==
  ASSUME NEW S, IsFiniteSet(S), NEW f, \A x \in S : f[x] \in Nat
  PROVE  \A s \in SUBSET S : Fold(f, S)[s] \in Nat
<1> DEFINE F(s) == Fold(f, S)[s]
           Bad == {s \in SUBSET S : F(s) \notin Nat}
<1>1. \A s \in SUBSET S : F(s) = IF s = {} THEN 0 ELSE f[Element(s)] + F(Rest(s))
  BY FoldIs
<1> HIDE DEF F
<1>2. ASSUME Bad # {}
      PROVE  FALSE
  <2>1. PICK s \in Bad : IsFiniteSet(s) /\ \A t \in Bad : Cardinality(s) <= Cardinality(t)
    BY <1>2, SmallestSet
  <2>2. s # {}
    <3>1. F({}) = 0
      <4>1. {} \in SUBSET S
        OBVIOUS
      <4> QED
        BY <1>1, <4>1
    <3>2. F(s) \notin Nat
      OBVIOUS
    <3>3. s = {} => F(s) = 0
      BY <3>1
    <3> QED
      BY <3>2, <3>3
  <2>3. /\ Element(s) \in s /\ Rest(s) \subseteq s
        /\ Cardinality(s) \in Nat \ {0} /\ Cardinality(Rest(s)) = Cardinality(s) - 1
    BY <2>1, <2>2, RestIs
  <2>4. F(Rest(s)) \in Nat
    BY <2>1, <2>3
  <2>5. f[Element(s)] \in Nat
    BY <2>1, <2>3
  <2> QED
    BY <1>1, <2>1, <2>2, <2>4, <2>5
<1>3. \A s \in SUBSET S : F(s) \in Nat
  BY <1>2
<1> QED
  BY <1>3 DEF F

\* Any element may be taken first.
LEMMA FoldTakes ==
  ASSUME NEW S, IsFiniteSet(S), NEW f, \A x \in S : f[x] \in Nat
  PROVE  \A s \in SUBSET S : \A k \in s : Fold(f, S)[s] = f[k] + Fold(f, S)[s \ {k}]
<1> DEFINE F(s) == Fold(f, S)[s]
           Bad == {s \in SUBSET S : \E k \in s : F(s) # f[k] + F(s \ {k})}
<1>1. \A s \in SUBSET S : F(s) = IF s = {} THEN 0 ELSE f[Element(s)] + F(Rest(s))
  BY FoldIs
<1>2. \A s \in SUBSET S : F(s) \in Nat
  BY FoldNatural
<1> HIDE DEF F
<1>3. ASSUME Bad # {}
      PROVE  FALSE
  <2>1. PICK s \in Bad : IsFiniteSet(s) /\ \A t \in Bad : Cardinality(s) <= Cardinality(t)
    BY <1>3, SmallestSet
  <2>2. PICK k \in s : F(s) # f[k] + F(s \ {k})
    BY <2>1
  <2> DEFINE x == Element(s)
             t == s \ {k}
  <2>3. s \in SUBSET S /\ s # {} /\ x \in s /\ Rest(s) = s \ {x} /\ Cardinality(s) \in Nat \ {0}
    BY <2>1, <2>2, RestIs DEF Rest
  <2>4. F(s) = f[x] + F(s \ {x})
    BY <1>1, <2>3
  <2>5. x # k
    BY <2>2, <2>4
  <2> HIDE DEF x
  <2>6. \A y \in s : s \ {y} \in SUBSET S /\ s \ {y} \notin Bad
    <3> SUFFICES ASSUME NEW y \in s
                 PROVE  s \ {y} \in SUBSET S /\ s \ {y} \notin Bad
      OBVIOUS
    <3>1. Cardinality(s \ {y}) = Cardinality(s) - 1
      BY <2>1, FS_RemoveElement
    <3> QED
      BY <2>1, <2>3, <3>1
  <2>7. F(s \ {x}) = f[k] + F((s \ {x}) \ {k})
    <3>1. k \in s \ {x} /\ s \ {x} \in SUBSET S /\ s \ {x} \notin Bad
      BY <2>3, <2>5, <2>6
    <3> QED
      BY <3>1
  <2>8. F(s \ {k}) = f[x] + F((s \ {k}) \ {x})
    <3>1. x \in s \ {k} /\ s \ {k} \in SUBSET S /\ s \ {k} \notin Bad
      BY <2>2, <2>3, <2>5, <2>6
    <3> QED
      BY <3>1
  <2>9. (s \ {x}) \ {k} = (s \ {k}) \ {x} /\ (s \ {x}) \ {k} \in SUBSET S
    BY <2>3
  <2>10. f[x] \in Nat /\ f[k] \in Nat /\ F((s \ {x}) \ {k}) \in Nat
    BY <1>2, <2>2, <2>3, <2>9
  <2>11. F(s) = f[k] + F(s \ {k})
    <3> DEFINE rest == F((s \ {x}) \ {k})
    <3>1. F(s) = f[x] + (f[k] + rest) /\ F(s \ {k}) = f[x] + rest
      BY <2>4, <2>7, <2>8, <2>9
    <3>2. f[x] \in Nat /\ f[k] \in Nat /\ rest \in Nat
      BY <2>10
    <3> HIDE DEF rest
    <3> QED
      BY <3>1, <3>2
  <2> QED
    BY <2>2, <2>11
<1>4. \A s \in SUBSET S : \A k \in s : F(s) = f[k] + F(s \ {k})
  BY <1>3
<1> QED
  BY <1>4 DEF F

Naturals(f) == IsFiniteSet(DOMAIN f) /\ \A k \in DOMAIN f : f[k] \in Nat

LEMMA TotalNatural ==
  ASSUME NEW f, Naturals(f)
  PROVE  Total(f) \in Nat /\ (DOMAIN f = {} => Total(f) = 0)
<1>1. Total(f) = Fold(f, DOMAIN f)[DOMAIN f]
  BY TotalIsFold DEF Fold
<1>2. Fold(f, DOMAIN f)[DOMAIN f] \in Nat
  BY FoldNatural DEF Naturals
<1>3. DOMAIN f = {} => Fold(f, DOMAIN f)[DOMAIN f] = 0
  BY FoldIs DEF Naturals
<1> QED
  BY <1>1, <1>2, <1>3

\* g is f without one entry.
LEMMA TotalTakes ==
  ASSUME NEW f, Naturals(f), NEW k \in DOMAIN f, NEW g, DOMAIN g = DOMAIN f \ {k},
         \A x \in DOMAIN g : g[x] = f[x]
  PROVE  Naturals(g) /\ Total(f) = f[k] + Total(g)
<1> DEFINE D == DOMAIN f
           E == DOMAIN g
<1>1. Naturals(g)
  <2>1. IsFiniteSet(DOMAIN g)
    BY FS_RemoveElement DEF Naturals
  <2> QED
    BY <2>1 DEF Naturals
<1>2. Total(f) = Fold(f, D)[D] /\ Total(g) = Fold(g, E)[E]
  BY TotalIsFold DEF Fold
<1>3. Fold(f, D)[D] = f[k] + Fold(f, D)[D \ {k}]
  BY FoldTakes DEF Naturals
<1>4. IsFiniteSet(D) /\ IsFiniteSet(E) /\ E \subseteq D /\ \A x \in E : f[x] = g[x]
  BY <1>1 DEF Naturals
<1>5. Fold(f, D)[E] = Fold(g, E)[E]
  BY <1>4, FoldsAgree
<1> QED
  BY <1>1, <1>2, <1>3, <1>5

\* Equal entries.
LEMMA TotalConstant ==
  ASSUME NEW D, IsFiniteSet(D), NEW c \in Nat
  PROVE  Total([x \in D |-> c]) = c * Cardinality(D)
<1> DEFINE G(s) == [x \in s |-> c]
           Bad == {s \in SUBSET D : Total(G(s)) # c * Cardinality(s)}
<1>1. IsFiniteSet(D)
  OBVIOUS
<1>2. \A s \in SUBSET D : Naturals(G(s)) /\ DOMAIN G(s) = s /\ \A x \in s : G(s)[x] = c
  <2> SUFFICES ASSUME NEW s \in SUBSET D
               PROVE  Naturals(G(s)) /\ DOMAIN G(s) = s /\ \A x \in s : G(s)[x] = c
    OBVIOUS
  <2>1. IsFiniteSet(s)
    BY <1>1, FS_Subset
  <2> QED
    BY <2>1 DEF Naturals
<1> HIDE DEF G
<1>3. ASSUME Bad # {}
      PROVE  FALSE
  <2>1. PICK s \in Bad : IsFiniteSet(s) /\ \A t \in Bad : Cardinality(s) <= Cardinality(t)
    BY <1>1, <1>3, SmallestSet
  <2>2. s \in SUBSET D /\ Total(G(s)) # c * Cardinality(s)
    BY <2>1
  <2>3. s # {}
    <3>1. Total(G({})) = 0
      BY <1>2, TotalNatural
    <3>2. Cardinality({}) = 0 /\ c * 0 = 0
      BY FS_EmptySet
    <3> QED
      BY <2>2, <3>1, <3>2
  <2>4. PICK k \in s : TRUE
    BY <2>3
  <2> DEFINE r == s \ {k}
             m == Cardinality(r)
  <2>5. IsFiniteSet(r) /\ m = Cardinality(s) - 1 /\ Cardinality(s) \in Nat /\ m \in Nat
    <3>1. IsFiniteSet(r) /\ Cardinality(r) = Cardinality(s) - 1
      BY <2>1, <2>4, FS_RemoveElement
    <3> QED
      BY <2>1, <3>1, FS_CardinalityType
  <2>6. r \in SUBSET D /\ r \notin Bad
    <3>1. ~(Cardinality(s) <= m)
      BY <2>5
    <3> QED
      BY <2>1, <2>2, <3>1
  <2>7. Total(G(r)) = c * m
    BY <2>6
  <2> HIDE DEF r, m
  <2>8. Total(G(s)) = c + Total(G(r))
    <3>1. DOMAIN G(r) = DOMAIN G(s) \ {k} /\ \A x \in DOMAIN G(r) : G(r)[x] = G(s)[x]
      BY <1>2, <2>2, <2>6 DEF r
    <3>2. k \in DOMAIN G(s) /\ G(s)[k] = c /\ Naturals(G(s))
      BY <1>2, <2>2, <2>4
    <3> QED
      BY <3>1, <3>2, TotalTakes
  <2>9. Cardinality(s) = m + 1 /\ c * (m + 1) = c * m + c /\ c * m \in Nat
    BY <2>5
  <2> QED
    BY <2>2, <2>7, <2>8, <2>9
<1>4. Total(G(D)) = c * Cardinality(D)
  BY <1>3
<1> QED
  BY <1>4 DEF G

-----------------------------------------------------------------------------
(***************************************************************************)
(* Maps.                                                                   *)
(***************************************************************************)
Maps(Key, Value) == UNION {[D -> Value] : D \in SUBSET Key}

LEMMA MapIs ==
  ASSUME NEW Key, NEW Value, NEW f
  PROVE  f \in Maps(Key, Value) <=> /\ f = [x \in DOMAIN f |-> f[x]] /\ DOMAIN f \subseteq Key
                                    /\ \A x \in DOMAIN f : f[x] \in Value
<1>1. ASSUME f \in Maps(Key, Value)
      PROVE  /\ f = [x \in DOMAIN f |-> f[x]] /\ DOMAIN f \subseteq Key
             /\ \A x \in DOMAIN f : f[x] \in Value
  <2>1. PICK D \in SUBSET Key : f \in [D -> Value]
    BY <1>1 DEF Maps
  <2> QED
    BY <2>1
<1>2. ASSUME f = [x \in DOMAIN f |-> f[x]], DOMAIN f \subseteq Key, \A x \in DOMAIN f : f[x] \in Value
      PROVE  f \in Maps(Key, Value)
  <2>1. f \in [DOMAIN f -> Value]
    BY <1>2
  <2> QED
    BY <1>2, <2>1 DEF Maps
<1> QED
  BY <1>1, <1>2

LEMMA PutIs ==
  ASSUME NEW f, NEW k, NEW v
  PROVE  /\ DOMAIN Put(f, k, v) = DOMAIN f \cup {k} /\ Put(f, k, v)[k] = v
         /\ \A x \in DOMAIN f \ {k} : Put(f, k, v)[x] = f[x]
BY DEF Put

LEMMA EraseIs ==
  ASSUME NEW f, NEW k
  PROVE  /\ DOMAIN Erase(f, k) = DOMAIN f \ {k}
         /\ \A x \in DOMAIN f \ {k} : Erase(f, k)[x] = f[x]
BY DEF Erase, Restrict

LEMMA EmptyIs == DOMAIN Empty = {} /\ \A Key, Value : Empty \in Maps(Key, Value)
<1>1. DOMAIN Empty = {} /\ Empty = [x \in DOMAIN Empty |-> Empty[x]]
  BY DEF Empty
<1> QED
  BY <1>1, MapIs

LEMMA PutMap ==
  ASSUME NEW Key, NEW Value, NEW f \in Maps(Key, Value), NEW k \in Key, NEW v \in Value
  PROVE  Put(f, k, v) \in Maps(Key, Value) /\ Emplace(f, k, v) \in Maps(Key, Value)
<1> DEFINE g == Put(f, k, v)
<1>1. DOMAIN f \subseteq Key /\ \A x \in DOMAIN f : f[x] \in Value
  BY MapIs
<1>2. g = [x \in DOMAIN g |-> g[x]]
  BY DEF Put
<1>3. DOMAIN g = DOMAIN f \cup {k} /\ g[k] = v /\ \A x \in DOMAIN f \ {k} : g[x] = f[x]
  BY DEF Put
<1> HIDE DEF g
<1>4. DOMAIN g \subseteq Key /\ \A x \in DOMAIN g : g[x] \in Value
  BY <1>1, <1>3
<1>5. g \in Maps(Key, Value)
  BY <1>2, <1>4, MapIs
<1> QED
  BY <1>5 DEF g, Emplace

LEMMA EraseMap ==
  ASSUME NEW Key, NEW Value, NEW f \in Maps(Key, Value), NEW k
  PROVE  Erase(f, k) \in Maps(Key, Value)
<1> DEFINE g == Erase(f, k)
<1>1. DOMAIN f \subseteq Key /\ \A x \in DOMAIN f : f[x] \in Value
  BY MapIs
<1>2. g = [x \in DOMAIN g |-> g[x]]
  BY DEF Erase, Restrict
<1>3. DOMAIN g = DOMAIN f \ {k} /\ \A x \in DOMAIN f \ {k} : g[x] = f[x]
  BY EraseIs
<1> HIDE DEF g
<1>4. g \in Maps(Key, Value)
  BY <1>1, <1>2, <1>3, MapIs
<1> QED
  BY <1>4 DEF g

\* An update of an entry that is there.
LEMMA UpdateIsPut ==
  ASSUME NEW Key, NEW Value, NEW f \in Maps(Key, Value), NEW k \in DOMAIN f, NEW v
  PROVE  [f EXCEPT ![k] = v] = Put(f, k, v)
<1>1. f = [x \in DOMAIN f |-> f[x]]
  BY MapIs
<1>2. DOMAIN f \cup {k} = DOMAIN f
  OBVIOUS
<1>3. [f EXCEPT ![k] = v] = [x \in DOMAIN f |-> IF x = k THEN v ELSE f[x]]
  BY <1>1
<1> QED
  BY <1>2, <1>3 DEF Put

LEMMA TotalPut ==
  ASSUME NEW f, Naturals(f), NEW k, NEW v \in Nat
  PROVE  /\ Naturals(Put(f, k, v))
         /\ k \notin DOMAIN f => Total(Put(f, k, v)) = Total(f) + v
         /\ k \in DOMAIN f => Total(Put(f, k, v)) + f[k] = Total(f) + v
<1> DEFINE g == Put(f, k, v)
<1>1. /\ DOMAIN g = DOMAIN f \cup {k} /\ g[k] = v
      /\ \A x \in DOMAIN f \ {k} : g[x] = f[x]
  BY DEF Put
<1> HIDE DEF g
<1>2. Naturals(g)
  <2>1. IsFiniteSet(DOMAIN g)
    BY <1>1, FS_AddElement DEF Naturals
  <2> QED
    BY <1>1, <2>1 DEF Naturals
<1>3. CASE k \notin DOMAIN f
  <2>1. DOMAIN f = DOMAIN g \ {k} /\ \A x \in DOMAIN f : f[x] = g[x]
    BY <1>1, <1>3
  <2>2. Total(g) = v + Total(f)
    <3>1. k \in DOMAIN g /\ g[k] = v
      BY <1>1
    <3>2. Total(g) = g[k] + Total(f)
      BY <1>2, <2>1, <3>1, TotalTakes
    <3> QED
      BY <3>1, <3>2
  <2>3. Total(f) \in Nat
    BY TotalNatural
  <2> QED
    BY <1>2, <1>3, <2>2, <2>3 DEF g
<1>4. CASE k \in DOMAIN f
  <2> DEFINE e == Erase(f, k)
  <2>1. DOMAIN e = DOMAIN f \ {k} /\ \A x \in DOMAIN e : e[x] = f[x]
    BY EraseIs
  <2> HIDE DEF e
  <2>2. Naturals(e) /\ Total(f) = f[k] + Total(e)
    BY <1>4, <2>1, TotalTakes
  <2>3. DOMAIN e = DOMAIN g \ {k} /\ \A x \in DOMAIN e : e[x] = g[x]
    BY <1>1, <1>4, <2>1
  <2>4. Total(g) = v + Total(e)
    BY <1>1, <1>2, <2>3, TotalTakes
  <2>5. Total(e) \in Nat /\ f[k] \in Nat
    BY <1>4, <2>2, TotalNatural DEF Naturals
  <2>6. Total(g) + f[k] = Total(f) + v
    BY <2>2, <2>4, <2>5
  <2> QED
    BY <1>2, <1>4, <2>6 DEF g
<1> QED
  BY <1>3, <1>4

LEMMA TotalErase ==
  ASSUME NEW f, Naturals(f), NEW k \in DOMAIN f
  PROVE  /\ Naturals(Erase(f, k)) /\ f[k] \in Nat
         /\ Total(f) = f[k] + Total(Erase(f, k)) /\ f[k] <= Total(f)
<1> DEFINE e == Erase(f, k)
<1>1. DOMAIN e = DOMAIN f \ {k} /\ \A x \in DOMAIN e : e[x] = f[x]
  BY EraseIs
<1> HIDE DEF e
<1>2. Naturals(e) /\ Total(f) = f[k] + Total(e)
  BY <1>1, TotalTakes
<1>3. Total(e) \in Nat /\ f[k] \in Nat
  BY <1>2, TotalNatural DEF Naturals
<1>4. f[k] <= Total(f)
  BY <1>2, <1>3
<1> QED
  BY <1>2, <1>3, <1>4 DEF e

\* Blocks behind one another below a limit.
Apart(f) == \A p, q \in DOMAIN f : p < q => p + f[p] <= q

LEMMA ApartFits ==
  ASSUME NEW limit \in Nat, NEW f, Naturals(f), DOMAIN f \subseteq Nat, Apart(f),
         \A p \in DOMAIN f : p + f[p] <= limit
  PROVE  Total(f) <= limit
<1> DEFINE Fits(D) ==
             \A n \in Nat : (\A p \in D : p + f[p] <= n) => Fold(f, DOMAIN f)[D] <= n
           Bad == {D \in SUBSET DOMAIN f : ~Fits(D)}
           F(D) == Fold(f, DOMAIN f)[D]
<1>1. \A D \in SUBSET DOMAIN f : F(D) \in Nat /\ \A k \in D : F(D) = f[k] + F(D \ {k})
  <2>1. IsFiniteSet(DOMAIN f) /\ \A x \in DOMAIN f : f[x] \in Nat
    BY DEF Naturals
  <2>2. \A D \in SUBSET DOMAIN f : F(D) \in Nat
    BY <2>1, FoldNatural
  <2>3. ASSUME NEW D \in SUBSET DOMAIN f, NEW k \in D
        PROVE  Fold(f, DOMAIN f)[D] = f[k] + Fold(f, DOMAIN f)[D \ {k}]
    BY <2>1, FoldTakes
  <2> QED
    BY <2>2, <2>3
<1>2. F({}) = 0
  BY FoldIs DEF Naturals
<1>3. ASSUME Bad # {}
      PROVE  FALSE
  <2>1. PICK D \in Bad : IsFiniteSet(D) /\ \A E \in Bad : Cardinality(D) <= Cardinality(E)
    BY <1>3, SmallestSet DEF Naturals
  <2>2. PICK n \in Nat : (\A p \in D : p + f[p] <= n) /\ ~(F(D) <= n)
    BY <2>1
  <2> HIDE DEF F
  <2>3. D # {}
    <3>1. D = {} => F(D) = F({})
      OBVIOUS
    <3>2. F(D) # 0
      BY <2>2
    <3> QED
      BY <1>2, <3>1, <3>2
  <2>4. \A p \in D : p \in Nat /\ f[p] \in Nat /\ p <= n
    BY <2>1, <2>2 DEF Naturals
  <2>5. PICK m \in D : \A p \in D : p <= m
    <3>1. D \in SUBSET (0 .. n)
      BY <2>4
    <3> QED
      BY <2>3, <3>1, GreatestNumber
  <2>6. D \ {m} \notin Bad
    <3>1. Cardinality(D \ {m}) = Cardinality(D) - 1 /\ Cardinality(D) \in Nat
      BY <2>1, <2>5, FS_RemoveElement, FS_CardinalityType
    <3> QED
      BY <2>1, <3>1
  <2>7. Fits(D \ {m}) /\ m \in Nat /\ f[m] \in Nat
    BY <2>1, <2>4, <2>5, <2>6
  <2>8. \A p \in D \ {m} : p + f[p] <= m
    <3>1. \A p \in D \ {m} : p < m
      BY <2>4, <2>5
    <3> QED
      BY <2>1, <2>5, <3>1 DEF Apart
  <2>9. F(D \ {m}) <= m
    BY <2>7, <2>8 DEF F
  <2>10. F(D) = f[m] + F(D \ {m}) /\ F(D \ {m}) \in Nat
    BY <1>1, <2>1, <2>5
  <2>11. m + f[m] <= n
    BY <2>2, <2>5
  <2> QED
    BY <2>2, <2>7, <2>9, <2>10, <2>11
<1>4. Fits(DOMAIN f)
  BY <1>3
<1>5. Total(f) = Fold(f, DOMAIN f)[DOMAIN f]
  BY TotalIsFold DEF Fold
<1> QED
  BY <1>4, <1>5

-----------------------------------------------------------------------------
(***************************************************************************)
(* Heaps and cores.                                                        *)
(***************************************************************************)
Cores == [managed : Size, end : Size, used : Size, allocations : Maps(Pointers, Sizes)]

Usages == [used : Size, managed : Size]

Heaps ==
  [birth : Times, death : Times \cup {0}, used : Size, managed : Size,
   max_managed : Size, max_used : Size,
   cores : Maps(Pointers, Cores), alloc_to_core : Maps(Pointers, Pointers),
   allocations : Maps(Pointers, Sizes), samples : Maps(Times, Usages), backing : Seq(HeapIds)]

\* One field of a heap is written.
WithDeath(h, x) == [h EXCEPT !.death = x]
WithUsed(h, x) == [h EXCEPT !.used = x]
WithManaged(h, x) == [h EXCEPT !.managed = x]
WithMaxManaged(h, x) == [h EXCEPT !.max_managed = x]
WithMaxUsed(h, x) == [h EXCEPT !.max_used = x]
WithCores(h, x) == [h EXCEPT !.cores = x]
WithAllocToCore(h, x) == [h EXCEPT !.alloc_to_core = x]
WithAllocations(h, x) == [h EXCEPT !.allocations = x]
WithSamples(h, x) == [h EXCEPT !.samples = x]
WithBacking(h, x) == [h EXCEPT !.backing = x]

LEMMA HeapFields ==
  ASSUME NEW h \in Heaps
  PROVE  /\ h.birth \in Times /\ h.death \in Times \cup {0} /\ h.used \in Size /\ h.managed \in Size
         /\ h.max_managed \in Size /\ h.max_used \in Size
         /\ h.cores \in Maps(Pointers, Cores) /\ h.alloc_to_core \in Maps(Pointers, Pointers)
         /\ h.allocations \in Maps(Pointers, Sizes) /\ h.samples \in Maps(Times, Usages)
         /\ h.backing \in Seq(HeapIds)
BY DEF Heaps

\* The field gets the value, the others keep theirs.
LEMMA DeathWritten ==
  ASSUME NEW h \in Heaps, NEW x \in Times \cup {0}
  PROVE  /\ WithDeath(h, x) \in Heaps /\ WithDeath(h, x).death = x
         /\ WithDeath(h, x).used = h.used /\ WithDeath(h, x).managed = h.managed
         /\ WithDeath(h, x).max_managed = h.max_managed
         /\ WithDeath(h, x).max_used = h.max_used /\ WithDeath(h, x).cores = h.cores
         /\ WithDeath(h, x).alloc_to_core = h.alloc_to_core
         /\ WithDeath(h, x).allocations = h.allocations /\ WithDeath(h, x).samples = h.samples
         /\ WithDeath(h, x).backing = h.backing
BY DEF WithDeath, Heaps

LEMMA UsedWritten ==
  ASSUME NEW h \in Heaps, NEW x \in Size
  PROVE  /\ WithUsed(h, x) \in Heaps /\ WithUsed(h, x).used = x
         /\ WithUsed(h, x).managed = h.managed /\ WithUsed(h, x).max_managed = h.max_managed
         /\ WithUsed(h, x).max_used = h.max_used /\ WithUsed(h, x).cores = h.cores
         /\ WithUsed(h, x).alloc_to_core = h.alloc_to_core
         /\ WithUsed(h, x).allocations = h.allocations /\ WithUsed(h, x).samples = h.samples
         /\ WithUsed(h, x).backing = h.backing
BY DEF WithUsed, Heaps

LEMMA ManagedWritten ==
  ASSUME NEW h \in Heaps, NEW x \in Size
  PROVE  /\ WithManaged(h, x) \in Heaps /\ WithManaged(h, x).managed = x
         /\ WithManaged(h, x).used = h.used /\ WithManaged(h, x).max_managed = h.max_managed
         /\ WithManaged(h, x).max_used = h.max_used /\ WithManaged(h, x).cores = h.cores
         /\ WithManaged(h, x).alloc_to_core = h.alloc_to_core
         /\ WithManaged(h, x).allocations = h.allocations
         /\ WithManaged(h, x).samples = h.samples /\ WithManaged(h, x).backing = h.backing
BY DEF WithManaged, Heaps

LEMMA MaxManagedWritten ==
  ASSUME NEW h \in Heaps, NEW x \in Size
  PROVE  /\ WithMaxManaged(h, x) \in Heaps /\ WithMaxManaged(h, x).max_managed = x
         /\ WithMaxManaged(h, x).used = h.used /\ WithMaxManaged(h, x).managed = h.managed
         /\ WithMaxManaged(h, x).max_used = h.max_used /\ WithMaxManaged(h, x).cores = h.cores
         /\ WithMaxManaged(h, x).alloc_to_core = h.alloc_to_core
         /\ WithMaxManaged(h, x).allocations = h.allocations
         /\ WithMaxManaged(h, x).samples = h.samples
         /\ WithMaxManaged(h, x).backing = h.backing
BY DEF WithMaxManaged, Heaps

LEMMA MaxUsedWritten ==
  ASSUME NEW h \in Heaps, NEW x \in Size
  PROVE  /\ WithMaxUsed(h, x) \in Heaps /\ WithMaxUsed(h, x).max_used = x
         /\ WithMaxUsed(h, x).used = h.used /\ WithMaxUsed(h, x).managed = h.managed
         /\ WithMaxUsed(h, x).max_managed = h.max_managed /\ WithMaxUsed(h, x).cores = h.cores
         /\ WithMaxUsed(h, x).alloc_to_core = h.alloc_to_core
         /\ WithMaxUsed(h, x).allocations = h.allocations
         /\ WithMaxUsed(h, x).samples = h.samples /\ WithMaxUsed(h, x).backing = h.backing
BY DEF WithMaxUsed, Heaps

LEMMA CoresWritten ==
  ASSUME NEW h \in Heaps, NEW x \in Maps(Pointers, Cores)
  PROVE  /\ WithCores(h, x) \in Heaps /\ WithCores(h, x).cores = x
         /\ WithCores(h, x).used = h.used /\ WithCores(h, x).managed = h.managed
         /\ WithCores(h, x).max_managed = h.max_managed
         /\ WithCores(h, x).max_used = h.max_used
         /\ WithCores(h, x).alloc_to_core = h.alloc_to_core
         /\ WithCores(h, x).allocations = h.allocations /\ WithCores(h, x).samples = h.samples
         /\ WithCores(h, x).backing = h.backing
BY DEF WithCores, Heaps

LEMMA AllocToCoreWritten ==
  ASSUME NEW h \in Heaps, NEW x \in Maps(Pointers, Pointers)
  PROVE  /\ WithAllocToCore(h, x) \in Heaps /\ WithAllocToCore(h, x).alloc_to_core = x
         /\ WithAllocToCore(h, x).used = h.used /\ WithAllocToCore(h, x).managed = h.managed
         /\ WithAllocToCore(h, x).max_managed = h.max_managed
         /\ WithAllocToCore(h, x).max_used = h.max_used
         /\ WithAllocToCore(h, x).cores = h.cores
         /\ WithAllocToCore(h, x).allocations = h.allocations
         /\ WithAllocToCore(h, x).samples = h.samples
         /\ WithAllocToCore(h, x).backing = h.backing
BY DEF WithAllocToCore, Heaps

LEMMA AllocationsWritten ==
  ASSUME NEW h \in Heaps, NEW x \in Maps(Pointers, Sizes)
  PROVE  /\ WithAllocations(h, x) \in Heaps /\ WithAllocations(h, x).allocations = x
         /\ WithAllocations(h, x).used = h.used /\ WithAllocations(h, x).managed = h.managed
         /\ WithAllocations(h, x).max_managed = h.max_managed
         /\ WithAllocations(h, x).max_used = h.max_used
         /\ WithAllocations(h, x).cores = h.cores
         /\ WithAllocations(h, x).alloc_to_core = h.alloc_to_core
         /\ WithAllocations(h, x).samples = h.samples
         /\ WithAllocations(h, x).backing = h.backing
BY DEF WithAllocations, Heaps

LEMMA SamplesWritten ==
  ASSUME NEW h \in Heaps, NEW x \in Maps(Times, Usages)
  PROVE  /\ WithSamples(h, x) \in Heaps /\ WithSamples(h, x).samples = x
         /\ WithSamples(h, x).used = h.used /\ WithSamples(h, x).managed = h.managed
         /\ WithSamples(h, x).max_managed = h.max_managed
         /\ WithSamples(h, x).max_used = h.max_used /\ WithSamples(h, x).cores = h.cores
         /\ WithSamples(h, x).alloc_to_core = h.alloc_to_core
         /\ WithSamples(h, x).allocations = h.allocations
         /\ WithSamples(h, x).backing = h.backing
BY DEF WithSamples, Heaps

LEMMA BackingWritten ==
  ASSUME NEW h \in Heaps, NEW x \in Seq(HeapIds)
  PROVE  /\ WithBacking(h, x) \in Heaps /\ WithBacking(h, x).backing = x
         /\ WithBacking(h, x).used = h.used /\ WithBacking(h, x).managed = h.managed
         /\ WithBacking(h, x).max_managed = h.max_managed
         /\ WithBacking(h, x).max_used = h.max_used /\ WithBacking(h, x).cores = h.cores
         /\ WithBacking(h, x).alloc_to_core = h.alloc_to_core
         /\ WithBacking(h, x).allocations = h.allocations
         /\ WithBacking(h, x).samples = h.samples
BY DEF WithBacking, Heaps

\* Counters stay below Word.
LEMMA CountersFit ==
  /\ 0 \in Size
  /\ \A a, b \in Size : Plus(a, b) \in Size /\ Minus(a, b) \in Size /\ Larger(a, b) \in Size
<1>1. Word \in Nat \ {0}
  OBVIOUS
<1>2. 0 \in Size
  BY <1>1 DEF Size
<1>3. ASSUME NEW a \in Size, NEW b \in Size
      PROVE  Plus(a, b) \in Size
  BY <1>1, <1>3 DEF Size, Plus
<1>4. ASSUME NEW a \in Size, NEW b \in Size
      PROVE  Minus(a, b) \in Size
  BY <1>1, <1>4 DEF Size, Minus
<1>5. ASSUME NEW a \in Size, NEW b \in Size
      PROVE  Larger(a, b) \in Size
  BY <1>5 DEF Larger
<1> QED
  BY <1>2, <1>3, <1>4, <1>5

\* They count modulo Word.
LEMMA CountersWrap ==
  ASSUME NEW a \in Int, NEW b \in Int
  PROVE  /\ Plus(a % Word, b) = (a + b) % Word /\ Plus(b, a % Word) = (b + a) % Word
         /\ Minus(a % Word, b) = (a - b) % Word /\ Minus(b, a % Word) = (b - a) % Word
<1>1. Word \in Nat \ {0}
  OBVIOUS
<1> QED
  BY <1>1, RemainderFirst DEF Plus, Minus

LEMMA ConstantsFit == Pointers \subseteq Size /\ Sizes \subseteq Size /\ Garbage \subseteq Size
BY DEF Size

LEMMA ConstantsNatural == Pointers \subseteq Nat /\ Sizes \subseteq Nat /\ Size \subseteq Nat
<1>1. 0 .. (Word - 1) \subseteq Nat
  OBVIOUS
<1> QED
  BY <1>1 DEF Size

LEMMA CoreFields ==
  ASSUME NEW c \in Cores
  PROVE  /\ c.managed \in Size /\ c.end \in Size /\ c.used \in Size
         /\ c.allocations \in Maps(Pointers, Sizes)
BY DEF Cores

LEMMA CoreMade ==
  ASSUME NEW p \in Pointers, NEW s \in Sizes
  PROVE  /\ NewCore(p, s) \in Cores /\ NewCore(p, s).managed = s
         /\ NewCore(p, s).end = Plus(p, s) /\ NewCore(p, s).used = 0
         /\ NewCore(p, s).allocations = Empty
<1>1. s \in Size /\ Plus(p, s) \in Size /\ 0 \in Size
  BY ConstantsFit, CountersFit
<1>2. Empty \in Maps(Pointers, Sizes)
  BY EmptyIs
<1> QED
  BY <1>1, <1>2 DEF NewCore, Cores

LEMMA CoreGrows ==
  ASSUME NEW c \in Cores, NEW s \in Sizes
  PROVE  /\ Grow(c, s) \in Cores /\ Grow(c, s).managed = Plus(c.managed, s)
         /\ Grow(c, s).end = Plus(c.end, s) /\ Grow(c, s).used = c.used
         /\ Grow(c, s).allocations = c.allocations
<1>1. s \in Size /\ c.managed \in Size /\ c.end \in Size
  BY ConstantsFit, CoreFields
<1>2. Plus(c.managed, s) \in Size /\ Plus(c.end, s) \in Size
  BY <1>1, CountersFit
<1> QED
  BY <1>2 DEF Grow, Cores

\* addAllocation: an address that the core holds keeps its size.
LEMMA CoreTakes ==
  ASSUME NEW c \in Cores, NEW p \in Pointers, NEW s \in Sizes
  PROVE  /\ CoreWith(c, p, s) \in Cores
         /\ CoreWith(c, p, s).managed = c.managed /\ CoreWith(c, p, s).end = c.end
         /\ p \in DOMAIN c.allocations => CoreWith(c, p, s) = c
         /\ p \notin DOMAIN c.allocations =>
              /\ CoreWith(c, p, s).allocations = Put(c.allocations, p, s)
              /\ CoreWith(c, p, s).used = Plus(c.used, s)
<1>1. CASE p \in DOMAIN c.allocations
  <2>1. CoreWith(c, p, s) = c
    BY <1>1 DEF CoreWith
  <2> QED
    BY <1>1, <2>1
<1>2. CASE p \notin DOMAIN c.allocations
  <2> DEFINE a == Put(c.allocations, p, s)
             u == Plus(c.used, s)
  <2>1. a \in Maps(Pointers, Sizes)
    BY CoreFields, PutMap
  <2>2. u \in Size
    BY CoreFields, ConstantsFit, CountersFit
  <2>3. CoreWith(c, p, s) = [c EXCEPT !.allocations = a, !.used = u]
    BY <1>2 DEF CoreWith
  <2> HIDE DEF a, u
  <2>4. /\ CoreWith(c, p, s) \in Cores
        /\ CoreWith(c, p, s).managed = c.managed /\ CoreWith(c, p, s).end = c.end
        /\ CoreWith(c, p, s).allocations = a /\ CoreWith(c, p, s).used = u
    BY <2>1, <2>2, <2>3 DEF Cores
  <2> QED
    BY <1>2, <2>4 DEF a, u
<1> QED
  BY <1>1, <1>2

LEMMA CoreLoses ==
  ASSUME NEW c \in Cores, NEW p
  PROVE  /\ RemovedBytes(c, p) \in Size /\ CoreWithout(c, p) \in Cores
         /\ CoreWithout(c, p).managed = c.managed /\ CoreWithout(c, p).end = c.end
         /\ CoreWithout(c, p).allocations = Erase(c.allocations, p)
         /\ CoreWithout(c, p).used = Minus(c.used, RemovedBytes(c, p))
<1> DEFINE a == Erase(c.allocations, p)
           r == RemovedBytes(c, p)
           u == Minus(c.used, r)
<1>1. a \in Maps(Pointers, Sizes)
  BY CoreFields, EraseMap
<1>2. \A x \in DOMAIN c.allocations : c.allocations[x] \in Sizes
  BY CoreFields, MapIs
<1>3. r \in Size
  BY <1>2, ConstantsFit, CountersFit DEF RemovedBytes
<1>4. u \in Size
  BY <1>3, CoreFields, CountersFit
<1>5. CoreWithout(c, p) = [c EXCEPT !.allocations = a, !.used = u]
  BY DEF CoreWithout
<1> HIDE DEF a, u
<1>6. /\ CoreWithout(c, p) \in Cores
      /\ CoreWithout(c, p).managed = c.managed /\ CoreWithout(c, p).end = c.end
      /\ CoreWithout(c, p).allocations = a /\ CoreWithout(c, p).used = u
  BY <1>1, <1>4, <1>5 DEF Cores
<1> QED
  BY <1>3, <1>6 DEF a, u

\* A core of a heap is replaced.
LEMMA CorePut ==
  ASSUME NEW h \in Heaps, NEW b \in Pointers, NEW c \in Cores
  PROVE  /\ Put(h.cores, b, c) \in Maps(Pointers, Cores)
         /\ b \in DOMAIN h.cores => [h.cores EXCEPT ![b] = c] = Put(h.cores, b, c)
<1>1. h.cores \in Maps(Pointers, Cores)
  BY HeapFields
<1>2. Put(h.cores, b, c) \in Maps(Pointers, Cores)
  BY <1>1, PutMap
<1>3. ASSUME b \in DOMAIN h.cores
      PROVE  [h.cores EXCEPT ![b] = c] = Put(h.cores, b, c)
  BY <1>1, <1>3, UpdateIsPut
<1> QED
  BY <1>2, <1>3

LEMMA CoreOf ==
  ASSUME NEW h \in Heaps, NEW b \in DOMAIN h.cores
  PROVE  h.cores[b] \in Cores /\ b \in Pointers
BY HeapFields, MapIs

LEMMA Manages ==
  ASSUME NEW h \in Heaps, NEW m \in Size
  PROVE  /\ HeapManages(h, m) \in Heaps
         /\ HeapManages(h, m).managed = m
         /\ HeapManages(h, m).max_managed = Larger(h.max_managed, m)
         /\ HeapManages(h, m).used = h.used /\ HeapManages(h, m).max_used = h.max_used
         /\ HeapManages(h, m).cores = h.cores
         /\ HeapManages(h, m).alloc_to_core = h.alloc_to_core
         /\ HeapManages(h, m).allocations = h.allocations
         /\ HeapManages(h, m).samples = h.samples /\ HeapManages(h, m).backing = h.backing
<1> DEFINE g == WithManaged(h, m)
           x == Larger(h.max_managed, m)
<1>1. HeapManages(h, m) = WithMaxManaged(g, x)
  BY DEF HeapManages, WithManaged, WithMaxManaged, Heaps
<1>2. x \in Size
  BY HeapFields, CountersFit
<1>3. /\ g \in Heaps /\ g.managed = m /\ g.used = h.used /\ g.max_used = h.max_used
      /\ g.cores = h.cores /\ g.alloc_to_core = h.alloc_to_core
      /\ g.allocations = h.allocations /\ g.samples = h.samples /\ g.backing = h.backing
  BY ManagedWritten
<1> HIDE DEF g, x
<1> QED
  BY <1>1, <1>2, <1>3, MaxManagedWritten DEF x

LEMMA Uses ==
  ASSUME NEW h \in Heaps, NEW u \in Size
  PROVE  /\ HeapUses(h, u) \in Heaps
         /\ HeapUses(h, u).used = u /\ HeapUses(h, u).max_used = Larger(h.max_used, u)
         /\ HeapUses(h, u).managed = h.managed /\ HeapUses(h, u).max_managed = h.max_managed
         /\ HeapUses(h, u).cores = h.cores /\ HeapUses(h, u).alloc_to_core = h.alloc_to_core
         /\ HeapUses(h, u).allocations = h.allocations
         /\ HeapUses(h, u).samples = h.samples /\ HeapUses(h, u).backing = h.backing
<1> DEFINE g == WithUsed(h, u)
           x == Larger(h.max_used, u)
<1>1. HeapUses(h, u) = WithMaxUsed(g, x)
  BY DEF HeapUses, WithUsed, WithMaxUsed, Heaps
<1>2. x \in Size
  BY HeapFields, CountersFit
<1>3. /\ g \in Heaps /\ g.used = u /\ g.managed = h.managed /\ g.max_managed = h.max_managed
      /\ g.cores = h.cores /\ g.alloc_to_core = h.alloc_to_core
      /\ g.allocations = h.allocations /\ g.samples = h.samples /\ g.backing = h.backing
  BY UsedWritten
<1> HIDE DEF g, x
<1> QED
  BY <1>1, <1>2, <1>3, MaxUsedWritten DEF x

Usage(h) == [used |-> h.used, managed |-> h.managed]

LEMMA Sampled ==
  ASSUME NEW h \in Heaps, NEW t \in Times
  PROVE  /\ Sample(h, t) \in Heaps /\ Sample(h, t).samples = Put(h.samples, t, Usage(h))
         /\ Sample(h, t).used = h.used /\ Sample(h, t).max_used = h.max_used
         /\ Sample(h, t).managed = h.managed /\ Sample(h, t).max_managed = h.max_managed
         /\ Sample(h, t).cores = h.cores /\ Sample(h, t).alloc_to_core = h.alloc_to_core
         /\ Sample(h, t).allocations = h.allocations /\ Sample(h, t).backing = h.backing
<1> DEFINE x == Put(h.samples, t, Usage(h))
<1>1. Sample(h, t) = WithSamples(h, x)
  BY DEF Sample, WithSamples, Usage
<1>2. Usage(h) \in Usages
  BY HeapFields DEF Usage, Usages
<1>3. x \in Maps(Times, Usages)
  BY <1>2, HeapFields, PutMap
<1> HIDE DEF x
<1> QED
  BY <1>1, <1>3, SamplesWritten DEF x

LEMMA HeapMade ==
  ASSUME NEW t \in Times, NEW m \in Garbage, NEW u \in Garbage
  PROVE  /\ NewHeap(t, m, u) \in Heaps
         /\ NewHeap(t, m, u).used = 0 /\ NewHeap(t, m, u).managed = 0
         /\ NewHeap(t, m, u).max_managed = m /\ NewHeap(t, m, u).max_used = u
         /\ NewHeap(t, m, u).cores = Empty /\ NewHeap(t, m, u).alloc_to_core = Empty
         /\ NewHeap(t, m, u).allocations = Empty /\ NewHeap(t, m, u).samples = Empty
         /\ NewHeap(t, m, u).backing = <<>>
<1>1. m \in Size /\ u \in Size /\ 0 \in Size
  BY ConstantsFit, CountersFit
<1>2. /\ Empty \in Maps(Pointers, Cores) /\ Empty \in Maps(Pointers, Pointers)
      /\ Empty \in Maps(Pointers, Sizes) /\ Empty \in Maps(Times, Usages)
  BY EmptyIs
<1>3. <<>> \in Seq(HeapIds)
  OBVIOUS
<1> DEFINE g == NewHeap(t, m, u)
<1>4. g \in Heaps
  BY <1>1, <1>2, <1>3 DEF NewHeap, Heaps
<1>5. /\ g.used = 0 /\ g.managed = 0 /\ g.max_managed = m /\ g.max_used = u
      /\ g.cores = Empty /\ g.alloc_to_core = Empty
      /\ g.allocations = Empty /\ g.samples = Empty /\ g.backing = <<>>
  BY DEF NewHeap
<1> QED
  BY <1>4, <1>5

LEMMA CoreAdded ==
  ASSUME NEW h \in Heaps, NEW p \in Pointers, NEW s \in Sizes
  PROVE  LET g == HeapAddCore(h, p, s)
         IN  /\ p \in DOMAIN h.cores => g = h
             /\ p \notin DOMAIN h.cores =>
                  /\ g \in Heaps
                  /\ g.cores = Put(h.cores, p, NewCore(p, s))
                  /\ g.managed = Plus(h.managed, s)
                  /\ g.max_managed = Larger(h.max_managed, g.managed)
                  /\ g.used = h.used /\ g.max_used = h.max_used
                  /\ g.alloc_to_core = h.alloc_to_core /\ g.allocations = h.allocations
                  /\ g.samples = h.samples /\ g.backing = h.backing
<1> DEFINE x == Put(h.cores, p, NewCore(p, s))
           m == Plus(h.managed, s)
           k == WithCores(h, x)
<1>1. ASSUME p \in DOMAIN h.cores
      PROVE  HeapAddCore(h, p, s) = h
  BY <1>1 DEF HeapAddCore
<1>2. ASSUME p \notin DOMAIN h.cores
      PROVE  HeapAddCore(h, p, s) = HeapManages(k, m)
  BY <1>2 DEF HeapAddCore, WithCores
<1>3. x \in Maps(Pointers, Cores)
  BY CoreMade, CorePut
<1>4. m \in Size
  BY HeapFields, ConstantsFit, CountersFit
<1>5. /\ k \in Heaps /\ k.cores = x /\ k.used = h.used /\ k.max_used = h.max_used
      /\ k.max_managed = h.max_managed
      /\ k.alloc_to_core = h.alloc_to_core /\ k.allocations = h.allocations
      /\ k.samples = h.samples /\ k.backing = h.backing
  BY <1>3, CoresWritten
<1> HIDE DEF x, m, k
<1>6. /\ HeapManages(k, m) \in Heaps /\ HeapManages(k, m).cores = x
      /\ HeapManages(k, m).managed = m
      /\ HeapManages(k, m).max_managed = Larger(h.max_managed, m)
      /\ HeapManages(k, m).used = h.used /\ HeapManages(k, m).max_used = h.max_used
      /\ HeapManages(k, m).alloc_to_core = h.alloc_to_core
      /\ HeapManages(k, m).allocations = h.allocations
      /\ HeapManages(k, m).samples = h.samples /\ HeapManages(k, m).backing = h.backing
  BY <1>4, <1>5, Manages
<1> QED
  BY <1>1, <1>2, <1>6 DEF x, m

LEMMA CoreGrown ==
  ASSUME NEW h \in Heaps, NEW p \in Pointers, NEW s \in Sizes
  PROVE  LET g == HeapGrowCore(h, p, s)
         IN  /\ p \notin DOMAIN h.cores => g = h
             /\ p \in DOMAIN h.cores =>
                  /\ g \in Heaps
                  /\ g.cores = Put(h.cores, p, Grow(h.cores[p], s))
                  /\ g.managed = Plus(h.managed, s)
                  /\ g.max_managed = Larger(h.max_managed, g.managed)
                  /\ g.used = h.used /\ g.max_used = h.max_used
                  /\ g.alloc_to_core = h.alloc_to_core /\ g.allocations = h.allocations
                  /\ g.samples = h.samples /\ g.backing = h.backing
<1>1. ASSUME p \notin DOMAIN h.cores
      PROVE  HeapGrowCore(h, p, s) = h
  BY <1>1 DEF HeapGrowCore
<1>2. CASE p \in DOMAIN h.cores
  <2> DEFINE c == Grow(h.cores[p], s)
             x == Put(h.cores, p, c)
             m == Plus(h.managed, s)
             k == WithCores(h, x)
  <2>1. h.cores[p] \in Cores
    BY <1>2, CoreOf
  <2>2. c \in Cores
    BY <2>1, CoreGrows
  <2>3. x \in Maps(Pointers, Cores) /\ [h.cores EXCEPT ![p] = c] = x
    BY <1>2, <2>2, CorePut
  <2>4. m \in Size
    BY HeapFields, ConstantsFit, CountersFit
  <2>5. HeapGrowCore(h, p, s) = HeapManages([h EXCEPT !.cores = [h.cores EXCEPT ![p] = c]], m)
    BY <1>2 DEF HeapGrowCore
  <2>6. HeapGrowCore(h, p, s) = HeapManages(k, m)
    BY <2>3, <2>5 DEF WithCores
  <2>7. /\ k \in Heaps /\ k.cores = x /\ k.used = h.used /\ k.max_used = h.max_used
        /\ k.max_managed = h.max_managed
        /\ k.alloc_to_core = h.alloc_to_core /\ k.allocations = h.allocations
        /\ k.samples = h.samples /\ k.backing = h.backing
    BY <2>3, CoresWritten
  <2> HIDE DEF x, m, k
  <2>8. /\ HeapManages(k, m) \in Heaps /\ HeapManages(k, m).cores = x
        /\ HeapManages(k, m).managed = m
        /\ HeapManages(k, m).max_managed = Larger(h.max_managed, m)
        /\ HeapManages(k, m).used = h.used /\ HeapManages(k, m).max_used = h.max_used
        /\ HeapManages(k, m).alloc_to_core = h.alloc_to_core
        /\ HeapManages(k, m).allocations = h.allocations
        /\ HeapManages(k, m).samples = h.samples /\ HeapManages(k, m).backing = h.backing
    BY <2>4, <2>7, Manages
  <2> QED
    BY <1>2, <2>6, <2>8 DEF x, m
<1> QED
  BY <1>1, <1>2

LEMMA CoreRemoved ==
  ASSUME NEW h \in Heaps, NEW p
  PROVE  LET g == HeapRemoveCore(h, p)
         IN  /\ p \notin DOMAIN h.cores => g = h
             /\ p \in DOMAIN h.cores =>
                  /\ g \in Heaps
                  /\ g.cores = Erase(h.cores, p)
                  /\ g.managed = Minus(h.managed, h.cores[p].managed)
                  /\ g.max_managed = h.max_managed
                  /\ g.used = h.used /\ g.max_used = h.max_used
                  /\ g.alloc_to_core = h.alloc_to_core /\ g.allocations = h.allocations
                  /\ g.samples = h.samples /\ g.backing = h.backing
<1>1. ASSUME p \notin DOMAIN h.cores
      PROVE  HeapRemoveCore(h, p) = h
  BY <1>1 DEF HeapRemoveCore
<1>2. CASE p \in DOMAIN h.cores
  <2> DEFINE x == Erase(h.cores, p)
             m == Minus(h.managed, h.cores[p].managed)
             k == WithManaged(h, m)
  <2>1. x \in Maps(Pointers, Cores)
    BY HeapFields, EraseMap
  <2>2. h.cores[p].managed \in Size
    BY <1>2, CoreOf, CoreFields
  <2>3. m \in Size
    BY <2>2, HeapFields, CountersFit
  <2>4. /\ k \in Heaps /\ k.managed = m /\ k.used = h.used /\ k.max_used = h.max_used
        /\ k.max_managed = h.max_managed
        /\ k.alloc_to_core = h.alloc_to_core /\ k.allocations = h.allocations
        /\ k.samples = h.samples /\ k.backing = h.backing
    BY <2>3, ManagedWritten
  <2>5. HeapRemoveCore(h, p) = [h EXCEPT !.managed = m, !.cores = x]
    BY <1>2 DEF HeapRemoveCore
  <2> HIDE DEF x, m
  <2>6. HeapRemoveCore(h, p) = WithCores(k, x)
    BY <2>5 DEF WithCores, WithManaged, Heaps
  <2> HIDE DEF k
  <2> QED
    BY <1>2, <2>1, <2>4, <2>6, CoresWritten DEF x, m
<1> QED
  BY <1>1, <1>2

LEMMA AllocationPlacedIn ==
  ASSUME NEW h \in Heaps, NEW b \in DOMAIN h.cores, NEW p \in Pointers, NEW s \in Sizes
  PROVE  LET g == PlacedIn(h, b, p, s)
         IN  /\ g \in Heaps
             /\ g.cores = Put(h.cores, b, CoreWith(h.cores[b], p, s))
             /\ g.alloc_to_core = Emplace(h.alloc_to_core, p, b)
             /\ g.used = Plus(h.used, s) /\ g.max_used = Larger(h.max_used, g.used)
             /\ g.managed = h.managed /\ g.max_managed = h.max_managed
             /\ g.allocations = h.allocations
             /\ g.samples = h.samples /\ g.backing = h.backing
<1> DEFINE c == CoreWith(h.cores[b], p, s)
           x == Put(h.cores, b, c)
           a == Emplace(h.alloc_to_core, p, b)
           u == Plus(h.used, s)
           k == WithCores(h, x)
           l == WithAllocToCore(k, a)
<1>1. h.cores[b] \in Cores /\ b \in Pointers
  BY CoreOf
<1>2. c \in Cores
  BY <1>1, CoreTakes
<1>3. x \in Maps(Pointers, Cores) /\ [h.cores EXCEPT ![b] = c] = x
  BY <1>1, <1>2, CorePut
<1>4. a \in Maps(Pointers, Pointers)
  BY <1>1, HeapFields, PutMap
<1>5. u \in Size
  BY HeapFields, ConstantsFit, CountersFit
<1>6. PlacedIn(h, b, p, s)
        = HeapUses([h EXCEPT !.cores = [h.cores EXCEPT ![b] = c], !.alloc_to_core = a], u)
  BY DEF PlacedIn
<1>7. PlacedIn(h, b, p, s) = HeapUses([h EXCEPT !.cores = x, !.alloc_to_core = a], u)
  BY <1>3, <1>6
<1> HIDE DEF x, a, u
<1>8. [h EXCEPT !.cores = x, !.alloc_to_core = a] = l
  BY DEF WithCores, WithAllocToCore, Heaps
<1>9. /\ k \in Heaps /\ k.cores = x /\ k.used = h.used /\ k.max_used = h.max_used
      /\ k.managed = h.managed /\ k.max_managed = h.max_managed
      /\ k.allocations = h.allocations /\ k.samples = h.samples /\ k.backing = h.backing
  BY <1>3, CoresWritten
<1> HIDE DEF k
<1>10. /\ l \in Heaps /\ l.cores = x /\ l.alloc_to_core = a
       /\ l.used = h.used /\ l.max_used = h.max_used
       /\ l.managed = h.managed /\ l.max_managed = h.max_managed
       /\ l.allocations = h.allocations /\ l.samples = h.samples /\ l.backing = h.backing
  BY <1>4, <1>9, AllocToCoreWritten
<1> HIDE DEF l
<1>11. /\ HeapUses(l, u) \in Heaps /\ HeapUses(l, u).cores = x
       /\ HeapUses(l, u).alloc_to_core = a
       /\ HeapUses(l, u).used = u /\ HeapUses(l, u).max_used = Larger(h.max_used, u)
       /\ HeapUses(l, u).managed = h.managed /\ HeapUses(l, u).max_managed = h.max_managed
       /\ HeapUses(l, u).allocations = h.allocations
       /\ HeapUses(l, u).samples = h.samples /\ HeapUses(l, u).backing = h.backing
  BY <1>5, <1>10, Uses
<1> QED
  BY <1>7, <1>8, <1>11 DEF x, a, u

LEMMA AllocationPlacedOutside ==
  ASSUME NEW h \in Heaps, NEW p \in Pointers, NEW s \in Sizes
  PROVE  LET g == PlacedOutside(h, p, s)
         IN  /\ g \in Heaps
             /\ g.allocations = Emplace(h.allocations, p, s)
             /\ g.used = Plus(h.used, s) /\ g.max_used = Larger(h.max_used, g.used)
             /\ g.managed = h.managed /\ g.max_managed = h.max_managed
             /\ g.cores = h.cores /\ g.alloc_to_core = h.alloc_to_core
             /\ g.samples = h.samples /\ g.backing = h.backing
<1> DEFINE a == Emplace(h.allocations, p, s)
           u == Plus(h.used, s)
           k == WithAllocations(h, a)
<1>1. a \in Maps(Pointers, Sizes)
  BY HeapFields, PutMap
<1>2. u \in Size
  BY HeapFields, ConstantsFit, CountersFit
<1>3. PlacedOutside(h, p, s) = HeapUses(k, u)
  BY DEF PlacedOutside, WithAllocations
<1> HIDE DEF a, u
<1>4. /\ k \in Heaps /\ k.allocations = a /\ k.used = h.used /\ k.max_used = h.max_used
      /\ k.managed = h.managed /\ k.max_managed = h.max_managed
      /\ k.cores = h.cores /\ k.alloc_to_core = h.alloc_to_core
      /\ k.samples = h.samples /\ k.backing = h.backing
  BY <1>1, AllocationsWritten
<1> HIDE DEF k
<1>5. /\ HeapUses(k, u) \in Heaps /\ HeapUses(k, u).allocations = a
      /\ HeapUses(k, u).used = u /\ HeapUses(k, u).max_used = Larger(h.max_used, u)
      /\ HeapUses(k, u).managed = h.managed /\ HeapUses(k, u).max_managed = h.max_managed
      /\ HeapUses(k, u).cores = h.cores /\ HeapUses(k, u).alloc_to_core = h.alloc_to_core
      /\ HeapUses(k, u).samples = h.samples /\ HeapUses(k, u).backing = h.backing
  BY <1>2, <1>4, Uses
<1> QED
  BY <1>3, <1>5 DEF a, u

LEMMA AllocationTaken ==
  ASSUME NEW h \in Heaps, NEW p, InMappedCore(h, p)
  PROVE  LET b == h.alloc_to_core[p]
             g == TakenFromCore(h, p)
         IN  /\ b \in DOMAIN h.cores /\ g \in Heaps
             /\ g.cores = Put(h.cores, b, CoreWithout(h.cores[b], p))
             /\ g.alloc_to_core = Erase(h.alloc_to_core, p)
             /\ g.used = Minus(h.used, RemovedBytes(h.cores[b], p))
             /\ g.max_used = h.max_used
             /\ g.managed = h.managed /\ g.max_managed = h.max_managed
             /\ g.allocations = h.allocations
             /\ g.samples = h.samples /\ g.backing = h.backing
<1> DEFINE b == h.alloc_to_core[p]
           c == CoreWithout(h.cores[b], p)
           x == Put(h.cores, b, c)
           a == Erase(h.alloc_to_core, p)
           u == Minus(h.used, RemovedBytes(h.cores[b], p))
           k == WithCores(h, x)
           l == WithAllocToCore(k, a)
<1>1. b \in DOMAIN h.cores
  BY DEF InMappedCore
<1>2. h.cores[b] \in Cores /\ b \in Pointers
  BY <1>1, CoreOf
<1>3. c \in Cores /\ RemovedBytes(h.cores[b], p) \in Size
  BY <1>2, CoreLoses
<1>4. x \in Maps(Pointers, Cores) /\ [h.cores EXCEPT ![b] = c] = x
  BY <1>1, <1>2, <1>3, CorePut
<1>5. a \in Maps(Pointers, Pointers)
  BY HeapFields, EraseMap
<1>6. u \in Size
  BY <1>3, HeapFields, CountersFit
<1>7. TakenFromCore(h, p)
        = [h EXCEPT !.cores = [h.cores EXCEPT ![b] = c], !.alloc_to_core = a, !.used = u]
  BY DEF TakenFromCore
<1>8. TakenFromCore(h, p) = [h EXCEPT !.cores = x, !.alloc_to_core = a, !.used = u]
  BY <1>4, <1>7
<1> HIDE DEF x, a, u
<1>9. [h EXCEPT !.cores = x, !.alloc_to_core = a, !.used = u] = WithUsed(l, u)
  BY DEF WithCores, WithAllocToCore, WithUsed, Heaps
<1>10. /\ k \in Heaps /\ k.cores = x /\ k.used = h.used /\ k.max_used = h.max_used
       /\ k.managed = h.managed /\ k.max_managed = h.max_managed
       /\ k.allocations = h.allocations /\ k.samples = h.samples /\ k.backing = h.backing
  BY <1>4, CoresWritten
<1> HIDE DEF k
<1>11. /\ l \in Heaps /\ l.cores = x /\ l.alloc_to_core = a
       /\ l.used = h.used /\ l.max_used = h.max_used
       /\ l.managed = h.managed /\ l.max_managed = h.max_managed
       /\ l.allocations = h.allocations /\ l.samples = h.samples /\ l.backing = h.backing
  BY <1>5, <1>10, AllocToCoreWritten
<1> HIDE DEF l
<1>12. /\ WithUsed(l, u) \in Heaps /\ WithUsed(l, u).cores = x
       /\ WithUsed(l, u).alloc_to_core = a /\ WithUsed(l, u).used = u
       /\ WithUsed(l, u).max_used = h.max_used
       /\ WithUsed(l, u).managed = h.managed /\ WithUsed(l, u).max_managed = h.max_managed
       /\ WithUsed(l, u).allocations = h.allocations
       /\ WithUsed(l, u).samples = h.samples /\ WithUsed(l, u).backing = h.backing
  BY <1>6, <1>11, UsedWritten
<1> QED
  BY <1>1, <1>8, <1>9, <1>12 DEF x, a, u

LEMMA AllocationTakenOutside ==
  ASSUME NEW h \in Heaps, NEW p \in DOMAIN h.allocations
  PROVE  LET g == TakenFromOutside(h, p)
         IN  /\ g \in Heaps
             /\ g.used = Minus(h.used, h.allocations[p]) /\ g.max_used = h.max_used
             /\ g.managed = h.managed /\ g.max_managed = h.max_managed
             /\ g.cores = h.cores /\ g.alloc_to_core = h.alloc_to_core
             /\ g.allocations = h.allocations
             /\ g.samples = h.samples /\ g.backing = h.backing
<1> DEFINE u == Minus(h.used, h.allocations[p])
<1>1. h.allocations[p] \in Sizes
  BY HeapFields, MapIs
<1>2. u \in Size
  BY <1>1, ConstantsFit, HeapFields, CountersFit
<1>3. TakenFromOutside(h, p) = WithUsed(h, u)
  BY DEF TakenFromOutside, WithUsed
<1> HIDE DEF u
<1> QED
  BY <1>2, <1>3, UsedWritten DEF u

\* The cores keep everything but their allocations.
LEMMA AllFreed ==
  ASSUME NEW h \in Heaps
  PROVE  LET g == HeapFreesAll(h)
         IN  /\ g \in Heaps
             /\ DOMAIN g.cores = DOMAIN h.cores
             /\ \A b \in DOMAIN h.cores : /\ g.cores[b].managed = h.cores[b].managed
                                          /\ g.cores[b].end = h.cores[b].end
             /\ g.used = h.used /\ g.max_used = h.max_used
             /\ g.managed = h.managed /\ g.max_managed = h.max_managed
             /\ g.alloc_to_core = h.alloc_to_core /\ g.allocations = h.allocations
             /\ g.samples = h.samples /\ g.backing = h.backing
<1> DEFINE Cleared(c) == [c EXCEPT !.allocations = Empty]
           x == [b \in DOMAIN h.cores |-> Cleared(h.cores[b])]
<1>1. Empty \in Maps(Pointers, Sizes)
  BY EmptyIs
<1>2. ASSUME NEW c \in Cores
      PROVE  Cleared(c) \in Cores /\ Cleared(c).managed = c.managed /\ Cleared(c).end = c.end
  BY <1>1 DEF Cores
<1>3. HeapFreesAll(h) = WithCores(h, x)
  BY DEF HeapFreesAll, WithCores
<1> HIDE DEF Cleared
<1>4. DOMAIN x = DOMAIN h.cores /\ \A b \in DOMAIN x : x[b] = Cleared(h.cores[b])
  OBVIOUS
<1>5. \A b \in DOMAIN h.cores : h.cores[b] \in Cores /\ b \in Pointers
  BY CoreOf
<1>6. \A b \in DOMAIN x : /\ x[b] \in Cores /\ x[b].managed = h.cores[b].managed
                          /\ x[b].end = h.cores[b].end
  BY <1>2, <1>4, <1>5
<1>7. x = [b \in DOMAIN x |-> x[b]]
  OBVIOUS
<1> HIDE DEF x
<1>8. x \in Maps(Pointers, Cores)
  BY <1>4, <1>5, <1>6, <1>7, MapIs
<1>9. /\ WithCores(h, x) \in Heaps /\ WithCores(h, x).cores = x
      /\ WithCores(h, x).used = h.used /\ WithCores(h, x).max_used = h.max_used
      /\ WithCores(h, x).managed = h.managed /\ WithCores(h, x).max_managed = h.max_managed
      /\ WithCores(h, x).alloc_to_core = h.alloc_to_core
      /\ WithCores(h, x).allocations = h.allocations
      /\ WithCores(h, x).samples = h.samples /\ WithCores(h, x).backing = h.backing
  BY <1>8, CoresWritten
<1> QED
  BY <1>3, <1>4, <1>6, <1>9

-----------------------------------------------------------------------------
(***************************************************************************)
(* The steps of the memory state.                                          *)
(***************************************************************************)
\* What an event of time t can make of a heap h that is known.
Becoming(h, t, g) ==
  \/ g = WithDeath(h, t)
  \/ \E p \in Pointers, s \in Sizes : g = HeapAddCore(h, p, s)
  \/ \E p \in Pointers, s \in Sizes : g = HeapGrowCore(h, p, s)
  \/ \E p \in Pointers : g = HeapRemoveCore(h, p)
  \/ \E b \in DOMAIN h.cores, p \in Pointers, s \in Sizes : g = Sample(PlacedIn(h, b, p, s), t)
  \/ \E p \in Pointers, s \in Sizes : g = Sample(PlacedOutside(h, p, s), t)
  \/ \E p \in Pointers : InMappedCore(h, p) /\ g = Sample(TakenFromCore(h, p), t)
  \/ \E p \in DOMAIN h.allocations : g = Sample(TakenFromOutside(h, p), t)
  \/ g = HeapFreesAll(h)
  \/ \E other \in HeapIds : g = WithBacking(h, Append(h.backing, other))

\* A step that changes the heaps makes one or changes one.
Makes == \E t \in Times, id \in HeapIds \ DOMAIN heaps, m \in Garbage, u \in Garbage :
           heaps' = Put(heaps, id, NewHeap(t, m, u))

Changes == \E id \in DOMAIN heaps : \E g : /\ Becoming(heaps[id], last_update', g)
                                           /\ heaps' = Put(heaps, id, g)

HeapsMapped == heaps \in Maps(HeapIds, Heaps)

TimeTyped == last_update \in Times \cup {0}

LEMMA KnownHeap ==
  ASSUME HeapsMapped
  PROVE  \A id \in DOMAIN heaps : heaps[id] \in Heaps /\ id \in HeapIds
BY MapIs DEF HeapsMapped

LEMMA BecomesPut ==
  ASSUME HeapsMapped, NEW id, Known(id), NEW g, Becomes(id, g)
  PROVE  id \in DOMAIN heaps /\ heaps' = Put(heaps, id, g)
BY UpdateIsPut DEF HeapsMapped, Known, Becomes

LEMMA StepCases ==
  ASSUME HeapsMapped, TimeTyped, [Next]_vars
  PROVE  /\ last_update' = last_update \/ (last_update' \in Times /\ last_update' >= last_update)
         /\ \/ heaps' = heaps
            \/ Makes
            \/ Changes /\ last_update' \in Times
<1> DEFINE HeapEvent(t, id) ==
             \/ HeapCreate(t, id)
             \/ HeapDestroy(t, id)
             \/ FreeAll(t, id)
             \/ \E other \in HeapIds : SetBackingAllocator(t, id, other)
             \/ \E p \in Pointers :
                  \/ RemoveCore(t, id, p)
                  \/ \E owned \in BOOLEAN : Free(t, id, p, owned)
                  \/ \E size \in Sizes :
                       \/ AddCore(t, id, p, size)
                       \/ GrowCore(t, id, p, size)
                       \/ \E owned \in BOOLEAN : Allocate(t, id, p, size, owned)
<1>a. Next => \/ \E id \in HeapIds : GetHeapInformation(id)
              \/ \E t \in {s \in Times : s >= last_update} :
                   OtherEvent(t) \/ \E id \in HeapIds : HeapEvent(t, id)
  BY DEF Next
<1>b. \A id \in HeapIds : GetHeapInformation(id) => UNCHANGED <<heaps, last_update>>
  BY DEF GetHeapInformation
<1>c. ASSUME NEW t \in Times, NEW id \in HeapIds, HeapEvent(t, id)
      PROVE  AddEvent(t)
  <2>1. CASE \/ HeapCreate(t, id)
             \/ HeapDestroy(t, id)
             \/ FreeAll(t, id)
             \/ \E other \in HeapIds : SetBackingAllocator(t, id, other)
    BY <2>1 DEF HeapCreate, HeapDestroy, FreeAll, SetBackingAllocator
  <2>2. ASSUME NEW p \in Pointers,
               RemoveCore(t, id, p) \/ \E owned \in BOOLEAN : Free(t, id, p, owned)
        PROVE  AddEvent(t)
    BY <2>2 DEF RemoveCore, Free
  <2>3. ASSUME NEW p \in Pointers, NEW size \in Sizes,
               \/ AddCore(t, id, p, size)
               \/ GrowCore(t, id, p, size)
               \/ \E owned \in BOOLEAN : Allocate(t, id, p, size, owned)
        PROVE  AddEvent(t)
    BY <2>3 DEF AddCore, GrowCore, Allocate
  <2> QED
    BY <1>c, <2>1, <2>2, <2>3
<1> SUFFICES ASSUME NEW t \in Times, t >= last_update,
                    OtherEvent(t) \/ \E id \in HeapIds : HeapEvent(t, id),
                    last_update' = t, heaps' # heaps
             PROVE  Makes \/ Changes
  <2>1. \A t \in Times : AddEvent(t) => last_update' = t
    BY DEF AddEvent
  <2>2. \A t \in Times : OtherEvent(t) => AddEvent(t)
    BY DEF OtherEvent
  <2>3. UNCHANGED vars => UNCHANGED <<heaps, last_update>>
    BY DEF vars
  <2> HIDE DEF HeapEvent
  <2> QED
    BY <1>a, <1>b, <1>c, <2>1, <2>2, <2>3
<1> DEFINE Made(id, g) == Known(id) /\ Becomes(id, g) /\ Becoming(heaps[id], t, g)
<1>1. ASSUME NEW id, NEW g, Made(id, g)
      PROVE  Changes
  <2>1. id \in DOMAIN heaps /\ heaps' = Put(heaps, id, g)
    BY <1>1, BecomesPut
  <2> QED
    BY <1>1, <2>1 DEF Changes
<1>2. ASSUME NEW id, Known(id)
      PROVE  heaps[id] \in Heaps
  BY <1>2, KnownHeap DEF Known
<1>3. ~OtherEvent(t)
  BY DEF OtherEvent, Ignored
<1>4. ASSUME NEW id \in HeapIds, HeapCreate(t, id)
      PROVE  Makes
  BY <1>4 DEF HeapCreate, Emplace, Makes
<1>5. ASSUME NEW id \in HeapIds, HeapDestroy(t, id)
      PROVE  Changes
  <2>1. Known(AsInt(id)) /\ Becomes(AsInt(id), WithDeath(heaps[AsInt(id)], t))
    BY <1>5 DEF HeapDestroy, Ignored, WithDeath
  <2> QED
    BY <1>1, <2>1 DEF Becoming
<1>6. ASSUME NEW id \in HeapIds, FreeAll(t, id)
      PROVE  Changes
  <2>1. Known(id) /\ Becomes(id, HeapFreesAll(heaps[id]))
    BY <1>6 DEF FreeAll, Ignored
  <2> QED
    BY <1>1, <2>1 DEF Becoming
<1>7. ASSUME NEW id \in HeapIds, NEW other \in HeapIds, SetBackingAllocator(t, id, other)
      PROVE  Changes
  <2>1. /\ Known(id)
        /\ Becomes(id, WithBacking(heaps[id], Append(heaps[id].backing, other)))
    BY <1>7 DEF SetBackingAllocator, WithBacking
  <2> QED
    BY <1>1, <2>1 DEF Becoming
<1>8. ASSUME NEW id \in HeapIds, NEW p \in Pointers, RemoveCore(t, id, p)
      PROVE  Changes
  <2>1. Known(id) /\ Becomes(id, HeapRemoveCore(heaps[id], p))
    BY <1>8 DEF RemoveCore, Ignored
  <2> QED
    BY <1>1, <2>1 DEF Becoming
<1>9. ASSUME NEW id \in HeapIds, NEW p \in Pointers, NEW owned \in BOOLEAN, Free(t, id, p, owned)
      PROVE  Changes
  <2>1. Known(id) /\ Recorded(heaps[id], p, owned)
    BY <1>9 DEF Free, Ignored
  <2>2. CASE owned
    <3>1. InMappedCore(heaps[id], p) /\ Becomes(id, Sample(TakenFromCore(heaps[id], p), t))
      BY <1>9, <2>1, <2>2 DEF Free, Recorded
    <3> QED
      BY <1>1, <2>1, <3>1 DEF Becoming
  <2>3. CASE ~owned
    <3>1. /\ p \in DOMAIN heaps[id].allocations
          /\ Becomes(id, Sample(TakenFromOutside(heaps[id], p), t))
      BY <1>9, <2>1, <2>3 DEF Free, Recorded
    <3> QED
      BY <1>1, <2>1, <3>1 DEF Becoming
  <2> QED
    BY <2>2, <2>3
<1>10. ASSUME NEW id \in HeapIds, NEW p \in Pointers, NEW s \in Sizes, AddCore(t, id, p, s)
       PROVE  Changes
  <2>1. Known(id) /\ Becomes(id, HeapAddCore(heaps[id], p, s))
    BY <1>10 DEF AddCore, Ignored
  <2> QED
    BY <1>1, <2>1 DEF Becoming
<1>11. ASSUME NEW id \in HeapIds, NEW p \in Pointers, NEW s \in Sizes, GrowCore(t, id, p, s)
       PROVE  Changes
  <2>1. Known(id) /\ Becomes(id, HeapGrowCore(heaps[id], p, s))
    BY <1>11 DEF GrowCore, Ignored
  <2> QED
    BY <1>1, <2>1 DEF Becoming
<1>12. ASSUME NEW id \in HeapIds, NEW p \in Pointers, NEW s \in Sizes, NEW owned \in BOOLEAN,
              Allocate(t, id, p, s, owned)
       PROVE  Changes
  <2>2. CASE Known(id) /\ owned
    <3>1. PICK b \in Candidates(heaps[id], p, s) :
            Becomes(id, Sample(PlacedIn(heaps[id], b, p, s), t))
      BY <1>12, <2>2 DEF Allocate, Ignored
    <3>2. b \in DOMAIN heaps[id].cores
      BY <3>1 DEF Candidates, Fitting, Spanning
    <3> QED
      BY <1>1, <2>2, <3>1, <3>2 DEF Becoming
  <2>3. CASE Known(id) /\ ~owned
    <3>1. Becomes(id, Sample(PlacedOutside(heaps[id], p, s), t))
      BY <1>12, <2>3 DEF Allocate, Ignored
    <3> QED
      BY <1>1, <2>3, <3>1 DEF Becoming
  <2>4. CASE ~Known(id)
    BY <1>12, <2>4 DEF Allocate, Ignored
  <2> QED
    BY <2>2, <2>3, <2>4
<1> QED
  BY <1>3, <1>4, <1>5, <1>6, <1>7, <1>8, <1>9, <1>10, <1>11, <1>12

LEMMA BecomingKept ==
  ASSUME NEW h \in Heaps, NEW t \in Times, NEW g, Becoming(h, t, g)
  PROVE  g \in Heaps
<1>1. WithDeath(h, t) \in Heaps
  BY DeathWritten
<1>2. ASSUME NEW p \in Pointers, NEW s \in Sizes
      PROVE  HeapAddCore(h, p, s) \in Heaps /\ HeapGrowCore(h, p, s) \in Heaps
  BY CoreAdded, CoreGrown
<1>3. ASSUME NEW p \in Pointers
      PROVE  HeapRemoveCore(h, p) \in Heaps
  BY CoreRemoved
<1>4. ASSUME NEW b \in DOMAIN h.cores, NEW p \in Pointers, NEW s \in Sizes
      PROVE  Sample(PlacedIn(h, b, p, s), t) \in Heaps
  BY AllocationPlacedIn, Sampled
<1>5. ASSUME NEW p \in Pointers, NEW s \in Sizes
      PROVE  Sample(PlacedOutside(h, p, s), t) \in Heaps
  BY AllocationPlacedOutside, Sampled
<1>6. ASSUME NEW p \in Pointers, InMappedCore(h, p)
      PROVE  Sample(TakenFromCore(h, p), t) \in Heaps
  BY <1>6, AllocationTaken, Sampled
<1>7. ASSUME NEW p \in DOMAIN h.allocations
      PROVE  Sample(TakenFromOutside(h, p), t) \in Heaps
  BY AllocationTakenOutside, Sampled
<1>8. HeapFreesAll(h) \in Heaps
  BY AllFreed
<1>9. ASSUME NEW id \in HeapIds
      PROVE  WithBacking(h, Append(h.backing, id)) \in Heaps
  <2>1. h.backing \in Seq(HeapIds)
    BY HeapFields
  <2>2. Append(h.backing, id) \in Seq(HeapIds)
    BY <2>1
  <2> QED
    BY <2>2, BackingWritten
<1> QED
  BY <1>1, <1>2, <1>3, <1>4, <1>5, <1>6, <1>7, <1>8, <1>9 DEF Becoming

-----------------------------------------------------------------------------
(***************************************************************************)
(* Managed memory.                                                         *)
(***************************************************************************)
ManagedOf(cores) == [b \in DOMAIN cores |-> cores[b].managed]

Parts(h) == ManagedOf(h.cores)

LEMMA MapsAreFinite ==
  ASSUME NEW Value, NEW f \in Maps(Pointers, Value)
  PROVE  IsFiniteSet(DOMAIN f) /\ DOMAIN f \subseteq Pointers
<1>1. DOMAIN f \subseteq Pointers
  BY MapIs
<1>2. DOMAIN f \subseteq 0 .. (Word - 1)
  BY <1>1
<1>3. IsFiniteSet(0 .. (Word - 1))
  BY FS_Interval
<1> QED
  BY <1>1, <1>2, <1>3, FS_Subset

LEMMA PartsAre ==
  ASSUME NEW h \in Heaps
  PROVE  /\ Naturals(Parts(h)) /\ DOMAIN Parts(h) = DOMAIN h.cores
         /\ \A b \in DOMAIN h.cores : Parts(h)[b] = h.cores[b].managed
<1>1. IsFiniteSet(DOMAIN h.cores)
  BY HeapFields, MapsAreFinite
<1>2. \A b \in DOMAIN h.cores : h.cores[b].managed \in Nat
  BY CoreOf, CoreFields DEF Size
<1>3. DOMAIN Parts(h) = DOMAIN h.cores /\ \A b \in DOMAIN h.cores : Parts(h)[b] = h.cores[b].managed
  BY DEF Parts, ManagedOf
<1> QED
  BY <1>1, <1>2, <1>3 DEF Naturals

LEMMA PartsFollow ==
  ASSUME NEW f
  PROVE  /\ \A b, c : ManagedOf(Put(f, b, c)) = Put(ManagedOf(f), b, c.managed)
         /\ \A b : ManagedOf(Erase(f, b)) = Erase(ManagedOf(f), b)
         /\ \A g : (/\ DOMAIN g = DOMAIN f
                    /\ \A b \in DOMAIN f : g[b].managed = f[b].managed)
                   => ManagedOf(g) = ManagedOf(f)
<1>1. ASSUME NEW b, NEW c
      PROVE  ManagedOf(Put(f, b, c)) = Put(ManagedOf(f), b, c.managed)
  BY DEF ManagedOf, Put
<1>2. ASSUME NEW b
      PROVE  ManagedOf(Erase(f, b)) = Erase(ManagedOf(f), b)
  BY DEF ManagedOf, Erase, Restrict
<1>3. ASSUME NEW g, DOMAIN g = DOMAIN f, \A b \in DOMAIN f : g[b].managed = f[b].managed
      PROVE  ManagedOf(g) = ManagedOf(f)
  BY <1>3 DEF ManagedOf
<1> QED
  BY <1>1, <1>2, <1>3

HeapIsSum(h) == h.managed = Total(Parts(h)) % Word

\* A change that touches neither the managed memory nor that of a core.
LEMMA SumStays ==
  ASSUME NEW h, NEW g, HeapIsSum(h), g.managed = h.managed, DOMAIN g.cores = DOMAIN h.cores,
         \A b \in DOMAIN h.cores : g.cores[b].managed = h.cores[b].managed
  PROVE  HeapIsSum(g)
<1>1. Parts(g) = Parts(h)
  BY PartsFollow DEF Parts
<1> QED
  BY <1>1 DEF HeapIsSum

\* One core is replaced by one that manages as much.
LEMMA SumStaysInCore ==
  ASSUME NEW h, NEW g, HeapIsSum(h), g.managed = h.managed,
         NEW b \in DOMAIN h.cores, NEW c, c.managed = h.cores[b].managed,
         g.cores = Put(h.cores, b, c)
  PROVE  HeapIsSum(g)
<1> DEFINE f == h.cores
<1>1. DOMAIN Put(f, b, c) = DOMAIN f /\ Put(f, b, c)[b] = c
      /\ \A x \in DOMAIN f \ {b} : Put(f, b, c)[x] = f[x]
  BY DEF Put
<1> QED
  BY <1>1, SumStays

LEMMA SumFollows ==
  ASSUME NEW h \in Heaps, NEW t \in Times, NEW g, Becoming(h, t, g), HeapIsSum(h)
  PROVE  HeapIsSum(g)
<1> DEFINE T == Total(Parts(h))
<1>1. /\ Naturals(Parts(h)) /\ DOMAIN Parts(h) = DOMAIN h.cores
      /\ \A b \in DOMAIN h.cores : Parts(h)[b] = h.cores[b].managed
  BY PartsAre
<1>2. T \in Nat /\ h.managed = T % Word /\ Word \in Nat \ {0}
  BY <1>1, TotalNatural DEF HeapIsSum
<1> HIDE DEF T
<1>3. \A s \in Sizes : s \in Nat /\ s \in Size
  BY ConstantsFit DEF Size
<1>4. ASSUME g = WithDeath(h, t)
      PROVE  HeapIsSum(g)
  BY <1>4, DeathWritten, SumStays
<1>5. ASSUME NEW p \in Pointers, NEW s \in Sizes, g = HeapAddCore(h, p, s)
      PROVE  HeapIsSum(g)
  <2>1. CASE p \in DOMAIN h.cores
    BY <1>5, <2>1, CoreAdded
  <2>2. CASE p \notin DOMAIN h.cores
    <3>1. g.cores = Put(h.cores, p, NewCore(p, s)) /\ g.managed = Plus(h.managed, s)
      BY <1>5, <2>2, CoreAdded
    <3>2. Parts(g) = Put(Parts(h), p, s)
      <4>1. NewCore(p, s).managed = s
        BY CoreMade
      <4>2. ManagedOf(g.cores) = Put(ManagedOf(h.cores), p, NewCore(p, s).managed)
        BY <3>1, PartsFollow
      <4> QED
        BY <4>1, <4>2 DEF Parts
    <3>3. Total(Parts(g)) = T + s
      BY <1>1, <1>3, <2>2, <3>2, TotalPut DEF T
    <3>4. T \in Int /\ s \in Int
      BY <1>2, <1>3
    <3>5. Plus(T % Word, s) = (T + s) % Word
      BY <3>4, CountersWrap
    <3> QED
      BY <1>2, <3>1, <3>3, <3>5 DEF HeapIsSum
  <2> QED
    BY <2>1, <2>2
<1>6. ASSUME NEW p \in Pointers, NEW s \in Sizes, g = HeapGrowCore(h, p, s)
      PROVE  HeapIsSum(g)
  <2>1. CASE p \notin DOMAIN h.cores
    BY <1>6, <2>1, CoreGrown
  <2>2. CASE p \in DOMAIN h.cores
    <3> DEFINE m == h.cores[p].managed
               v == Plus(m, s)
               U == Total(Parts(g))
    <3>1. g.cores = Put(h.cores, p, Grow(h.cores[p], s)) /\ g.managed = Plus(h.managed, s)
      BY <1>6, <2>2, CoreGrown
    <3>2. h.cores[p] \in Cores /\ m \in Size
      BY <2>2, CoreOf, CoreFields
    <3>3. Parts(g) = Put(Parts(h), p, v) /\ v \in Size
      BY <1>3, <3>1, <3>2, PartsFollow, CoreGrows, CountersFit DEF Parts
    <3>4. v \in Nat /\ m \in Nat
      BY <3>2, <3>3 DEF Size
    <3>5. U + m = T + v
      <4>1. p \in DOMAIN Parts(h) /\ Parts(h)[p] = m
        BY <1>1, <2>2
      <4> HIDE DEF m, v
      <4> QED
        BY <1>1, <3>3, <3>4, <4>1, TotalPut DEF T
    <3>6. U \in Nat
      <4> HIDE DEF v
      <4> QED
        BY <1>1, <3>3, <3>4, TotalPut, TotalNatural
    <3>7. v = (m + s) % Word
      BY DEF Plus
    <3> HIDE DEF m, v, U
    <3>8. m + s \in Int /\ T - m \in Int /\ U = (T - m) + v /\ (T - m) + (m + s) = T + s
      BY <1>2, <1>3, <3>4, <3>5, <3>6
    <3>9. ((T - m) + ((m + s) % Word)) % Word = ((T - m) + (m + s)) % Word
      <4> DEFINE x == m + s
                 y == T - m
      <4>1. x \in Int /\ y \in Int
        BY <3>8
      <4> HIDE DEF x, y
      <4>2. (y + (x % Word)) % Word = (y + x) % Word
        BY <1>2, <4>1, RemainderFirst
      <4> QED
        BY <4>2 DEF x, y
    <3>10. U % Word = (T + s) % Word
      BY <3>7, <3>8, <3>9
    <3>11. T \in Int /\ s \in Int
      BY <1>2, <1>3
    <3>12. Plus(T % Word, s) = (T + s) % Word
      BY <3>11, CountersWrap
    <3> QED
      BY <1>2, <3>1, <3>10, <3>12 DEF HeapIsSum, U
  <2> QED
    BY <2>1, <2>2
<1>7. ASSUME NEW p \in Pointers, g = HeapRemoveCore(h, p)
      PROVE  HeapIsSum(g)
  <2>1. CASE p \notin DOMAIN h.cores
    BY <1>7, <2>1, CoreRemoved
  <2>2. CASE p \in DOMAIN h.cores
    <3> DEFINE m == h.cores[p].managed
               U == Total(Parts(g))
    <3>1. g.cores = Erase(h.cores, p) /\ g.managed = Minus(h.managed, m)
      BY <1>7, <2>2, CoreRemoved
    <3>2. Parts(g) = Erase(Parts(h), p)
      BY <3>1, PartsFollow DEF Parts
    <3>3. m \in Nat /\ T = m + U /\ Naturals(Parts(g))
      BY <1>1, <2>2, <3>2, TotalErase DEF T
    <3>4. U \in Nat
      BY <3>3, TotalNatural
    <3> HIDE DEF m, U
    <3>5. T \in Int /\ m \in Int /\ T - m = U
      BY <1>2, <3>3, <3>4
    <3>6. Minus(T % Word, m) = (T - m) % Word
      BY <3>5, CountersWrap
    <3> QED
      BY <1>2, <3>1, <3>5, <3>6 DEF HeapIsSum, U
  <2> QED
    BY <2>1, <2>2
<1>8. ASSUME NEW b \in DOMAIN h.cores, NEW p \in Pointers, NEW s \in Sizes,
             g = Sample(PlacedIn(h, b, p, s), t)
      PROVE  HeapIsSum(g)
  <2> DEFINE k == PlacedIn(h, b, p, s)
             c == CoreWith(h.cores[b], p, s)
  <2>1. k \in Heaps /\ k.cores = Put(h.cores, b, c) /\ k.managed = h.managed
    BY AllocationPlacedIn
  <2>2. c.managed = h.cores[b].managed
    BY CoreOf, CoreTakes
  <2>3. g.cores = k.cores /\ g.managed = k.managed
    BY <1>8, <2>1, Sampled
  <2> HIDE DEF c, k
  <2> QED
    BY <2>1, <2>2, <2>3, SumStaysInCore
<1>9. ASSUME NEW p \in Pointers, NEW s \in Sizes, g = Sample(PlacedOutside(h, p, s), t)
      PROVE  HeapIsSum(g)
  <2> DEFINE k == PlacedOutside(h, p, s)
  <2>1. k \in Heaps /\ k.cores = h.cores /\ k.managed = h.managed
    BY AllocationPlacedOutside
  <2>2. g.cores = k.cores /\ g.managed = k.managed
    BY <1>9, <2>1, Sampled
  <2> HIDE DEF k
  <2> QED
    BY <2>1, <2>2, SumStays
<1>10. ASSUME NEW p \in Pointers, InMappedCore(h, p), g = Sample(TakenFromCore(h, p), t)
       PROVE  HeapIsSum(g)
  <2> DEFINE k == TakenFromCore(h, p)
             b == h.alloc_to_core[p]
             c == CoreWithout(h.cores[b], p)
  <2>1. /\ b \in DOMAIN h.cores
        /\ k \in Heaps /\ k.cores = Put(h.cores, b, c) /\ k.managed = h.managed
    BY <1>10, AllocationTaken
  <2>2. c.managed = h.cores[b].managed
    BY <2>1, CoreOf, CoreLoses
  <2>3. g.cores = k.cores /\ g.managed = k.managed
    BY <1>10, <2>1, Sampled
  <2> HIDE DEF c, k, b
  <2> QED
    BY <2>1, <2>2, <2>3, SumStaysInCore
<1>11. ASSUME NEW p \in DOMAIN h.allocations, g = Sample(TakenFromOutside(h, p), t)
       PROVE  HeapIsSum(g)
  <2> DEFINE k == TakenFromOutside(h, p)
  <2>1. k \in Heaps /\ k.cores = h.cores /\ k.managed = h.managed
    BY AllocationTakenOutside
  <2>2. g.cores = k.cores /\ g.managed = k.managed
    BY <1>11, <2>1, Sampled
  <2> HIDE DEF k
  <2> QED
    BY <2>1, <2>2, SumStays
<1>12. ASSUME g = HeapFreesAll(h)
       PROVE  HeapIsSum(g)
  BY <1>12, AllFreed, SumStays
<1>13. ASSUME NEW id \in HeapIds, g = WithBacking(h, Append(h.backing, id))
       PROVE  HeapIsSum(g)
  <2>1. Append(h.backing, id) \in Seq(HeapIds)
    BY HeapFields
  <2>2. g.cores = h.cores /\ g.managed = h.managed
    BY <1>13, <2>1, BackingWritten
  <2> QED
    BY <2>2, SumStays
<1> QED
  BY <1>4, <1>5, <1>6, <1>7, <1>8, <1>9, <1>10, <1>11, <1>12, <1>13 DEF Becoming

-----------------------------------------------------------------------------
(***************************************************************************)
(* The curve: no sample is of a later time than the last event, and the    *)
(* newest is of the used memory.                                           *)
(***************************************************************************)
HeapIsCurrent(h, now) ==
  /\ \A s \in DOMAIN h.samples : s <= now
  /\ DOMAIN h.samples = {} => h.used = 0
  /\ DOMAIN h.samples # {} => \E newest \in DOMAIN h.samples :
       h.samples[newest].used = h.used /\ \A s \in DOMAIN h.samples : s <= newest

LEMMA CurrentStays ==
  ASSUME NEW h \in Heaps, NEW g, NEW now \in Nat, NEW t \in Nat, now <= t,
         HeapIsCurrent(h, now), g.samples = h.samples, g.used = h.used
  PROVE  HeapIsCurrent(g, t)
<1>1. \A s \in DOMAIN h.samples : s \in Nat
  BY HeapFields, MapIs
<1>2. \A s \in DOMAIN h.samples : s <= t
  BY <1>1 DEF HeapIsCurrent
<1> QED
  BY <1>2 DEF HeapIsCurrent

LEMMA CurrentSampled ==
  ASSUME NEW k \in Heaps, NEW t \in Times, \A s \in DOMAIN k.samples : s <= t
  PROVE  HeapIsCurrent(Sample(k, t), t)
<1> DEFINE g == Sample(k, t)
<1>1. g.samples = Put(k.samples, t, Usage(k)) /\ g.used = k.used
  BY Sampled
<1> HIDE DEF g
<1>2. DOMAIN g.samples = DOMAIN k.samples \cup {t} /\ g.samples[t] = Usage(k)
  BY <1>1 DEF Put
<1>3. Usage(k).used = k.used /\ t \in Nat
  BY DEF Usage
<1>4. \A s \in DOMAIN g.samples : s <= t
  BY <1>2, <1>3
<1> QED
  BY <1>1, <1>2, <1>3, <1>4 DEF HeapIsCurrent, g

LEMMA CurrentFollows ==
  ASSUME NEW h \in Heaps, NEW now \in Nat, NEW t \in Times, now <= t,
         NEW g, Becoming(h, t, g), HeapIsCurrent(h, now)
  PROVE  HeapIsCurrent(g, t)
<1>1. \A s \in DOMAIN h.samples : s <= t
  <2>1. \A s \in DOMAIN h.samples : s \in Nat
    BY HeapFields, MapIs
  <2>2. \A s \in DOMAIN h.samples : s <= now
    BY DEF HeapIsCurrent
  <2>3. t \in Nat
    OBVIOUS
  <2> QED
    BY <2>1, <2>2, <2>3
<1>2. ASSUME NEW k \in Heaps, k.samples = h.samples, g = Sample(k, t)
      PROVE  HeapIsCurrent(g, t)
  BY <1>1, <1>2, CurrentSampled
<1>3. ASSUME g.samples = h.samples, g.used = h.used
      PROVE  HeapIsCurrent(g, t)
  BY <1>3, CurrentStays
<1>4. g = WithDeath(h, t) => HeapIsCurrent(g, t)
  BY <1>3, DeathWritten
<1>5. ASSUME NEW p \in Pointers, NEW s \in Sizes, g = HeapAddCore(h, p, s) \/ g = HeapGrowCore(h, p, s)
      PROVE  HeapIsCurrent(g, t)
  BY <1>3, <1>5, CoreAdded, CoreGrown
<1>6. ASSUME NEW p \in Pointers, g = HeapRemoveCore(h, p)
      PROVE  HeapIsCurrent(g, t)
  BY <1>3, <1>6, CoreRemoved
<1>7. ASSUME NEW b \in DOMAIN h.cores, NEW p \in Pointers, NEW s \in Sizes,
             g = Sample(PlacedIn(h, b, p, s), t)
      PROVE  HeapIsCurrent(g, t)
  BY <1>2, <1>7, AllocationPlacedIn
<1>8. ASSUME NEW p \in Pointers, NEW s \in Sizes, g = Sample(PlacedOutside(h, p, s), t)
      PROVE  HeapIsCurrent(g, t)
  BY <1>2, <1>8, AllocationPlacedOutside
<1>9. ASSUME NEW p \in Pointers, InMappedCore(h, p), g = Sample(TakenFromCore(h, p), t)
      PROVE  HeapIsCurrent(g, t)
  BY <1>2, <1>9, AllocationTaken
<1>10. ASSUME NEW p \in DOMAIN h.allocations, g = Sample(TakenFromOutside(h, p), t)
       PROVE  HeapIsCurrent(g, t)
  BY <1>2, <1>10, AllocationTakenOutside
<1>11. g = HeapFreesAll(h) => HeapIsCurrent(g, t)
  BY <1>3, AllFreed
<1>12. ASSUME NEW id \in HeapIds, g = WithBacking(h, Append(h.backing, id))
       PROVE  HeapIsCurrent(g, t)
  <2>1. Append(h.backing, id) \in Seq(HeapIds)
    BY HeapFields
  <2> QED
    BY <1>3, <1>12, <2>1, BackingWritten
<1> QED
  BY <1>4, <1>5, <1>6, <1>7, <1>8, <1>9, <1>10, <1>11, <1>12 DEF Becoming

\* The sample the chart draws last is the one of the used memory.
LEMMA CurveOfHeap ==
  ASSUME NEW h \in Heaps, NEW now, HeapIsCurrent(h, now)
  PROVE  LET newest == CHOOSE t \in DOMAIN h.samples : \A s \in DOMAIN h.samples : s <= t
         IN  h.used = IF h.samples = Empty THEN 0 ELSE h.samples[newest].used
<1> DEFINE Newest(t) == t \in DOMAIN h.samples /\ \A s \in DOMAIN h.samples : s <= t
           newest == CHOOSE t \in DOMAIN h.samples : \A s \in DOMAIN h.samples : s <= t
<1>1. \A s \in DOMAIN h.samples : s \in Nat
  BY HeapFields, MapIs
<1>2. h.samples = Empty <=> DOMAIN h.samples = {}
  <2>1. h.samples = [x \in DOMAIN h.samples |-> h.samples[x]]
    BY HeapFields, MapIs
  <2>2. DOMAIN Empty = {} /\ Empty = [x \in {} |-> x]
    BY EmptyIs DEF Empty
  <2> QED
    BY <2>1, <2>2
<1>3. CASE DOMAIN h.samples = {}
  BY <1>2, <1>3 DEF HeapIsCurrent
<1>4. CASE DOMAIN h.samples # {}
  <2>1. PICK t : Newest(t) /\ h.samples[t].used = h.used
    BY <1>4 DEF HeapIsCurrent
  <2>2. Newest(newest)
    BY <2>1
  <2>3. newest = t
    BY <1>1, <2>1, <2>2
  <2> HIDE DEF newest
  <2> QED
    BY <1>2, <1>4, <2>1, <2>3 DEF newest
<1> QED
  BY <1>3, <1>4

-----------------------------------------------------------------------------
(***************************************************************************)
(* What every order of events, with any arguments, leaves true.            *)
(***************************************************************************)
HeapsInvariant ==
  /\ HeapsMapped /\ TimeTyped /\ crashed \in BOOLEAN
  /\ \A id \in DOMAIN heaps : HeapIsSum(heaps[id]) /\ HeapIsCurrent(heaps[id], last_update)

LEMMA EmptyTotal == Naturals(Empty) /\ Total(Empty) = 0
<1>1. DOMAIN Empty = {}
  BY EmptyIs
<1>2. Naturals(Empty)
  BY <1>1, FS_EmptySet DEF Naturals
<1> QED
  BY <1>1, <1>2, TotalNatural

LEMMA HeapStartsRight ==
  ASSUME NEW t \in Times, NEW m \in Garbage, NEW u \in Garbage, NEW now
  PROVE  HeapIsSum(NewHeap(t, m, u)) /\ HeapIsCurrent(NewHeap(t, m, u), now)
<1> DEFINE g == NewHeap(t, m, u)
<1>1. g.used = 0 /\ g.managed = 0 /\ g.cores = Empty /\ g.samples = Empty
  BY HeapMade
<1> HIDE DEF g
<1>2. DOMAIN Empty = {}
  BY EmptyIs
<1>3. Parts(g) = Empty
  BY <1>1, <1>2 DEF Parts, ManagedOf, Empty
<1>4. Total(Parts(g)) = 0 /\ 0 % Word = 0
  BY <1>3, EmptyTotal
<1>5. HeapIsSum(g)
  BY <1>1, <1>4 DEF HeapIsSum
<1>6. HeapIsCurrent(g, now)
  BY <1>1, <1>2 DEF HeapIsCurrent
<1> QED
  BY <1>5, <1>6 DEF g

LEMMA CrashTyped ==
  ASSUME crashed \in BOOLEAN, [Next]_vars
  PROVE  crashed' \in BOOLEAN
<1>1. UNCHANGED vars => crashed' \in BOOLEAN
  BY DEF vars
<1>2. \A id : GetHeapInformation(id) => crashed' \in BOOLEAN
  BY DEF GetHeapInformation
<1>3. \A t, id : HeapCreate(t, id) => crashed' \in BOOLEAN
  BY DEF HeapCreate
<1>4. \A t, id : HeapDestroy(t, id) \/ FreeAll(t, id) => crashed' \in BOOLEAN
  BY DEF HeapDestroy, FreeAll, Becomes, Ignored
<1>5. \A t, id, other : SetBackingAllocator(t, id, other) => crashed' \in BOOLEAN
  BY DEF SetBackingAllocator, Becomes
<1>6. \A t, id, p : RemoveCore(t, id, p) => crashed' \in BOOLEAN
  BY DEF RemoveCore, Becomes, Ignored
<1>7. \A t, id, p, owned : Free(t, id, p, owned) => crashed' \in BOOLEAN
  BY DEF Free, Becomes, Ignored
<1>8. \A t, id, p, s : AddCore(t, id, p, s) \/ GrowCore(t, id, p, s) => crashed' \in BOOLEAN
  BY DEF AddCore, GrowCore, Becomes, Ignored
<1>9. \A t, id, p, s, owned : Allocate(t, id, p, s, owned) => crashed' \in BOOLEAN
  BY DEF Allocate, Becomes, Ignored
<1>10. \A t : OtherEvent(t) => crashed' \in BOOLEAN
  BY DEF OtherEvent, Ignored
<1> QED
  BY <1>1, <1>2, <1>3, <1>4, <1>5, <1>6, <1>7, <1>8, <1>9, <1>10 DEF Next

LEMMA HeapsInvariantKept ==
  /\ Init => HeapsInvariant
  /\ HeapsInvariant /\ [Next]_vars => HeapsInvariant'
<1>1. ASSUME Init
      PROVE  HeapsInvariant
  <2>1. heaps = Empty /\ last_update = 0 /\ crashed = FALSE
    BY <1>1 DEF Init
  <2>2. DOMAIN heaps = {} /\ heaps \in Maps(HeapIds, Heaps)
    BY <2>1, EmptyIs
  <2> QED
    BY <2>1, <2>2 DEF HeapsInvariant, HeapsMapped, TimeTyped
<1>2. ASSUME HeapsInvariant, [Next]_vars
      PROVE  HeapsInvariant'
  <2>1. HeapsMapped /\ TimeTyped /\ crashed \in BOOLEAN /\ last_update \in Nat
    BY <1>2 DEF HeapsInvariant, TimeTyped
  <2>2. /\ last_update' \in Times \cup {0} /\ last_update' \in Nat /\ last_update <= last_update'
        /\ \/ heaps' = heaps
           \/ Makes
           \/ Changes /\ last_update' \in Times
    <3>1. /\ last_update' = last_update \/ (last_update' \in Times /\ last_update' >= last_update)
          /\ heaps' = heaps \/ Makes \/ (Changes /\ last_update' \in Times)
      BY <1>2, <2>1, StepCases
    <3>2. last_update \in Times \cup {0} /\ \A t \in Times : t \in Nat
      BY <2>1 DEF TimeTyped
    <3>3. last_update' \in Times \cup {0} /\ last_update' \in Nat /\ last_update <= last_update'
      <4>1. CASE last_update' = last_update
        BY <2>1, <3>2, <4>1
      <4>2. CASE last_update' \in Times /\ last_update' >= last_update
        <5>1. last_update' \in Nat
          BY <3>2, <4>2
        <5> QED
          BY <2>1, <4>2, <5>1
      <4> QED
        BY <3>1, <4>1, <4>2
    <3> QED
      BY <3>1, <3>3
  <2>3. crashed' \in BOOLEAN
    BY <1>2, <2>1, CrashTyped
  <2>4. \A id \in DOMAIN heaps : heaps[id] \in Heaps /\ id \in HeapIds
    BY <2>1, KnownHeap
  <2>5. ASSUME NEW id \in DOMAIN heaps
        PROVE  HeapIsSum(heaps[id]) /\ HeapIsCurrent(heaps[id], last_update')
    BY <1>2, <2>1, <2>2, <2>4, CurrentStays DEF HeapsInvariant
  <2>6. CASE heaps' = heaps
    BY <2>1, <2>2, <2>3, <2>5, <2>6 DEF HeapsInvariant, HeapsMapped, TimeTyped
  <2>7. CASE Makes
    <3>1. PICK t \in Times, id \in HeapIds \ DOMAIN heaps, m \in Garbage, u \in Garbage :
            heaps' = Put(heaps, id, NewHeap(t, m, u))
      BY <2>7 DEF Makes
    <3> DEFINE g == NewHeap(t, m, u)
    <3>2. g \in Heaps /\ HeapIsSum(g) /\ HeapIsCurrent(g, last_update')
      BY HeapMade, HeapStartsRight
    <3> HIDE DEF g
    <3>3. heaps' \in Maps(HeapIds, Heaps)
      BY <2>1, <3>1, <3>2, PutMap DEF g, HeapsMapped
    <3>4. \A x \in DOMAIN heaps' : heaps'[x] = g \/ (x \in DOMAIN heaps /\ heaps'[x] = heaps[x])
      BY <3>1 DEF Put, g
    <3> QED
      BY <2>2, <2>3, <2>5, <3>2, <3>3, <3>4 DEF HeapsInvariant, HeapsMapped, TimeTyped
  <2>8. CASE Changes /\ last_update' \in Times
    <3>1. PICK id, g : /\ id \in DOMAIN heaps /\ Becoming(heaps[id], last_update', g)
                       /\ heaps' = Put(heaps, id, g)
      BY <2>8 DEF Changes
    <3>2. HeapIsSum(heaps[id]) /\ HeapIsCurrent(heaps[id], last_update)
      BY <1>2, <3>1 DEF HeapsInvariant
    <3>3. g \in Heaps /\ HeapIsSum(g) /\ HeapIsCurrent(g, last_update')
      BY <2>1, <2>2, <2>4, <2>8, <3>1, <3>2, BecomingKept, SumFollows, CurrentFollows
    <3>4. heaps' \in Maps(HeapIds, Heaps)
      BY <2>1, <2>4, <3>1, <3>3, PutMap DEF HeapsMapped
    <3>5. \A x \in DOMAIN heaps' : heaps'[x] = g \/ (x \in DOMAIN heaps /\ heaps'[x] = heaps[x])
      BY <3>1 DEF Put
    <3> QED
      BY <2>2, <2>3, <2>5, <3>3, <3>4, <3>5 DEF HeapsInvariant, HeapsMapped, TimeTyped
  <2> QED
    BY <2>2, <2>6, <2>7, <2>8
<1> QED
  BY <1>1, <1>2

(***************************************************************************)
(* The fields of heaps and cores stay what their types say: no order of    *)
(* events makes a counter leave 0 .. Word - 1, where the uninitialised     *)
(* maxima start too (addEvent and getHeap of memory_state.cc).             *)
(***************************************************************************)
THEOREM TypesKept == Spec => []TypeOK
<1>1. HeapsInvariant => TypeOK
  <2> SUFFICES ASSUME HeapsInvariant
               PROVE  TypeOK
    OBVIOUS
  <2>1. HeapsMapped /\ last_update \in Times \cup {0} /\ crashed \in BOOLEAN
    BY DEF HeapsInvariant, TimeTyped
  <2>2. DOMAIN heaps \subseteq HeapIds /\ \A id \in DOMAIN heaps : heaps[id] \in Heaps
    BY <2>1, KnownHeap
  <2>3. ASSUME NEW id \in DOMAIN heaps, NEW heap, heap = heaps[id]
        PROVE  /\ heap.birth \in Times /\ heap.death \in Times \cup {0}
               /\ {heap.used, heap.managed, heap.max_used, heap.max_managed} \subseteq Size
               /\ DOMAIN heap.cores \subseteq Pointers
               /\ \A b \in DOMAIN heap.cores : IsCore(heap.cores[b])
               /\ IsMap(heap.alloc_to_core, Pointers, Pointers)
               /\ IsMap(heap.allocations, Pointers, Sizes)
               /\ IsMap(heap.samples, Times, [used : Size, managed : Size])
               /\ heap.backing \in Seq(HeapIds)
    <3>1. heap \in Heaps
      BY <2>2, <2>3
    <3>2. /\ heap.birth \in Times /\ heap.death \in Times \cup {0}
          /\ {heap.used, heap.managed, heap.max_used, heap.max_managed} \subseteq Size
          /\ heap.backing \in Seq(HeapIds)
      BY <3>1, HeapFields
    <3>3. ASSUME NEW b \in DOMAIN heap.cores
          PROVE  IsCore(heap.cores[b]) /\ b \in Pointers
      <4>1. heap.cores[b] \in Cores /\ b \in Pointers
        BY <3>1, CoreOf
      <4>2. heap.cores[b].allocations \in Maps(Pointers, Sizes)
        BY <4>1, CoreFields
      <4>3. IsMap(heap.cores[b].allocations, Pointers, Sizes)
        BY <4>2, MapIs DEF IsMap
      <4> QED
        BY <4>1, <4>3, CoreFields DEF IsCore
    <3>4. /\ IsMap(heap.alloc_to_core, Pointers, Pointers)
          /\ IsMap(heap.allocations, Pointers, Sizes)
      BY <3>1, HeapFields, MapIs DEF IsMap
    <3>5. IsMap(heap.samples, Times, [used : Size, managed : Size])
      <4>1. heap.samples \in Maps(Times, Usages)
        BY <3>1, HeapFields
      <4>2. /\ DOMAIN heap.samples \subseteq Times
            /\ \A t \in DOMAIN heap.samples : heap.samples[t] \in Usages
        BY <4>1, MapIs
      <4> QED
        BY <4>2 DEF IsMap, Usages
    <3> QED
      BY <3>2, <3>3, <3>4, <3>5
  <2> QED
    BY <2>1, <2>2, <2>3 DEF TypeOK
<1> QED
  BY <1>1, HeapsInvariantKept, PTL DEF Spec

(***************************************************************************)
(* Managed memory is what the cores manage, modulo the width of a size_t,  *)
(* whatever events come: HeapAddCore, HeapGrowCore and HeapRemoveCore of   *)
(* cores known or not, also when a sum wraps.                              *)
(***************************************************************************)
THEOREM ManagedStaysSum == Spec => []ManagedIsSumOfCores
<1>1. HeapsInvariant => ManagedIsSumOfCores
  BY DEF HeapsInvariant, HeapIsSum, Parts, ManagedOf, ManagedIsSumOfCores
<1> QED
  BY <1>1, HeapsInvariantKept, PTL DEF Spec

LEMMA InvariantCurve == HeapsInvariant => CurveIsCurrent
<1> SUFFICES ASSUME HeapsInvariant
             PROVE  CurveIsCurrent
  OBVIOUS
<1>1. \A id \in DOMAIN heaps : heaps[id] \in Heaps /\ HeapIsCurrent(heaps[id], last_update)
  BY KnownHeap DEF HeapsInvariant
<1> QED
  BY <1>1, CurveOfHeap DEF CurveIsCurrent

(***************************************************************************)
(* The newest sample of a heap is of its used memory, for every order of   *)
(* events whose times never go back: simple_allocation_events_ of heap.cc. *)
(***************************************************************************)
THEOREM CurveStaysCurrent == Spec => []CurveIsCurrent
BY InvariantCurve, HeapsInvariantKept, PTL DEF Spec

=============================================================================
