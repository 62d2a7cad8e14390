---------------------------- MODULE SamplerProofs ----------------------------
(***************************************************************************)
(* Proofs about Sampler.tla for every clock, every density of points and   *)
(* every set of samples.                                                   *)
(*                                                                         *)
(* The argument: what GetFilteredData has collected is, point by point, a  *)
(* function of the samples and the request (IsCurve), because a round that *)
(* was made looked at a sample that is there, and later samples come after *)
(* it.  How thin a curve is follows from that; what it leaves out, is shown *)
(* round by round; and two curves of one request agree as far as both go.  *)
(***************************************************************************)
EXTENDS Sampler, WellFoundedInduction, FiniteSetTheorems, SequenceTheorems, TLAPS

(***************************************************************************)
(* Natural numbers.  Induction over places is stated with these: of the    *)
(* places that violate a claim there is a first.                           *)
(***************************************************************************)
\* A set of natural numbers has a least one.
LEMMA LeastNumber ==
  ASSUME NEW T \in SUBSET Nat, T # {}
  PROVE  \E m \in T : \A k \in T : m <= k
<1> DEFINE F == {0 .. k : k \in T}
<1>1. F \subseteq FiniteSubsetsOf(Nat) /\ F # {}
  <2>1. \A k \in T : IsFiniteSet(0 .. k)
    BY FS_Interval
  <2>2. \A k \in T : 0 .. k \in FiniteSubsetsOf(Nat)
    <3>1. \A k \in T : 0 .. k \subseteq Nat
      OBVIOUS
    <3> QED
      BY <2>1, <3>1 DEF FiniteSubsetsOf
  <2> QED
    BY <2>2
<1>2. \E x \in F : \A y \in F : ~(<<y, x>> \in StrictSubsetOrdering(Nat))
  BY <1>1, FS_StrictSubsetOrderingWellFounded, WFMin
<1>3. PICK m \in T : \A k \in T : ~(<<0 .. k, 0 .. m>> \in StrictSubsetOrdering(Nat))
  BY <1>2
<1>4. ASSUME NEW k \in T, k < m
      PROVE  FALSE
  <2>1. 0 .. k \in SUBSET Nat /\ 0 .. m \in SUBSET Nat
    OBVIOUS
  <2>2. 0 .. k \subseteq 0 .. m /\ m \in 0 .. m /\ m \notin 0 .. k
    BY <1>4
  <2> QED
    BY <1>3, <2>1, <2>2 DEF StrictSubsetOrdering
<1> QED
  BY <1>4

\* A bounded set of them has a greatest.
LEMMA GreatestNumber ==
  ASSUME NEW n \in Nat, NEW T \in SUBSET (0 .. n), T # {}
  PROVE  \E m \in T : \A k \in T : k <= m
<1> DEFINE U == {n - k : k \in T}
<1>1. U \in SUBSET Nat /\ U # {}
  <2>1. \A k \in T : n - k \in Nat
    OBVIOUS
  <2> QED
    BY <2>1
<1>2. PICK m \in U : \A k \in U : m <= k
  BY <1>1, LeastNumber
<1>3. PICK greatest \in T : m = n - greatest
  BY <1>2
<1>4. \A k \in T : n - greatest <= n - k
  BY <1>2, <1>3
<1> QED
  BY <1>4

\* Products, which the solver does not reorder by itself.
LEMMA OneTimeMore ==
  ASSUME NEW n \in Nat, NEW s \in Nat
  PROVE  n * s \in Nat /\ (n + 1) * s = n * s + s
OBVIOUS

\* A later multiple is a whole step further on.
LEMMA TimesGrow ==
  ASSUME NEW m \in Nat, NEW n \in Nat, NEW s \in Nat, m < n
  PROVE  m * s + s <= n * s
<1>1. PICK d \in Nat : n = m + 1 + d
  <2>1. n - m - 1 \in Nat /\ n = m + 1 + (n - m - 1)
    OBVIOUS
  <2> QED
    BY <2>1
<1>2. n * s = (m + 1) * s + d * s
  BY <1>1
<1>3. d * s \in Nat /\ m * s \in Nat
  OBVIOUS
<1> QED
  BY <1>2, <1>3, OneTimeMore

LEMMA QuotientPositive ==
  ASSUME NEW m \in Nat, NEW n \in 1 .. m
  PROVE  m \div n \in Nat /\ m \div n >= 1
OBVIOUS

USE SamplerAssumption

-----------------------------------------------------------------------------
(***************************************************************************)
(* lower_bound.                                                            *)
(***************************************************************************)
LEMMA TimesAre ==
  ASSUME NEW S \in SUBSET (0 .. MaxTime)
  PROVE  End \in Nat /\ \A s \in S : s \in Nat /\ s < End
<1>1. MaxTime \in Nat
  OBVIOUS
<1> QED
  BY <1>1 DEF End

\* LowerBound in any set of samples.
Found(S, t) == Min({s \in S : s >= t} \cup {End})

LEMMA LowerBoundIsFound == \A t : LowerBound(t) = Found(samples, t)
BY DEF LowerBound, Found

LEMMA FoundIs ==
  ASSUME NEW S \in SUBSET (0 .. MaxTime), NEW t \in Nat
  PROVE  /\ Found(S, t) \in S \cup {End} /\ Found(S, t) \in Nat
         /\ Found(S, t) # End => Found(S, t) >= t /\ Found(S, t) \in S
         /\ \A s \in S : s >= t => Found(S, t) <= s /\ Found(S, t) # End
<1> DEFINE T == {s \in S : s >= t} \cup {End}
<1>1. T \in SUBSET Nat /\ T # {}
  BY TimesAre
<1>2. PICK m \in T : \A s \in T : m <= s
  BY <1>1, LeastNumber
<1>3. Found(S, t) \in T /\ \A s \in T : Found(S, t) <= s
  BY <1>2 DEF Found, Min
<1>4. End \in Nat /\ \A s \in S : s \in Nat /\ s < End
  BY TimesAre
<1>5. Found(S, t) \in S \cup {End} /\ (Found(S, t) # End => Found(S, t) >= t)
  BY <1>3
<1>6. \A s \in S : s >= t => Found(S, t) <= s
  BY <1>3
<1> QED
  BY <1>1, <1>3, <1>4, <1>5, <1>6

\* A sample is put in behind all others: where lower_bound found one it finds it
\* still.
LEMMA FoundStays ==
  ASSUME NEW S \in SUBSET (0 .. MaxTime), NEW u \in 0 .. MaxTime, \A s \in S : s < u,
         NEW t \in Nat, Found(S, t) # End
  PROVE  Found(S \cup {u}, t) = Found(S, t)
<1> DEFINE m == Found(S, t)
           T == {s \in S \cup {u} : s >= t} \cup {End}
<1>1. m \in S /\ m >= t /\ m \in Nat /\ \A s \in S : s >= t => m <= s
  BY FoundIs
<1>2. End \in Nat /\ \A s \in S \cup {u} : s \in Nat /\ s < End
  BY TimesAre
<1> HIDE DEF m
<1>3. m \in T /\ \A s \in T : m <= s
  BY <1>1, <1>2
<1>4. \A x \in T : (\A y \in T : x <= y) => x = m
  BY <1>1, <1>2, <1>3
<1>5. Min(T) = m
  BY <1>3, <1>4 DEF Min
<1> QED
  BY <1>5 DEF Found, m

-----------------------------------------------------------------------------
(***************************************************************************)
(* The curve.                                                              *)
(***************************************************************************)
\* Where the loop stands in its round of this number.
Edge(r, i) == r.from + (i - 1) * r.skip_rate

\* The usage that goes on where nothing happens.
Before(S, points, r, i) == IF i = 1 THEN Found(S, r.from) ELSE points[i - 1].sample

IsPoint(S, points, r, i) ==
  LET edge == Edge(r, i)
      next == Found(S, edge)
  IN  /\ next # End
      /\ points[i] = IF next - edge > r.skip_rate THEN Point(edge, Before(S, points, r, i))
                                                 ELSE Point(next, next)

IsCurve(S, points, r) == \A i \in 1 .. Len(points) : IsPoint(S, points, r, i)

Usage == [time : Nat, sample : Nat]

LEMMA RequestIs ==
  ASSUME NEW r \in Requests
  PROVE  r.from \in Nat /\ r.skip_rate \in Nat /\ r.skip_rate >= 1
<1>1. PICK s \in Seconds, n \in Densities :
        r.from = s * Frequency /\ r.skip_rate = Frequency \div n
  BY DEF Requests
<1>2. Frequency \div n \in Nat /\ Frequency \div n >= 1
  BY QuotientPositive
<1>3. s * Frequency \in Nat
  BY OneTimeMore
<1> QED
  BY <1>1, <1>2, <1>3

LEMMA EdgeIs ==
  ASSUME NEW r \in Requests, NEW i \in Nat \ {0}
  PROVE  /\ Edge(r, i) \in Nat /\ Edge(r, i) >= r.from
         /\ Edge(r, i + 1) = Edge(r, i) + r.skip_rate
         /\ Edge(r, 1) = r.from
         /\ \A j \in Nat \ {0} : i < j => Edge(r, i) + r.skip_rate <= Edge(r, j)
<1>1. r.from \in Nat /\ r.skip_rate \in Nat /\ i - 1 \in Nat
  BY RequestIs
<1>2. (i - 1) * r.skip_rate \in Nat /\ i * r.skip_rate = (i - 1) * r.skip_rate + r.skip_rate
  BY <1>1, OneTimeMore
<1>3. ASSUME NEW j \in Nat \ {0}, i < j
      PROVE  Edge(r, i) + r.skip_rate <= Edge(r, j)
  <2>1. j - 1 \in Nat /\ i - 1 < j - 1
    BY <1>3
  <2>2. (i - 1) * r.skip_rate + r.skip_rate <= (j - 1) * r.skip_rate /\ (j - 1) * r.skip_rate \in Nat
    BY <1>1, <2>1, TimesGrow, OneTimeMore
  <2> QED
    BY <1>1, <1>2, <2>2 DEF Edge
<1>4. 0 * r.skip_rate = 0
  BY <1>1
<1>5. (i + 1) - 1 = i
  OBVIOUS
<1> QED
  BY <1>1, <1>2, <1>3, <1>4, <1>5 DEF Edge

\* A point is at the edge of its round or up to one skip rate behind it.
LEMMA PointIs ==
  ASSUME NEW S \in SUBSET (0 .. MaxTime), NEW r \in Requests, NEW points \in Seq(Usage),
         NEW i \in 1 .. Len(points), IsPoint(S, points, r, i)
  PROVE  /\ Edge(r, i) <= points[i].time /\ points[i].time <= Edge(r, i) + r.skip_rate
         /\ points[i].time <= Found(S, Edge(r, i))
<1>1. Edge(r, i) \in Nat /\ r.skip_rate \in Nat
  <2>1. i \in Nat \ {0}
    OBVIOUS
  <2> QED
    BY <2>1, EdgeIs, RequestIs
<1>2. Found(S, Edge(r, i)) \in Nat /\ Found(S, Edge(r, i)) >= Edge(r, i)
  BY <1>1, FoundIs DEF IsPoint
<1> QED
  BY <1>1, <1>2 DEF IsPoint, Point

\* A curve keeps to the density, whatever the samples.
LEMMA CurvesAreThin ==
  ASSUME NEW S \in SUBSET (0 .. MaxTime), NEW r \in Requests, NEW points \in Seq(Usage), IsCurve(S, points, r),
         NEW i \in 1 .. Len(points), NEW j \in 1 .. Len(points)
  PROVE  /\ i < j => points[i].time <= points[j].time
         /\ i + 2 <= j => points[i].time + r.skip_rate <= points[j].time
<1>0. i \in Nat \ {0} /\ j \in Nat \ {0}
  OBVIOUS
<1>1. points[i].time \in Nat /\ points[j].time \in Nat /\ r.skip_rate \in Nat
  <2>1. points[i] \in Usage /\ points[j] \in Usage
    OBVIOUS
  <2> QED
    BY <2>1, RequestIs DEF Usage
<1>2. /\ Edge(r, i) \in Nat /\ Edge(r, j) \in Nat
      /\ points[i].time <= Edge(r, i) + r.skip_rate
      /\ Edge(r, j) <= points[j].time
  BY <1>0, EdgeIs, PointIs DEF IsCurve
<1>3. i < j => Edge(r, i) + r.skip_rate <= Edge(r, j)
  BY <1>0, EdgeIs
<1>4. i + 2 <= j => Edge(r, i) + r.skip_rate + r.skip_rate <= Edge(r, j)
  <2>1. Edge(r, i + 1) = Edge(r, i) + r.skip_rate
    BY <1>0, EdgeIs
  <2>2. i + 1 < j => Edge(r, i + 1) + r.skip_rate <= Edge(r, j)
    <3>1. i + 1 \in Nat \ {0}
      BY <1>0
    <3> QED
      BY <1>0, <3>1, EdgeIs
  <2> QED
    BY <2>1, <2>2
<1> QED
  BY <1>1, <1>2, <1>3, <1>4

\* Two curves of one request agree as far as both go.
LEMMA CurvesAgree ==
  ASSUME NEW S \in SUBSET (0 .. MaxTime), NEW r \in Requests, NEW p \in Seq(Usage), NEW q \in Seq(Usage),
         IsCurve(S, p, r), IsCurve(S, q, r)
  PROVE  \A i \in 1 .. Len(p) : i <= Len(q) => p[i] = q[i]
<1> DEFINE Differ == {i \in 1 .. Len(p) : i <= Len(q) /\ p[i] # q[i]}
<1>1. SUFFICES ASSUME Differ # {}
               PROVE  FALSE
  OBVIOUS
<1>2. PICK i \in Differ : \A k \in Differ : i <= k
  <2>1. Differ \in SUBSET Nat
    OBVIOUS
  <2> QED
    BY <1>1, <2>1, LeastNumber
<1>3. IsPoint(S, p, r, i) /\ IsPoint(S, q, r, i)
  BY DEF IsCurve
<1>4. Before(S, p, r, i) = Before(S, q, r, i)
  <2>1. i # 1 => i - 1 \in 1 .. Len(p) /\ i - 1 <= Len(q) /\ ~(i <= i - 1)
    OBVIOUS
  <2>2. i # 1 => p[i - 1] = q[i - 1]
    BY <1>2, <2>1
  <2> QED
    BY <2>2 DEF Before
<1>5. p[i] = q[i]
  BY <1>3, <1>4 DEF IsPoint
<1> QED
  BY <1>5

\* A curve stays one when a sample follows.
LEMMA CurveStays ==
  ASSUME NEW S \in SUBSET (0 .. MaxTime), NEW u \in 0 .. MaxTime, \A s \in S : s < u,
         NEW r \in Requests, NEW points \in Seq(Usage), IsCurve(S, points, r)
  PROVE  IsCurve(S \cup {u}, points, r)
<1> SUFFICES ASSUME NEW i \in 1 .. Len(points)
             PROVE  IsPoint(S \cup {u}, points, r, i)
  BY DEF IsCurve
<1>1. IsPoint(S, points, r, i) /\ Edge(r, i) \in Nat /\ r.from \in Nat
  <2>1. i \in Nat \ {0}
    OBVIOUS
  <2> QED
    BY <2>1, EdgeIs, RequestIs DEF IsCurve
<1>2. Found(S \cup {u}, Edge(r, i)) = Found(S, Edge(r, i))
  BY <1>1, FoundStays DEF IsPoint
<1>3. i = 1 => Found(S \cup {u}, r.from) = Found(S, r.from)
  BY <1>1, <1>2, EdgeIs
<1> QED
  BY <1>1, <1>2, <1>3 DEF IsPoint, Before

-----------------------------------------------------------------------------
(***************************************************************************)
(* The invariant.  What a call has collected is a curve of its request and *)
(* of the samples, and so is what the chart shows.                         *)
(***************************************************************************)
SampleTypes == samples \in SUBSET (0 .. MaxTime)

LocalTypes ==
  /\ known \in BOOLEAN /\ calling \in BOOLEAN /\ aborted \in BOOLEAN
  /\ request \in Requests \cup {NoRequest}
  /\ from_sec \in Nat /\ lastMemory \in samples \cup {End} /\ temp \in Points

ChartTypes == chart \in [request : Requests \cup {NoRequest}, points : Points]

Loop ==
  /\ calling => known /\ request \in Requests
  /\ ~known => samples = {}
  /\ request = NoRequest => temp = <<>> /\ from_sec = 0
  /\ request \in Requests =>
       IsCurve(samples, temp, request) /\ from_sec = Edge(request, Len(temp) + 1)
  /\ calling => lastMemory = Before(samples, temp, request, Len(temp) + 1)

Shown ==
  /\ ~known \/ chart.request = NoRequest => chart.points = <<>>
  /\ chart.request \in Requests => IsCurve(samples, chart.points, chart.request)

\* LeftOutIsClose at one point, for every sample instead of the greatest.
IsClose(i) ==
  LET InPast(s) == request.from <= s /\ s <= temp[i].time
  IN  /\ (\A s \in samples : ~InPast(s)) => temp[i].sample = Found(samples, request.from)
      /\ \A s \in samples : InPast(s) => /\ temp[i].sample <= temp[i].time
                                        /\ s < temp[i].sample + request.skip_rate

Close == \A i \in 1 .. Len(temp) : IsClose(i)

\* The loop stands at most one skip rate behind the last point, or has another
\* sample before it: what comes when the call is over is not passed.
AtTheEdge ==
  /\ temp = <<>> => from_sec = request.from
  /\ temp # <<>> =>
       LET last == temp[Len(temp)]
       IN  \/ last.sample = last.time /\ from_sec <= last.time + request.skip_rate
           \/ \E s \in samples : from_sec <= s

Invariant ==
  /\ SampleTypes /\ LocalTypes /\ ChartTypes
  /\ Loop /\ Shown /\ Close /\ NothingIsSkipped /\ AtTheEdge

LEMMA InvariantInit == Init => Invariant
<1> SUFFICES ASSUME Init
             PROVE  Invariant
  OBVIOUS
<1> USE DEF Init
<1>1. SampleTypes /\ LocalTypes /\ ChartTypes
  <2>1. <<>> \in Points
    BY DEF Points
  <2>2. LocalTypes
    BY <2>1 DEF LocalTypes
  <2> QED
    BY <2>1, <2>2 DEF SampleTypes, ChartTypes
<1>2. NoRequest \notin Requests
  BY RequestIs DEF NoRequest
<1>3. Loop /\ Shown
  BY <1>2 DEF Loop, Shown
<1>4. Close /\ NothingIsSkipped /\ AtTheEdge
  BY DEF Close, NothingIsSkipped, AtTheEdge, NoRequest
<1> QED
  BY <1>1, <1>3, <1>4 DEF Invariant

LEMMA SequencesGrow ==
  ASSUME NEW A, NEW B, A \subseteq B, NEW s \in Seq(A)
  PROVE  s \in Seq(B) /\ Len(s) \in Nat /\ \A i \in 1 .. Len(s) : s[i] \in A
BY SeqDef

LEMMA PointsAreUsage ==
  ASSUME SampleTypes, NEW points \in Points
  PROVE  points \in Seq(Usage)
<1>1. [time : Nat, sample : samples] \subseteq Usage
  BY TimesAre DEF SampleTypes, Usage
<1> QED
  BY <1>1, SequencesGrow DEF Points

\* A new sample is behind the loop's last round, or less than a skip rate behind
\* the last point.
LEMMA SampleKeeps ==
  ASSUME Invariant, NEW t \in 0 .. MaxTime, Sample(t)
  PROVE  Invariant'
<1> USE DEF Invariant
<1>1. /\ ~calling /\ known /\ samples' = samples \cup {t} /\ \A s \in samples : s < t
      /\ UNCHANGED <<known, chart, calling, aborted, request, from_sec, lastMemory, temp>>
  BY DEF Sample, Between, locals
<1>2. SampleTypes' /\ samples \subseteq samples' /\ \A s \in samples, u \in samples' \ samples : s < u
  BY <1>1 DEF SampleTypes
<1>3. \A points \in Points : points \in Seq([time : Nat, sample : samples'])
  <2>1. [time : Nat, sample : samples] \subseteq [time : Nat, sample : samples']
    BY <1>2
  <2> QED
    BY <2>1, SequencesGrow DEF Points
<1>4. LocalTypes' /\ ChartTypes'
  BY <1>1, <1>2, <1>3 DEF LocalTypes, ChartTypes, Points
<1>5. temp \in Seq(Usage) /\ chart.points \in Seq(Usage)
  BY PointsAreUsage DEF LocalTypes, ChartTypes
<1>6. Loop'
  <2>1. request \in Requests => IsCurve(samples', temp, request)
    BY <1>1, <1>5, CurveStays DEF Loop, SampleTypes
  <2> QED
    BY <1>1, <2>1 DEF Loop, Edge
<1>7. Shown'
  <2>1. chart.request \in Requests => IsCurve(samples', chart.points, chart.request)
    BY <1>1, <1>5, CurveStays DEF Shown, SampleTypes
  <2> QED
    BY <1>1, <2>1 DEF Shown
<1>8. Close'
  <2> SUFFICES ASSUME NEW i \in 1 .. Len(temp)
               PROVE  IsClose(i)'
    BY <1>1 DEF Close
  <2>1. IsClose(i) /\ request \in Requests /\ IsPoint(samples, temp, request, i)
    BY DEF Close, Loop, LocalTypes, IsCurve
  <2>2. /\ temp[i].time <= Found(samples, Edge(request, i))
        /\ Found(samples, Edge(request, i)) \in samples
        /\ temp[i].time \in Nat
    <3>1. i \in Nat \ {0} /\ temp[i] \in Usage
      BY <1>5
    <3>2. Edge(request, i) \in Nat
      BY <2>1, <3>1, EdgeIs
    <3> QED
      BY <1>5, <2>1, <3>1, <3>2, PointIs, FoundIs DEF IsPoint, Usage, SampleTypes
  <2>3. temp[i].time < t
    <3>1. Found(samples, Edge(request, i)) \in Nat /\ t \in Nat /\ Found(samples, Edge(request, i)) < t
      BY <1>1, <2>2, TimesAre DEF SampleTypes
    <3> QED
      BY <2>2, <3>1
  <2>4. Found(samples', request.from) = Found(samples, request.from)
    <3>1. request.from \in Nat /\ Edge(request, i) \in Nat /\ Edge(request, i) >= request.from
      <4>1. i \in Nat \ {0}
        OBVIOUS
      <4> QED
        BY <2>1, <4>1, EdgeIs, RequestIs
    <3>2. Found(samples, Edge(request, i)) >= Edge(request, i) /\ Found(samples, Edge(request, i)) \in Nat
      BY <2>1, <3>1, FoundIs DEF IsPoint, SampleTypes
    <3>3. Found(samples, request.from) # End
      <4>1. \E s \in samples : s >= request.from
        BY <2>2, <3>1, <3>2
      <4> QED
        BY <3>1, <4>1, FoundIs DEF SampleTypes
    <3> QED
      BY <1>1, <3>1, <3>3, FoundStays DEF SampleTypes
  <2> QED
    BY <1>1, <2>1, <2>2, <2>3, <2>4 DEF IsClose
<1>9. AtTheEdge'
  BY <1>1 DEF AtTheEdge
<1>10. NothingIsSkipped'
  <2> SUFFICES ASSUME NEW s \in samples', request.from <= s, s < from_sec
               PROVE  \E i \in DOMAIN temp : /\ temp[i].sample = temp[i].time
                                             /\ temp[i].time <= s
                                             /\ s < temp[i].time + request.skip_rate
    BY <1>1 DEF NothingIsSkipped
  <2>1. CASE s \in samples
    BY <2>1 DEF NothingIsSkipped
  <2>2. CASE s = t
    <3>1. temp # <<>>
      BY <2>2, RequestIs DEF AtTheEdge, LocalTypes, NoRequest
    <3>2. ~\E u \in samples : from_sec <= u
      BY <1>1, <2>2, TimesAre DEF SampleTypes, LocalTypes
    <3>3. LET last == temp[Len(temp)]
          IN  last.sample = last.time /\ from_sec <= last.time + request.skip_rate
      BY <3>1, <3>2 DEF AtTheEdge
    <3>4. Len(temp) \in DOMAIN temp /\ temp[Len(temp)].sample \in samples
      <4>1. temp \in Seq([time : Nat, sample : samples])
        BY DEF LocalTypes, Points
      <4>2. Len(temp) \in 1 .. Len(temp) /\ DOMAIN temp = 1 .. Len(temp)
        BY <3>1, <4>1
      <4>3. temp[Len(temp)] \in [time : Nat, sample : samples]
        BY <4>1, <4>2, ElementOfSeq
      <4> QED
        BY <4>2, <4>3
    <3>5. temp[Len(temp)].time < t /\ temp[Len(temp)].time \in Nat
      BY <1>1, <3>3, <3>4, TimesAre DEF SampleTypes
    <3>6. request.skip_rate \in Nat /\ from_sec \in Nat
      BY RequestIs DEF LocalTypes, NoRequest
    <3> QED
      BY <2>2, <3>3, <3>4, <3>5, <3>6
  <2> QED
    BY <1>1, <2>1, <2>2
<1> QED
  BY <1>2, <1>4, <1>6, <1>7, <1>8, <1>9, <1>10

\* What a round of the loop does.
LEMMA RoundMoves ==
  ASSUME Invariant, Gap \/ Show
  PROVE  LET next == LowerBound(from_sec)
             p == IF next - from_sec > request.skip_rate THEN Point(from_sec, lastMemory)
                                                         ELSE Point(next, next)
         IN  /\ temp' = Append(temp, p) /\ p \in [time : Nat, sample : samples]
             /\ lastMemory' = p.sample /\ from_sec' = from_sec + request.skip_rate
             /\ next \in samples /\ next # End /\ from_sec <= next /\ next \in Nat
             /\ calling /\ known /\ request \in Requests
             /\ UNCHANGED <<known, samples, chart, calling, aborted, request>>
<1> USE DEF Invariant
<1> DEFINE next == LowerBound(from_sec)
           p == IF next - from_sec > request.skip_rate THEN Point(from_sec, lastMemory)
                                                       ELSE Point(next, next)
<1>1. /\ calling /\ next # End /\ known /\ request \in Requests
      /\ from_sec' = from_sec + request.skip_rate
      /\ UNCHANGED <<known, samples, chart, calling, aborted, request>>
  BY DEF Gap, Show, InLoop, Advance, Loop
<1>2. from_sec \in Nat /\ request.skip_rate \in Nat
  BY <1>1, RequestIs DEF LocalTypes
<1>3. next \in samples /\ from_sec <= next /\ next \in Nat
  <2>1. next = Found(samples, from_sec)
    BY LowerBoundIsFound
  <2> HIDE DEF next
  <2> QED
    BY <1>1, <1>2, <2>1, FoundIs DEF SampleTypes
<1>4. temp' = Append(temp, p) /\ lastMemory' = p.sample
  BY <1>2, <1>3 DEF Gap, Show, Point
<1>5. next - from_sec > request.skip_rate => lastMemory \in samples
  <2>1. CASE Len(temp) = 0
    <3>1. from_sec = request.from
      BY <1>1, <2>1, EdgeIs DEF Loop
    <3> QED
      BY <1>1, <1>3, <2>1, <3>1, LowerBoundIsFound DEF Loop, Before
  <2>2. CASE Len(temp) # 0
    <3>1. Len(temp) \in 1 .. Len(temp) /\ Len(temp) + 1 # 1 /\ (Len(temp) + 1) - 1 = Len(temp)
      BY <2>2 DEF LocalTypes, Points
    <3>2. lastMemory = temp[Len(temp)].sample
      BY <1>1, <3>1 DEF Loop, Before
    <3>3. temp[Len(temp)] \in [time : Nat, sample : samples]
      <4>1. temp \in Seq([time : Nat, sample : samples])
        BY DEF LocalTypes, Points
      <4> QED
        BY <3>1, <4>1, ElementOfSeq
    <3> QED
      BY <3>2, <3>3
  <2> QED
    BY <2>1, <2>2
<1>6. p \in [time : Nat, sample : samples]
  BY <1>2, <1>3, <1>5 DEF Point
<1> QED
  BY <1>1, <1>3, <1>4, <1>6

\* A round puts the next point of the curve behind the others.
LEMMA RoundKeeps ==
  ASSUME Invariant, Gap \/ Show
  PROVE  Invariant'
<1> USE DEF Invariant
<1> DEFINE n == Len(temp)
           next == LowerBound(from_sec)
           skip == request.skip_rate
           p == IF next - from_sec > skip THEN Point(from_sec, lastMemory) ELSE Point(next, next)
<1>1. /\ temp' = Append(temp, p) /\ p \in [time : Nat, sample : samples]
      /\ lastMemory' = p.sample /\ from_sec' = from_sec + skip
      /\ next \in samples /\ next # End /\ from_sec <= next /\ next \in Nat
      /\ calling /\ known /\ request \in Requests
      /\ UNCHANGED <<known, samples, chart, calling, aborted, request>>
  BY RoundMoves
<1>2. /\ temp \in Seq([time : Nat, sample : samples]) /\ n \in Nat
      /\ temp' \in Seq([time : Nat, sample : samples]) /\ Len(temp') = n + 1
      /\ \A i \in 1 .. n : temp'[i] = temp[i]
      /\ temp'[n + 1] = p
  BY <1>1, AppendProperties DEF LocalTypes, Points
<1>3. /\ next = Found(samples, from_sec) /\ from_sec = Edge(request, n + 1)
      /\ lastMemory = Before(samples, temp, request, n + 1)
      /\ request.from \in Nat /\ skip \in Nat /\ skip >= 1 /\ from_sec \in Nat
      /\ request.from <= from_sec
  <2>1. n + 1 \in Nat \ {0}
    BY <1>2
  <2> QED
    BY <1>1, <2>1, LowerBoundIsFound, RequestIs, EdgeIs DEF Loop
<1>4. \A i \in 1 .. n : temp[i] \in [time : Nat, sample : samples]
  BY <1>2, ElementOfSeq
<1> HIDE DEF n, next, skip, p
<1>5. SampleTypes' /\ LocalTypes' /\ ChartTypes' /\ Shown'
  <2>1. p.sample \in samples /\ from_sec' \in Nat
    BY <1>1, <1>3
  <2> QED
    BY <1>1, <1>2, <2>1 DEF SampleTypes, LocalTypes, ChartTypes, Shown, Points
<1>6. IsCurve(samples, temp', request)
  <2> SUFFICES ASSUME NEW i \in 1 .. (n + 1)
               PROVE  IsPoint(samples, temp', request, i)
    BY <1>2 DEF IsCurve
  <2>1. Before(samples, temp', request, i) = Before(samples, temp, request, i)
    <3>1. i # 1 => i - 1 \in 1 .. n
      BY <1>2
    <3> QED
      BY <1>2, <3>1 DEF Before
  <2>2. CASE i \in 1 .. n
    <3>1. IsPoint(samples, temp, request, i) /\ temp'[i] = temp[i]
      BY <1>1, <1>2, <2>2 DEF Loop, IsCurve, n
    <3> QED
      BY <2>1, <3>1 DEF IsPoint
  <2>3. CASE i = n + 1
    BY <1>1, <1>2, <1>3, <2>1, <2>3 DEF IsPoint, p, skip
  <2> QED
    BY <1>2, <2>2, <2>3
<1>7. Loop'
  <2>1. from_sec' = Edge(request, (n + 1) + 1)
    <3>1. n + 1 \in Nat \ {0}
      BY <1>2
    <3> QED
      BY <1>1, <1>3, <3>1, EdgeIs DEF skip
  <2>2. lastMemory' = Before(samples, temp', request, (n + 1) + 1)
    <3>1. (n + 1) + 1 # 1 /\ ((n + 1) + 1) - 1 = n + 1
      BY <1>2
    <3> QED
      BY <1>1, <1>2, <3>1 DEF Before
  <2>3. request # NoRequest
    BY <1>1, RequestIs DEF NoRequest
  <2> QED
    BY <1>1, <1>2, <1>6, <2>1, <2>2, <2>3 DEF Loop
<1>8. Close'
  <2> SUFFICES ASSUME NEW i \in 1 .. (n + 1)
               PROVE  IsClose(i)'
    BY <1>2 DEF Close
  <2>1. CASE i \in 1 .. n
    BY <1>1, <1>2, <2>1 DEF Close, IsClose, n
  <2>2. CASE i = n + 1 /\ ~(next - from_sec > skip)
    <3>1. temp'[i] = Point(next, next)
      BY <1>2, <2>2 DEF p
    <3>2. \A s \in samples : s \in Nat
      BY TimesAre DEF SampleTypes
    <3> QED
      BY <1>1, <1>3, <3>1, <3>2 DEF IsClose, Point, skip
  <2>3. CASE i = n + 1 /\ next - from_sec > skip
    <3>1. temp'[i] = Point(from_sec, lastMemory)
      BY <1>2, <2>3 DEF p
    <3>2. \A s \in samples : s \in Nat /\ (s < from_sec \/ s >= next)
      BY <1>3, FoundIs, TimesAre DEF SampleTypes
    <3>3. \A s \in samples : s <= from_sec => s < from_sec
      BY <1>1, <1>3, <2>3, <3>2
    <3>4. CASE n = 0
      <4>1. from_sec = request.from /\ lastMemory = Found(samples, request.from)
        <5>1. n + 1 = 1 /\ 1 \in Nat \ {0}
          BY <3>4
        <5> QED
          BY <1>1, <1>3, <5>1, EdgeIs DEF Before
      <4>2. \A s \in samples : ~(request.from <= s /\ s <= from_sec)
        BY <1>3, <3>2, <3>3, <4>1
      <4> QED
        BY <1>1, <3>1, <4>1, <4>2 DEF IsClose, Point
    <3>5. CASE n # 0
      <4> DEFINE q == temp[n]
                 edge == Edge(request, n)
      <4>1. n \in 1 .. n /\ n \in Nat \ {0} /\ n + 1 # 1 /\ (n + 1) - 1 = n
        BY <1>2, <3>5
      <4>2. q \in [time : Nat, sample : samples] /\ lastMemory = q.sample
        BY <1>3, <1>4, <4>1 DEF Before
      <4>3. edge \in Nat /\ from_sec = edge + skip /\ request.from <= edge
        BY <1>1, <1>3, <4>1, EdgeIs DEF skip
      <4>4. IsPoint(samples, temp, request, n) /\ IsClose(n)
        BY <1>1, <4>1 DEF Loop, IsCurve, Close, n
      <4> DEFINE found == Found(samples, edge)
      <4>5. found \in Nat /\ edge <= found /\ \A s \in samples : s >= edge => found <= s
        BY <4>3, <4>4, FoundIs DEF SampleTypes, IsPoint
      <4>6. q = IF found - edge > skip THEN Point(edge, Before(samples, temp, request, n))
                                       ELSE Point(found, found)
        BY <4>4 DEF IsPoint, skip
      <4> HIDE DEF q, edge, found
      <4>7. q.sample \in Nat
        BY <3>2, <4>2
      <4>8. /\ (\A s \in samples : ~(request.from <= s /\ s <= q.time)) =>
                  q.sample = Found(samples, request.from)
            /\ \A s \in samples : request.from <= s /\ s <= q.time =>
                  q.sample <= q.time /\ s < q.sample + skip
        BY <4>4 DEF IsClose, q, skip
      <4>9. CASE found - edge > skip
        <5>1. q.time = edge
          BY <4>6, <4>9 DEF Point
        <5>2. \A s \in samples : s <= from_sec => s < edge
          BY <1>3, <3>2, <3>3, <4>3, <4>5, <4>9
        <5>3. \A s \in samples : s <= from_sec <=> s <= q.time
          BY <1>3, <3>2, <4>3, <5>1, <5>2
        <5>4. q.time <= from_sec /\ q.time \in Nat
          BY <1>3, <4>3, <5>1
        <5> QED
          BY <1>1, <1>3, <3>1, <4>2, <4>7, <4>8, <5>3, <5>4 DEF IsClose, Point, skip
      <4>10. CASE ~(found - edge > skip)
        <5>1. q.time = found /\ q.sample = found /\ found \in samples /\ found <= from_sec
          BY <1>3, <4>2, <4>3, <4>5, <4>6, <4>10 DEF Point
        <5>2. \A s \in samples : s <= from_sec => s < found + skip
          BY <1>3, <3>2, <3>3, <4>3, <4>5
        <5>3. request.from <= found
          BY <1>3, <4>3, <4>5
        <5> QED
          BY <1>1, <1>3, <3>1, <4>2, <5>1, <5>2, <5>3 DEF IsClose, Point, skip
      <4> QED
        BY <4>9, <4>10
    <3> QED
      BY <3>4, <3>5
  <2> QED
    BY <1>2, <2>1, <2>2, <2>3
<1>9. NothingIsSkipped'
  <2> SUFFICES ASSUME NEW s \in samples, request.from <= s, s < from_sec'
               PROVE  \E i \in 1 .. (n + 1) : /\ temp'[i].sample = temp'[i].time
                                              /\ temp'[i].time <= s
                                              /\ s < temp'[i].time + skip
    <3>1. DOMAIN temp' = 1 .. (n + 1)
      BY <1>2
    <3> QED
      BY <1>1, <3>1 DEF NothingIsSkipped, skip
  <2>1. s \in Nat
    BY TimesAre DEF SampleTypes
  <2>2. CASE s < from_sec
    <3>1. PICK i \in 1 .. n : /\ temp[i].sample = temp[i].time
                              /\ temp[i].time <= s /\ s < temp[i].time + skip
      <4>1. DOMAIN temp = 1 .. n
        BY <1>2 DEF n
      <4> QED
        BY <2>2, <4>1 DEF NothingIsSkipped, skip
    <3>2. i \in 1 .. (n + 1) /\ temp'[i] = temp[i]
      BY <1>2
    <3> QED
      BY <3>1, <3>2
  <2>3. CASE ~(s < from_sec)
    <3>1. next <= s /\ ~(next - from_sec > skip)
      BY <1>1, <1>3, <2>1, <2>3, FoundIs DEF SampleTypes
    <3>2. temp'[n + 1] = Point(next, next)
      BY <1>2, <3>1 DEF p
    <3>3. s < next + skip
      BY <1>1, <1>3, <2>1, <2>3
    <3>4. n + 1 \in 1 .. (n + 1)
      BY <1>2
    <3> QED
      BY <3>1, <3>2, <3>3, <3>4 DEF Point
  <2> QED
    BY <2>2, <2>3
<1>10. AtTheEdge'
  <2>1. temp' # <<>>
    BY <1>2
  <2>2. CASE ~(next - from_sec > skip)
    <3>1. temp'[Len(temp')] = Point(next, next)
      BY <1>2, <2>2 DEF p
    <3>2. from_sec' <= next + skip
      BY <1>1, <1>3
    <3> QED
      BY <1>1, <2>1, <3>1, <3>2 DEF AtTheEdge, Point, skip
  <2>3. CASE next - from_sec > skip
    <3>1. from_sec' <= next
      BY <1>1, <1>3, <2>3
    <3> QED
      BY <1>1, <2>1, <3>1 DEF AtTheEdge
  <2> QED
    BY <2>2, <2>3
<1> QED
  BY <1>5, <1>7, <1>8, <1>9, <1>10

LEMMA InvariantNext == Invariant /\ [Next]_vars => Invariant'
<1> SUFFICES ASSUME Invariant, [Next]_vars
             PROVE  Invariant'
  OBVIOUS
<1> USE DEF Invariant
<1> DEFINE Round == LocalTypes /\ Loop /\ Close /\ NothingIsSkipped /\ AtTheEdge
<1>1. CASE HeapCreate
  <2>1. UNCHANGED <<samples, chart, calling, aborted, locals>> /\ known' = TRUE /\ ~calling
    BY <1>1 DEF HeapCreate, Between
  <2>2. SampleTypes' /\ ChartTypes' /\ LocalTypes'
    BY <2>1 DEF SampleTypes, ChartTypes, LocalTypes, Points, locals
  <2>3. Loop' /\ Shown'
    BY <2>1 DEF Loop, Shown, locals
  <2>4. Close' /\ NothingIsSkipped' /\ AtTheEdge'
    BY <2>1 DEF Close, IsClose, NothingIsSkipped, AtTheEdge, locals
  <2> QED
    BY <2>2, <2>3, <2>4
<1>2. ASSUME NEW t \in 0 .. MaxTime, Sample(t)
      PROVE  Invariant'
  BY <1>2, SampleKeeps
<1>3. ASSUME NEW r \in Requests, GetFilteredDataOfNoHeap(r)
      PROVE  Invariant'
  <2>1. /\ UNCHANGED <<known, samples, calling, aborted, locals>> /\ ~known
        /\ chart' = [request |-> r, points |-> <<>>]
    BY <1>3 DEF GetFilteredDataOfNoHeap, Between
  <2>2. SampleTypes' /\ LocalTypes'
    BY <2>1 DEF SampleTypes, LocalTypes, Points, locals
  <2>3. ChartTypes' /\ Shown'
    BY <2>1 DEF ChartTypes, Shown, Points, IsCurve
  <2>4. Loop' /\ Close' /\ NothingIsSkipped' /\ AtTheEdge'
    BY <2>1 DEF Loop, Close, IsClose, NothingIsSkipped, AtTheEdge, locals
  <2> QED
    BY <2>2, <2>3, <2>4
<1>4. ASSUME NEW r \in Requests, GetFilteredData(r)
      PROVE  Invariant'
  <2>1. /\ UNCHANGED <<known, samples, chart, aborted>> /\ known /\ calling' = TRUE
        /\ request' = r /\ from_sec' = r.from /\ lastMemory' = LowerBound(r.from)
        /\ temp' = <<>>
    BY <1>4 DEF GetFilteredData, Between
  <2>2. r.from \in Nat /\ r.from = Edge(r, 1) /\ r # NoRequest /\ lastMemory' = Found(samples, r.from)
    <3>1. 1 \in Nat \ {0}
      OBVIOUS
    <3>2. r.from \in Nat /\ r # NoRequest
      BY RequestIs DEF NoRequest
    <3>3. r.from = Edge(r, 1)
      BY <3>1, EdgeIs
    <3> QED
      BY <2>1, <3>2, <3>3, LowerBoundIsFound
  <2>3. lastMemory' \in samples \cup {End}
    BY <2>2, FoundIs DEF SampleTypes
  <2>4. SampleTypes' /\ LocalTypes'
    BY <2>1, <2>2, <2>3 DEF SampleTypes, LocalTypes, Points
  <2>5. ChartTypes' /\ Shown'
    BY <2>1 DEF ChartTypes, Shown, Points
  <2>6. Loop'
    <3>1. Len(<<>>) = 0
      OBVIOUS
    <3> QED
      BY <2>1, <2>2, <3>1 DEF Loop, Before, IsCurve
  <2>7. Close' /\ NothingIsSkipped' /\ AtTheEdge'
    <3>1. \A s \in samples : ~(r.from <= s /\ s < r.from)
      BY <2>2, TimesAre DEF SampleTypes
    <3> QED
      BY <2>1, <3>1 DEF Close, NothingIsSkipped, AtTheEdge
  <2> QED
    BY <2>4, <2>5, <2>6, <2>7
<1>5. CASE Gap \/ Show
  BY <1>5, RoundKeeps
<1>6. CASE Return
  <2>1. /\ UNCHANGED <<known, samples, aborted, locals>> /\ calling /\ calling' = FALSE
        /\ chart' = [request |-> request, points |-> temp]
    BY <1>6 DEF Return
  <2>2. SampleTypes' /\ LocalTypes'
    BY <2>1 DEF SampleTypes, LocalTypes, Points, locals
  <2>3. ChartTypes'
    BY <2>1 DEF ChartTypes, LocalTypes, Points
  <2>4. Shown'
    <3>1. known /\ request \in Requests /\ IsCurve(samples, temp, request) /\ request # NoRequest
      BY <2>1, RequestIs DEF Loop, NoRequest
    <3> QED
      BY <2>1, <3>1 DEF Shown
  <2>5. Loop' /\ Close' /\ NothingIsSkipped' /\ AtTheEdge'
    BY <2>1 DEF Loop, Close, IsClose, NothingIsSkipped, AtTheEdge, locals
  <2> QED
    BY <2>2, <2>3, <2>4, <2>5
<1>7. CASE UNCHANGED vars
  <2>1. UNCHANGED <<known, samples, chart, calling, aborted, request, from_sec, lastMemory, temp>>
    BY <1>7 DEF vars, locals
  <2>2. SampleTypes' /\ LocalTypes' /\ ChartTypes'
    BY <2>1 DEF SampleTypes, LocalTypes, ChartTypes, Points
  <2>3. Loop' /\ Shown'
    BY <2>1 DEF Loop, Shown
  <2>4. Close' /\ NothingIsSkipped' /\ AtTheEdge'
    BY <2>1 DEF Close, IsClose, NothingIsSkipped, AtTheEdge
  <2> QED
    BY <2>2, <2>3, <2>4
<1>8. ASSUME NEW r \in Requests, GetFilteredDataAborts(r)
      PROVE  Invariant'
  <2>1. UNCHANGED <<known, samples, chart, calling, locals>> /\ aborted' = TRUE
    BY <1>8 DEF GetFilteredDataAborts
  <2>2. SampleTypes' /\ LocalTypes' /\ ChartTypes'
    BY <2>1 DEF SampleTypes, LocalTypes, ChartTypes, Points, locals
  <2>3. Loop' /\ Shown'
    BY <2>1 DEF Loop, Shown, locals
  <2>4. Close' /\ NothingIsSkipped' /\ AtTheEdge'
    BY <2>1 DEF Close, IsClose, NothingIsSkipped, AtTheEdge, locals
  <2> QED
    BY <2>2, <2>3, <2>4
<1> QED
  BY <1>1, <1>2, <1>3, <1>4, <1>5, <1>6, <1>7, <1>8 DEF Next

-----------------------------------------------------------------------------
(***************************************************************************)
(* The theorems.                                                           *)
(***************************************************************************)
LEMMA InvariantHolds == Spec => []Invariant
BY InvariantInit, InvariantNext, PTL DEF Spec

\* Every point is of a sample there is: the address that is taken behind end()
\* where no sample follows is never read for one.
THEOREM TypesKept == Spec => []TypeOK
<1>1. Invariant => TypeOK
  BY DEF Invariant, SampleTypes, LocalTypes, ChartTypes, TypeOK
<1> QED
  BY <1>1, InvariantHolds, PTL

\* The curve is as thin as the user asked for, whatever the samples and the
\* density: never three points within a skip rate.
THEOREM CurveStaysThin == Spec => []CurveIsThin
<1>1. Invariant => CurveIsThin
  <2> SUFFICES ASSUME Invariant, NEW i \in DOMAIN temp, NEW j \in DOMAIN temp
               PROVE  /\ i < j => temp[i].time <= temp[j].time
                      /\ i + 2 <= j => temp[i].time + request.skip_rate <= temp[j].time
    BY DEF CurveIsThin
  <2>1. temp \in Seq(Usage) /\ samples \in SUBSET (0 .. MaxTime)
    BY PointsAreUsage DEF Invariant, LocalTypes, SampleTypes
  <2>2. DOMAIN temp = 1 .. Len(temp) /\ temp # <<>>
    BY <2>1
  <2>3. request \in Requests /\ IsCurve(samples, temp, request)
    BY <2>2 DEF Invariant, LocalTypes, Loop
  <2> QED
    BY <2>1, <2>2, <2>3, CurvesAreThin
<1> QED
  BY <1>1, InvariantHolds, PTL

\* Whatever the samples and the density, a point leaves out no sample but those
\* that came less than a skip rate behind the one it shows.
THEOREM LeftOutStaysClose == Spec => []LeftOutIsClose
<1>1. Invariant => LeftOutIsClose
  <2> SUFFICES ASSUME Invariant, NEW i \in DOMAIN temp
               PROVE  LET past == {s \in samples : request.from <= s /\ s <= temp[i].time}
                      IN  IF past = {} THEN temp[i].sample = LowerBound(request.from)
                          ELSE /\ temp[i].sample <= temp[i].time
                               /\ Max(past) < temp[i].sample + request.skip_rate
    BY DEF LeftOutIsClose
  <2> DEFINE past == {s \in samples : request.from <= s /\ s <= temp[i].time}
  <2>1. IsClose(i) /\ past \in SUBSET (0 .. MaxTime)
    <3>1. temp \in Seq([time : Nat, sample : samples])
      BY DEF Invariant, LocalTypes, Points
    <3>2. i \in 1 .. Len(temp)
      BY <3>1
    <3> QED
      BY <3>2 DEF Invariant, Close, SampleTypes
  <2>2. CASE past = {}
    BY <2>1, <2>2, LowerBoundIsFound DEF IsClose
  <2>3. CASE past # {}
    <3>1. \E m \in past : \A s \in past : s <= m
      <4>1. MaxTime \in Nat
        OBVIOUS
      <4> QED
        BY <2>1, <2>3, <4>1, GreatestNumber
    <3>2. \E m \in past : \A s \in past : m >= s
      BY <2>1, <3>1
    <3>3. Max(past) \in past
      BY <3>2 DEF Max
    <3> QED
      BY <2>1, <2>3, <3>3 DEF IsClose
  <2> QED
    BY <2>2, <2>3
<1> QED
  BY <1>1, InvariantHolds, PTL

\* Every sample the loop has passed is in the curve or close behind one that is.
THEOREM NothingGetsSkipped == Spec => []NothingIsSkipped
<1>1. Invariant => NothingIsSkipped
  BY DEF Invariant
<1> QED
  BY <1>1, InvariantHolds, PTL

\* The same request gives the same curve and more, however the trace goes on.
THEOREM ThePastStays == Spec => PastStays
<1>1. Invariant /\ [Next]_vars =>
        (chart'.request = chart.request => IsPrefix(chart.points, chart'.points))
  <2> SUFFICES ASSUME Invariant, [Next]_vars, chart'.request = chart.request
               PROVE  IsPrefix(chart.points, chart'.points)
    OBVIOUS
  <2>1. chart.points \in Seq(Usage) /\ temp \in Seq(Usage) /\ samples \in SUBSET (0 .. MaxTime)
    BY PointsAreUsage DEF Invariant, ChartTypes, LocalTypes, SampleTypes
  <2>2. CASE chart' = chart
    BY <2>1, <2>2 DEF IsPrefix
  <2>3. CASE chart.points = <<>> /\ chart'.points \in Seq(Usage)
    <3>1. Len(<<>>) = 0 /\ Len(chart'.points) \in Nat
      BY <2>3
    <3>2. SubSeq(<<>>, 1, 0) = <<>> /\ SubSeq(chart'.points, 1, 0) = <<>>
      BY <2>3
    <3> QED
      BY <2>3, <3>1, <3>2 DEF IsPrefix
  <2>4. ASSUME NEW r \in Requests, GetFilteredDataOfNoHeap(r)
        PROVE  chart.points = <<>> /\ chart'.points \in Seq(Usage)
    BY <2>4 DEF GetFilteredDataOfNoHeap, Invariant, Shown
  <2>5. CASE Return
    <3> DEFINE shown == chart.points
    <3>1. calling /\ ~InLoop /\ chart'.points = temp /\ chart.request = request
      BY <2>5 DEF Return
    <3>2. /\ request \in Requests /\ IsCurve(samples, temp, request)
          /\ IsCurve(samples, shown, request) /\ from_sec = Edge(request, Len(temp) + 1)
      BY <3>1 DEF Invariant, Loop, Shown
    <3>3. Found(samples, from_sec) = End
      BY <3>1, LowerBoundIsFound DEF InLoop
    <3>4. Len(shown) \in Nat /\ Len(temp) \in Nat
      BY <2>1
    <3>5. Len(shown) <= Len(temp)
      <4>1. SUFFICES ASSUME Len(temp) + 1 \in 1 .. Len(shown)
                     PROVE  FALSE
        BY <3>4
      <4>2. IsPoint(samples, shown, request, Len(temp) + 1)
        BY <3>2, <4>1 DEF IsCurve
      <4> QED
        BY <3>2, <3>3, <4>2 DEF IsPoint
    <3>6. \A i \in 1 .. Len(shown) : shown[i] = temp[i]
      BY <2>1, <3>2, <3>4, <3>5, CurvesAgree
    <3>7. SubSeq(shown, 1, Len(shown)) = SubSeq(temp, 1, Len(shown))
      BY <2>1, <3>4, <3>5, <3>6, SubSeqProperties, SeqEqual
    <3> QED
      BY <3>1, <3>5, <3>7 DEF IsPrefix
  <2> QED
    BY <2>2, <2>3, <2>4, <2>5 DEF Next, HeapCreate, Sample, GetFilteredData, GetFilteredDataAborts, Gap, Show, Advance, vars
<1> QED
  BY <1>1, InvariantHolds, PTL DEF Spec, PastStays

=============================================================================
