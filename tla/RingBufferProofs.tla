--------------------------- MODULE RingBufferProofs ---------------------------
(***************************************************************************)
(* Proofs about RingBuffer.tla for every capacity, byte set and bound.     *)
(* The inductive invariant is Inv of that module: the type invariant, the  *)
(* window of unread bytes, and the same window for every rollback record   *)
(* that may still be loaded.                                               *)
(***************************************************************************)
EXTENDS RingBuffer, TLAPS

USE CapAssumption

(***************************************************************************)
(* Positions: moving by n bytes, in one run or two, is moving n places on  *)
(* the circle, and stays inside the storage.                               *)
(***************************************************************************)
LEMMA AdvanceIsWrap ==
  ASSUME NEW p \in Index, NEW n \in 0 .. Cap
  PROVE  Advance(p, n) = Wrap(p + n) /\ Wrap(p + n) \in Index
BY DEF Advance, Wrap, Index

\* Two wrapped moves in a row are one, up to a full turn.
LEMMA WrapPlus ==
  ASSUME NEW p \in Index, NEW n \in Nat, NEW m \in Nat, n + m <= Cap
  PROVE  Wrap(Wrap(p + n) + m) = Wrap(p + (n + m))
BY DEF Wrap, Index

\* Going on from the end of a window of u bytes past the free places leads back
\* into the window.
LEMMA WrapAround ==
  ASSUME NEW p \in Index, NEW u \in 0 .. Cap, NEW i \in 0 .. (u - 1)
  PROVE  Wrap(Wrap(p + u) + (Cap - u + i)) = Wrap(p + i)
BY DEF Wrap, Index

(***************************************************************************)
(* extractString returns the bytes of the circle from the read position,   *)
(* however it splits them.                                                 *)
(***************************************************************************)
LEMMA ExtractedBytes ==
  ASSUME NEW d \in [Index -> Byte], NEW c \in Cursor, NEW length \in Nat,
         c.read_pos \in Index, c.unread <= Cap
  PROVE  /\ Extracted(d, c, length) \in Seq(Byte)
         /\ Len(Extracted(d, c, length)) = ToRead(c, length)
         /\ \A i \in 1 .. ToRead(c, length) :
               Extracted(d, c, length)[i] = d[Wrap(c.read_pos + (i - 1))]
<1> DEFINE n == ToRead(c, length)
           size_1 == Cap - c.read_pos
           s == Slice(d, c.read_pos, n)
           s1 == Slice(d, c.read_pos, size_1)
           s2 == Slice(d, 0, n - size_1)
<1>1. n \in Nat /\ n <= c.unread /\ n <= Cap /\ size_1 \in 1 .. Cap
  BY DEF ToRead, SizeMin, Cursor, Index
<1>2. CASE n <= size_1
  <2>1. s \in Seq(Byte) /\ Len(s) = n
    <3>1. \A i \in 1 .. n : c.read_pos + i - 1 \in Index
      BY <1>1, <1>2 DEF Index
    <3>2. \A i \in 1 .. n : d[c.read_pos + i - 1] \in Byte
      BY <3>1
    <3> QED
      BY <3>2, <1>1 DEF Slice
  <2>2. \A i \in 1 .. n : s[i] = d[Wrap(c.read_pos + (i - 1))]
    BY <1>1, <1>2 DEF Slice, Wrap, Index, Cursor
  <2>3. Extracted(d, c, length) = s
    BY <1>2 DEF Extracted
  <2> QED
    BY <2>1, <2>2, <2>3
<1>3. CASE ~(n <= size_1)
  <2>1. s1 \in Seq(Byte) /\ Len(s1) = size_1
    <3>1. \A i \in 1 .. size_1 : c.read_pos + i - 1 \in Index
      BY <1>1 DEF Index
    <3>2. \A i \in 1 .. size_1 : d[c.read_pos + i - 1] \in Byte
      BY <3>1
    <3> QED
      BY <3>2, <1>1 DEF Slice
  <2>2. s2 \in Seq(Byte) /\ Len(s2) = n - size_1
    <3>1. n - size_1 \in Nat /\ \A i \in 1 .. (n - size_1) : 0 + i - 1 \in Index
      BY <1>1, <1>3 DEF Index
    <3>2. \A i \in 1 .. (n - size_1) : d[0 + i - 1] \in Byte
      BY <3>1
    <3> QED
      BY <3>1, <3>2 DEF Slice
  <2>3. Extracted(d, c, length) = s1 \o s2
    BY <1>3 DEF Extracted
  <2>4. s1 \o s2 \in Seq(Byte) /\ Len(s1 \o s2) = n
    BY <2>1, <2>2, <1>1, <1>3
  <2>5. ASSUME NEW i \in 1 .. n
        PROVE  (s1 \o s2)[i] = d[Wrap(c.read_pos + (i - 1))]
    <3>1. CASE i <= size_1
      <4>1. (s1 \o s2)[i] = s1[i]
        BY <2>1, <2>2, <3>1, <1>1
      <4>2. s1[i] = d[c.read_pos + i - 1]
        BY <3>1, <1>1 DEF Slice
      <4>3. Wrap(c.read_pos + (i - 1)) = c.read_pos + i - 1
        BY <3>1, <1>1 DEF Wrap, Index
      <4> QED
        BY <4>1, <4>2, <4>3
    <3>2. CASE i > size_1
      <4>1. (s1 \o s2)[i] = s2[i - size_1]
        BY <2>1, <2>2, <3>2, <1>1
      <4>2. s2[i - size_1] = d[0 + (i - size_1) - 1]
        BY <3>2, <1>1 DEF Slice
      <4>3. Wrap(c.read_pos + (i - 1)) = 0 + (i - size_1) - 1
        BY <3>2, <1>1 DEF Wrap, Index
      <4> QED
        BY <4>1, <4>2, <4>3
    <3>3. i <= size_1 \/ i > size_1
      BY <1>1
    <3> HIDE DEF s1, s2, size_1
    <3> QED
      BY <3>1, <3>2, <3>3
  <2> QED
    BY <2>3, <2>4, <2>5
<1> QED
  BY <1>2, <1>3

(***************************************************************************)
(* populate writes the accepted bytes on the circle from the write         *)
(* position and no other place.                                            *)
(***************************************************************************)
LEMMA FilledBytes ==
  ASSUME NEW d \in [Index -> Byte], NEW c \in Cursor, NEW buff \in Seq(Byte),
         c.write_pos \in Index, c.unread <= Cap
  PROVE  /\ Filled(d, c, buff) \in [Index -> Byte]
         /\ \A j \in 0 .. (Cap - 1) :
              Filled(d, c, buff)[Wrap(c.write_pos + j)] =
                IF j < ToWrite(c, Len(buff)) THEN buff[j + 1]
                                             ELSE d[Wrap(c.write_pos + j)]
<1> DEFINE n == ToWrite(c, Len(buff))
           w == c.write_pos
           size_1 == Cap - w
           f == Filled(d, c, buff)
<1>1. /\ n \in Nat /\ n <= Len(buff) /\ n <= Cap
      /\ w \in Nat /\ w < Cap /\ size_1 \in Nat
  BY DEF ToWrite, SizeMin, Cursor, Index
<1>2. \A k \in 1 .. Len(buff) : buff[k] \in Byte
  OBVIOUS
<1>3. CASE n <= size_1
  <2>1. f = MemCpy(d, w, buff, 1, n)
    BY <1>3 DEF Filled
  <2>2. f = [i \in Index |-> IF w <= i /\ i < w + n THEN buff[1 + (i - w)] ELSE d[i]]
    BY <2>1 DEF MemCpy
  <2>3. f \in [Index -> Byte]
    <3> SUFFICES ASSUME NEW i \in Index
                 PROVE  (IF w <= i /\ i < w + n THEN buff[1 + (i - w)] ELSE d[i]) \in Byte
      BY <2>2
    <3> QED
      BY <1>1, <1>2 DEF Index
  <2>4. ASSUME NEW j \in 0 .. (Cap - 1)
        PROVE  f[Wrap(w + j)] = IF j < n THEN buff[j + 1] ELSE d[Wrap(w + j)]
    <3>1. Wrap(w + j) \in Index
      BY <1>1 DEF Wrap, Index
    <3>2. CASE j < n
      <4>1. Wrap(w + j) = w + j
        BY <1>1, <1>3, <3>2 DEF Wrap
      <4> QED
        BY <2>2, <3>1, <3>2, <4>1, <1>1
    <3>3. CASE j >= n
      <4>1. ~(w <= Wrap(w + j) /\ Wrap(w + j) < w + n)
        BY <1>1, <3>3 DEF Wrap
      <4> QED
        BY <2>2, <3>1, <3>3, <4>1, <1>1
    <3> QED
      BY <3>2, <3>3, <1>1
  <2> QED
    BY <2>3, <2>4
<1>4. CASE ~(n <= size_1)
  <2> DEFINE g == MemCpy(d, w, buff, 1, size_1)
  <2>1. f = MemCpy(g, 0, buff, 1 + size_1, n - size_1)
    BY <1>4 DEF Filled
  <2>2. g = [i \in Index |-> IF w <= i /\ i < w + size_1 THEN buff[1 + (i - w)] ELSE d[i]]
    BY DEF MemCpy
  <2>3. f = [i \in Index |-> IF 0 <= i /\ i < 0 + (n - size_1)
                             THEN buff[1 + size_1 + (i - 0)] ELSE g[i]]
    BY <2>1 DEF MemCpy
  <2> HIDE DEF f, g
  <2>4. g \in [Index -> Byte]
    <3> SUFFICES ASSUME NEW i \in Index
                 PROVE  (IF w <= i /\ i < w + size_1 THEN buff[1 + (i - w)] ELSE d[i]) \in Byte
      BY <2>2
    <3> QED
      BY <1>1, <1>2, <1>4 DEF Index
  <2>5. f \in [Index -> Byte]
    <3> SUFFICES ASSUME NEW i \in Index
                 PROVE  (IF 0 <= i /\ i < 0 + (n - size_1)
                         THEN buff[1 + size_1 + (i - 0)] ELSE g[i]) \in Byte
      BY <2>3
    <3> QED
      BY <1>1, <1>2, <1>4, <2>4 DEF Index
  <2>6. ASSUME NEW j \in 0 .. (Cap - 1)
        PROVE  f[Wrap(w + j)] = IF j < n THEN buff[j + 1] ELSE d[Wrap(w + j)]
    <3>1. Wrap(w + j) \in Index
      BY <1>1 DEF Wrap, Index
    <3>2. CASE j < size_1
      <4>1. Wrap(w + j) = w + j /\ w + j < Cap /\ ~(w + j < n - size_1)
        BY <1>1, <3>2 DEF Wrap
      <4>2. f[w + j] = g[w + j]
        BY <2>3, <3>1, <4>1, <1>1
      <4>3. g[w + j] = buff[j + 1]
        BY <2>2, <3>1, <4>1, <1>1
      <4> QED
        BY <4>1, <4>2, <4>3, <1>1, <1>4, <3>2
    <3>3. CASE j >= size_1 /\ j < n
      <4>1. Wrap(w + j) = j - size_1 /\ j - size_1 < n - size_1 /\ j - size_1 >= 0
        BY <1>1, <3>3 DEF Wrap
      <4>2. f[j - size_1] = buff[1 + size_1 + ((j - size_1) - 0)]
        BY <2>3, <3>1, <4>1, <1>1
      <4>3. 1 + size_1 + ((j - size_1) - 0) = j + 1
        BY <1>1
      <4> QED
        BY <4>1, <4>2, <4>3, <3>3
    <3>4. CASE j >= n
      <4>1. Wrap(w + j) = j - size_1 /\ ~(j - size_1 < n - size_1) /\ j - size_1 < w
        BY <1>1, <1>4, <3>4 DEF Wrap
      <4>2. f[j - size_1] = g[j - size_1]
        BY <2>3, <3>1, <4>1, <1>1
      <4>3. g[j - size_1] = d[j - size_1]
        BY <2>2, <3>1, <4>1, <1>1
      <4> QED
        BY <4>1, <4>2, <4>3, <3>4, <1>1
    <3> QED
      BY <3>2, <3>3, <3>4, <1>1, <1>4
  <2> QED
    BY <2>5, <2>6 DEF f
<1> QED
  BY <1>3, <1>4

(***************************************************************************)
(* The description of the stream survives consuming and accepting bytes.   *)
(***************************************************************************)
LEMMA ConsumeDescribes ==
  ASSUME NEW d, NEW s \in Seq(Byte), NEW c \in Cursor, Describes(c, d, s),
         NEW n \in 0 .. c.unread
  PROVE  Describes([c EXCEPT !.read_pos = Wrap(c.read_pos + n),
                             !.num_read = @ + n,
                             !.unread   = @ - n], d, s)
<1> DEFINE e == [c EXCEPT !.read_pos = Wrap(c.read_pos + n),
                          !.num_read = @ + n,
                          !.unread   = @ - n]
<1>1. /\ e.read_pos = Wrap(c.read_pos + n) /\ e.num_read = c.num_read + n
      /\ e.unread = c.unread - n /\ e.write_pos = c.write_pos
  BY DEF Cursor
<1>2. c.read_pos \in Index /\ c.unread \in Nat /\ c.unread <= Cap /\ n \in Nat
      /\ c.num_read \in Nat /\ n <= c.unread
  BY DEF Describes, Cursor
<1>3. e.read_pos \in Index
  BY <1>1, <1>2 DEF Wrap, Index
<1>4. e.write_pos = Wrap(e.read_pos + e.unread)
  <2>1. Wrap(Wrap(c.read_pos + n) + (c.unread - n)) = Wrap(c.read_pos + (n + (c.unread - n)))
    BY <1>2, WrapPlus
  <2> QED
    BY <1>1, <1>2, <2>1 DEF Describes
<1>5. ASSUME NEW i \in 0 .. (e.unread - 1)
      PROVE  d[Wrap(e.read_pos + i)] = s[e.num_read + i + 1]
  <2>1. n + i \in 0 .. (c.unread - 1) /\ i \in Nat /\ n + i <= Cap
    BY <1>1, <1>2
  <2>2. Wrap(Wrap(c.read_pos + n) + i) = Wrap(c.read_pos + (n + i))
    BY <1>2, <2>1, WrapPlus
  <2>3. d[Wrap(c.read_pos + (n + i))] = s[c.num_read + (n + i) + 1]
    BY <2>1 DEF Describes
  <2>4. c.num_read + (n + i) + 1 = e.num_read + i + 1
    BY <1>1, <1>2, <2>1
  <2> QED
    BY <1>1, <2>2, <2>3, <2>4
<1>6. e.unread <= Cap /\ e.num_read + e.unread = Len(s)
  BY <1>1, <1>2 DEF Describes, Total
<1> QED
  BY <1>3, <1>4, <1>5, <1>6 DEF Describes, Total

LEMMA PopulateDescribes ==
  ASSUME NEW d \in [Index -> Byte], NEW s \in Seq(Byte), NEW c \in Cursor,
         Describes(c, d, s), c.write_pos \in Index, NEW buff \in Seq(Byte)
  PROVE  Describes(AfterPopulate(c, buff), Filled(d, c, buff),
                   s \o SubSeq(buff, 1, ToWrite(c, Len(buff))))
<1> DEFINE n == ToWrite(c, Len(buff))
           e == AfterPopulate(c, buff)
           f == Filled(d, c, buff)
           t == s \o SubSeq(buff, 1, n)
           r == c.read_pos
           u == c.unread
<1>1. /\ r \in Index /\ u \in 0 .. Cap /\ c.num_read \in Nat
      /\ c.num_read + u = Len(s) /\ c.write_pos = Wrap(r + u)
      /\ n \in Nat /\ n <= Len(buff) /\ n <= Cap - u
  BY DEF Describes, Total, Cursor, ToWrite, SizeMin
<1>2. /\ e.read_pos = r /\ e.num_read = c.num_read /\ e.unread = u + n
      /\ e.write_pos = Advance(c.write_pos, n)
  BY DEF AfterPopulate, Cursor
<1>3. /\ SubSeq(buff, 1, n) \in Seq(Byte) /\ Len(SubSeq(buff, 1, n)) = n
      /\ \A i \in 1 .. n : SubSeq(buff, 1, n)[i] = buff[i]
  BY <1>1
<1>4. /\ Len(t) = Len(s) + n
      /\ \A i \in 1 .. Len(s) : t[i] = s[i]
      /\ \A i \in 1 .. n : t[Len(s) + i] = buff[i]
  BY <1>1, <1>3
<1>5. e.write_pos = Wrap(e.read_pos + e.unread)
  <2>1. Advance(c.write_pos, n) = Wrap(Wrap(r + u) + n)
    BY <1>1, AdvanceIsWrap
  <2>2. Wrap(Wrap(r + u) + n) = Wrap(r + (u + n))
    BY <1>1, WrapPlus
  <2> QED
    BY <1>2, <2>1, <2>2
<1>6. \A j \in 0 .. (Cap - 1) :
        f[Wrap(c.write_pos + j)] = IF j < n THEN buff[j + 1] ELSE d[Wrap(c.write_pos + j)]
  BY <1>1, FilledBytes
<1> HIDE DEF n, e, f, t
<1>7. ASSUME NEW i \in 0 .. (e.unread - 1)
      PROVE  f[Wrap(e.read_pos + i)] = t[e.num_read + i + 1]
  <2>1. CASE i < u
    <3>1. Cap - u + i \in 0 .. (Cap - 1) /\ ~(Cap - u + i < n) /\ i \in 0 .. (u - 1)
      BY <1>1, <2>1
    <3>2. Wrap(c.write_pos + (Cap - u + i)) = Wrap(r + i)
      BY <1>1, <3>1, WrapAround
    <3>3. f[Wrap(r + i)] = d[Wrap(r + i)]
      BY <1>6, <3>1, <3>2
    <3>4. d[Wrap(r + i)] = s[c.num_read + i + 1]
      BY <3>1 DEF Describes
    <3>5. c.num_read + i + 1 \in 1 .. Len(s)
      BY <1>1, <3>1
    <3> QED
      BY <1>2, <1>4, <3>3, <3>4, <3>5
  <2>2. CASE i >= u
    <3>1. i - u \in 0 .. (Cap - 1) /\ i - u < n /\ i - u + 1 \in 1 .. n /\ u + (i - u) = i
      BY <1>1, <1>2, <2>2
    <3>2. Wrap(c.write_pos + (i - u)) = Wrap(r + i)
      <4>1. r \in Index /\ u \in Nat /\ i - u \in Nat /\ u + (i - u) <= Cap
        BY <1>1, <3>1
      <4>2. Wrap(Wrap(r + u) + (i - u)) = Wrap(r + (u + (i - u)))
        <5> HIDE DEF r, u
        <5> QED
          BY <4>1, WrapPlus
      <4> QED
        BY <1>1, <3>1, <4>2
    <3>3. f[Wrap(r + i)] = buff[i - u + 1]
      BY <1>6, <3>1, <3>2
    <3>4. t[Len(s) + (i - u + 1)] = buff[i - u + 1]
      BY <1>4, <3>1
    <3>5. Len(s) + (i - u + 1) = c.num_read + i + 1
      <4>1. i \in Int /\ u \in Int /\ c.num_read \in Int /\ Len(s) = c.num_read + u
        BY <1>1, <1>2
      <4> QED
        BY <4>1
    <3> QED
      BY <1>2, <3>3, <3>4, <3>5
  <2>3. i < u \/ i >= u
    BY <1>1, <1>2
  <2> QED
    BY <2>1, <2>2, <2>3
<1>8. e.read_pos \in Index /\ e.unread <= Cap /\ e.num_read + e.unread = Len(t)
  <2>1. u \in Int /\ n \in Int /\ c.num_read \in Int /\ Len(s) = c.num_read + u
        /\ n <= Cap - u
    BY <1>1
  <2>2. c.num_read + (u + n) = Len(s) + n /\ u + n <= Cap
    BY <2>1
  <2> QED
    BY <1>1, <1>2, <1>4, <2>2
<1> QED
  BY <1>5, <1>7, <1>8 DEF Describes, Total, n, e, f, t

(***************************************************************************)
(* Small facts about the invariant and the operators.                      *)
(***************************************************************************)
\* The write position of a cursor that describes the stream is in the storage.
LEMMA DescribesIndex ==
  ASSUME NEW c \in Cursor, NEW d, NEW s, Describes(c, d, s)
  PROVE  c.write_pos \in Index /\ c.unread \in 0 .. Cap
BY AdvanceIsWrap DEF Describes, Cursor, Wrap, Index

\* readNext moves the cursor by one byte.
LEMMA AfterNextIsConsume ==
  ASSUME NEW c \in Cursor, c.read_pos \in Index, c.unread # 0
  PROVE  /\ AfterNext(c) \in Cursor
         /\ AfterNext(c) = [c EXCEPT !.read_pos = Wrap(c.read_pos + 1),
                                     !.num_read = @ + 1,
                                     !.unread   = @ - 1]
<1>1. Wrap(c.read_pos + 1) = (IF c.read_pos + 1 = Cap THEN 0 ELSE c.read_pos + 1)
  BY DEF Wrap, Index
<1>2. Wrap(c.read_pos + 1) \in Nat /\ c.num_read + 1 \in Nat /\ c.unread - 1 \in Nat
  BY <1>1 DEF Index, Cursor
<1>3. AfterNext(c) = [c EXCEPT !.read_pos = Wrap(c.read_pos + 1),
                               !.num_read = c.num_read + 1,
                               !.unread   = c.unread - 1]
  BY <1>1 DEF AfterNext
<1>4. [c EXCEPT !.read_pos = Wrap(c.read_pos + 1),
                !.num_read = c.num_read + 1,
                !.unread   = c.unread - 1] \in Cursor
  BY <1>2 DEF Cursor
<1> QED
  BY <1>3, <1>4

\* extractString moves the cursor by the bytes it returns.
LEMMA AfterExtractIsConsume ==
  ASSUME NEW c \in Cursor, c.read_pos \in Index, c.unread <= Cap, NEW length \in Nat
  PROVE  /\ AfterExtract(c, length) \in Cursor
         /\ ToRead(c, length) \in 0 .. c.unread
         /\ AfterExtract(c, length) =
              [c EXCEPT !.read_pos = Wrap(c.read_pos + ToRead(c, length)),
                        !.num_read = @ + ToRead(c, length),
                        !.unread   = @ - ToRead(c, length)]
<1> DEFINE n == ToRead(c, length)
<1>1. n \in 0 .. c.unread /\ n \in 0 .. Cap
  BY DEF ToRead, SizeMin, Cursor
<1>2. AfterExtract(c, length) =
        [c EXCEPT !.read_pos = Advance(c.read_pos, n),
                  !.num_read = c.num_read + n,
                  !.unread   = c.unread - n]
  BY DEF AfterExtract
<1> HIDE DEF n
<1>3. Advance(c.read_pos, n) = Wrap(c.read_pos + n) /\ Wrap(c.read_pos + n) \in Index
  BY <1>1, AdvanceIsWrap
<1>4. Wrap(c.read_pos + n) \in Nat /\ c.num_read + n \in Nat /\ c.unread - n \in Nat
  BY <1>1, <1>3 DEF Index, Cursor
<1>5. [c EXCEPT !.read_pos = Wrap(c.read_pos + n),
                !.num_read = c.num_read + n,
                !.unread   = c.unread - n] \in Cursor
  BY <1>4 DEF Cursor
<1> QED
  BY <1>1, <1>2, <1>3, <1>5 DEF n

\* populate moves the write position and keeps the cursor well typed.
LEMMA AfterPopulateType ==
  ASSUME NEW c \in Cursor, c.write_pos \in Index, c.unread <= Cap, NEW buff \in Seq(Byte)
  PROVE  /\ AfterPopulate(c, buff) \in Cursor
         /\ AfterPopulate(c, buff).write_pos \in Index
         /\ AfterPopulate(c, buff).num_read = c.num_read
         /\ AfterPopulate(c, buff).unread = c.unread + ToWrite(c, Len(buff))
         /\ ToWrite(c, Len(buff)) \in 0 .. Cap
         /\ ToWrite(c, Len(buff)) <= Len(buff)
<1> DEFINE n == ToWrite(c, Len(buff))
<1>1. n \in 0 .. Cap /\ n <= Len(buff)
  BY DEF ToWrite, SizeMin, Cursor
<1>2. AfterPopulate(c, buff) =
        [c EXCEPT !.write_pos = Advance(c.write_pos, n), !.unread = c.unread + n]
  BY DEF AfterPopulate
<1> HIDE DEF n
<1>3. Advance(c.write_pos, n) \in Index
  BY <1>1, AdvanceIsWrap
<1>4. Advance(c.write_pos, n) \in Nat /\ c.unread + n \in Nat
  BY <1>1, <1>3 DEF Index, Cursor
<1>5. [c EXCEPT !.write_pos = Advance(c.write_pos, n),
                !.unread = c.unread + n] \in Cursor
  BY <1>4 DEF Cursor
<1> QED
  BY <1>1, <1>2, <1>3, <1>5 DEF n, Cursor

\* A call that accepts nothing changes nothing.
LEMMA PopulateNothing ==
  ASSUME NEW d \in [Index -> Byte], NEW c \in Cursor, NEW buff \in Seq(Byte),
         NEW s \in Seq(Byte), c.write_pos \in Index, ToWrite(c, Len(buff)) = 0
  PROVE  /\ Filled(d, c, buff) = d
         /\ AfterPopulate(c, buff) = c
         /\ s \o SubSeq(buff, 1, ToWrite(c, Len(buff))) = s
<1>1. 0 <= Cap - c.write_pos /\ Cap - c.write_pos # 0
  BY DEF Index
<1>2. Filled(d, c, buff) = MemCpy(d, c.write_pos, buff, 1, 0)
  BY <1>1 DEF Filled
<1>3. MemCpy(d, c.write_pos, buff, 1, 0) = d
  BY DEF MemCpy, Index
<1>4. Advance(c.write_pos, 0) = c.write_pos /\ c.unread + 0 = c.unread
  BY <1>1 DEF Advance, Index, Cursor
<1>5. AfterPopulate(c, buff) = [c EXCEPT !.write_pos = c.write_pos, !.unread = c.unread]
  BY <1>4 DEF AfterPopulate
<1>6. [c EXCEPT !.write_pos = c.write_pos, !.unread = c.unread] = c
  BY DEF Cursor
<1>7. s \o SubSeq(buff, 1, 0) = s
  OBVIOUS
<1> QED
  BY <1>2, <1>3, <1>5, <1>6, <1>7

(***************************************************************************)
(* The invariant holds initially and every call preserves it.              *)
(***************************************************************************)
LEMMA InitInv == Init => Inv
<1> SUFFICES ASSUME Init PROVE Inv
  OBVIOUS
<1>1. TypeOK
  BY DEF Init, TypeOK, Cursor, EmptyCursor, Index
<1>2. WindowIntact
  BY DEF Init, WindowIntact, Describes, Total, EmptyCursor, Index, Wrap
<1>3. RollbacksIntact
  BY DEF Init, RollbacksIntact
<1> QED
  BY <1>1, <1>2, <1>3 DEF Inv

\* Rollback records stay intact in a step that keeps the storage, the stream
\* and the number of bytes accepted, and adds no record.
LEMMA KeepRollbacks ==
  ASSUME Inv, data' = data, stream' = stream,
         Total(cur') = Len(stream),
         NEW k \in 0 .. Len(rollbacks),
         rollbacks' = SubSeq(rollbacks, 1, k)
  PROVE  rollbacks' \in Seq(Cursor) /\ RollbacksIntact'
<1>1. rollbacks \in Seq(Cursor) /\ Total(cur) = Len(stream)
  BY DEF Inv, TypeOK, WindowIntact, Describes
<1>2. /\ rollbacks' \in Seq(Cursor) /\ Len(rollbacks') = k
      /\ \A i \in 1 .. k : rollbacks'[i] = rollbacks[i]
  BY <1>1
<1>3. ASSUME NEW i \in 1 .. Len(rollbacks')
      PROVE  /\ Total(rollbacks'[i]) <= Len(stream')
             /\ Total(rollbacks'[i]) = Total(cur') =>
                  Describes(rollbacks'[i], data', stream')
  <2>1. i \in 1 .. Len(rollbacks) /\ rollbacks'[i] = rollbacks[i]
    BY <1>2
  <2>2. /\ Total(rollbacks[i]) <= Len(stream)
        /\ Total(rollbacks[i]) = Total(cur) => Describes(rollbacks[i], data, stream)
    BY <2>1 DEF Inv, RollbacksIntact
  <2> QED
    BY <1>1, <2>1, <2>2
<1> QED
  BY <1>2, <1>3 DEF RollbacksIntact

LEMMA PopulateInv ==
  ASSUME Inv, NEW buff \in Seq(Byte), Populate(buff)
  PROVE  Inv'
<1> DEFINE n == ToWrite(cur, Len(buff))
<1>1. /\ data \in [Index -> Byte] /\ cur \in Cursor /\ stream \in Seq(Byte)
      /\ cur.read_pos \in Index /\ cur.write_pos \in Index /\ cur.unread <= Cap
      /\ rollbacks \in Seq(Cursor) /\ Describes(cur, data, stream)
  BY DEF Inv, TypeOK, WindowIntact, Describes
<1>2. /\ data' = Filled(data, cur, buff) /\ cur' = AfterPopulate(cur, buff)
      /\ stream' = stream \o SubSeq(buff, 1, n) /\ out' = <<>> /\ rollbacks' = rollbacks
  BY DEF Populate
<1>3. /\ cur' \in Cursor /\ cur'.write_pos \in Index
      /\ n \in 0 .. Cap /\ n <= Len(buff)
      /\ cur'.num_read = cur.num_read /\ cur'.unread = cur.unread + n
  BY <1>1, <1>2, AfterPopulateType
<1>4. Describes(cur', data', stream')
  BY <1>1, <1>2, PopulateDescribes
<1>5. stream' \in Seq(Byte) /\ Len(stream') = Len(stream) + n
  BY <1>1, <1>2, <1>3
<1>6. TypeOK'
  <2>1. data' \in [Index -> Byte]
    BY <1>1, <1>2, FilledBytes
  <2>2. cur'.read_pos \in Index
    BY <1>4 DEF Describes
  <2> QED
    BY <1>1, <1>2, <1>3, <1>5, <2>1, <2>2 DEF TypeOK
<1>7. RollbacksIntact'
  <2>1. ASSUME NEW k \in 1 .. Len(rollbacks')
        PROVE  /\ Total(rollbacks'[k]) <= Len(stream')
               /\ Total(rollbacks'[k]) = Total(cur') =>
                    Describes(rollbacks'[k], data', stream')
    <3>1. /\ k \in 1 .. Len(rollbacks) /\ rollbacks'[k] = rollbacks[k]
          /\ Total(rollbacks[k]) \in Nat
      <4>1. k \in 1 .. Len(rollbacks) /\ rollbacks'[k] = rollbacks[k]
        BY <1>2
      <4>2. rollbacks[k] \in Cursor
        BY <1>1, <4>1
      <4> QED
        BY <4>1, <4>2 DEF Cursor, Total
    <3>2. /\ Total(rollbacks[k]) <= Len(stream)
          /\ Total(rollbacks[k]) = Total(cur) => Describes(rollbacks[k], data, stream)
      BY <3>1 DEF Inv, RollbacksIntact
    <3>3. CASE n = 0
      <4>1. data' = data /\ cur' = cur /\ stream' = stream
        BY <1>1, <1>2, <3>3, PopulateNothing
      <4> QED
        BY <3>1, <3>2, <4>1
    <3>4. CASE n > 0
      <4>1. Total(cur') = Len(stream')
        BY <1>4 DEF Describes
      <4>2. Len(stream) \in Nat /\ Len(stream) < Len(stream')
        BY <1>1, <1>3, <1>5, <3>4
      <4> QED
        BY <3>1, <3>2, <4>1, <4>2
    <3> QED
      BY <1>3, <3>3, <3>4
  <2> QED
    BY <2>1 DEF RollbacksIntact
<1> QED
  BY <1>4, <1>6, <1>7 DEF Inv, WindowIntact

\* Reading: any step that consumes k bytes and keeps storage, records and stream.
LEMMA ConsumeInv ==
  ASSUME Inv, NEW k \in 0 .. cur.unread,
         cur' \in Cursor,
         cur' = [cur EXCEPT !.read_pos = Wrap(cur.read_pos + k),
                            !.num_read = @ + k, !.unread = @ - k],
         out' \in Seq(Byte), UNCHANGED <<data, rollbacks, stream>>
  PROVE  Inv'
<1>1. cur \in Cursor /\ stream \in Seq(Byte) /\ Describes(cur, data, stream)
      /\ rollbacks \in Seq(Cursor)
  BY DEF Inv, TypeOK, WindowIntact
<1>2. Describes(cur', data', stream')
  BY <1>1, ConsumeDescribes
<1>3. cur'.read_pos \in Index /\ cur'.write_pos \in Index /\ Total(cur') = Len(stream)
  <2>1. cur'.write_pos \in Index
    BY <1>2, DescribesIndex
  <2> QED
    BY <1>2, <2>1 DEF Describes
<1>4. TypeOK'
  BY <1>1, <1>3 DEF Inv, TypeOK
<1>5. RollbacksIntact'
  <2>1. rollbacks' = SubSeq(rollbacks, 1, Len(rollbacks)) /\ Len(rollbacks) \in 0 .. Len(rollbacks)
    BY <1>1
  <2> QED
    BY <1>3, <2>1, KeepRollbacks
<1> QED
  BY <1>2, <1>4, <1>5 DEF Inv, WindowIntact

LEMMA ReadNextInv == Inv /\ ReadNext => Inv'
<1> SUFFICES ASSUME Inv, ReadNext PROVE Inv'
  OBVIOUS
<1>1. /\ data \in [Index -> Byte] /\ cur \in Cursor /\ cur.read_pos \in Index
      /\ cur.unread \in Nat
  BY DEF Inv, TypeOK, Cursor
<1>2. UNCHANGED <<data, rollbacks, stream>>
  BY DEF ReadNext
<1>3. CASE cur.unread = 0
  <2>1. out' = <<>> /\ cur' = cur
    BY <1>3 DEF ReadNext
  <2> QED
    BY <1>2, <2>1 DEF Inv, TypeOK, WindowIntact, RollbacksIntact
<1>4. CASE cur.unread # 0
  <2>1. out' = <<data[cur.read_pos]>> /\ cur' = AfterNext(cur)
    BY <1>4 DEF ReadNext, NextByte
  <2>2. out' \in Seq(Byte)
    BY <1>1, <2>1
  <2>3. cur' \in Cursor /\ cur' = [cur EXCEPT !.read_pos = Wrap(cur.read_pos + 1),
                                             !.num_read = @ + 1, !.unread = @ - 1]
    BY <1>1, <1>4, <2>1, AfterNextIsConsume
  <2>4. 1 \in 0 .. cur.unread
    BY <1>1, <1>4
  <2> QED
    BY <1>2, <2>2, <2>3, <2>4, ConsumeInv
<1> QED
  BY <1>3, <1>4

LEMMA ExtractStringInv ==
  ASSUME Inv, NEW length \in Nat, ExtractString(length)
  PROVE  Inv'
<1>1. /\ data \in [Index -> Byte] /\ cur \in Cursor /\ cur.read_pos \in Index
      /\ cur.unread <= Cap
  BY DEF Inv, TypeOK, WindowIntact, Describes
<1>2. /\ out' = Extracted(data, cur, length) /\ cur' = AfterExtract(cur, length)
      /\ UNCHANGED <<data, rollbacks, stream>>
  BY DEF ExtractString
<1>3. out' \in Seq(Byte)
  BY <1>1, <1>2, ExtractedBytes
<1>4. /\ cur' \in Cursor /\ ToRead(cur, length) \in 0 .. cur.unread
      /\ cur' = [cur EXCEPT !.read_pos = Wrap(cur.read_pos + ToRead(cur, length)),
                            !.num_read = @ + ToRead(cur, length),
                            !.unread   = @ - ToRead(cur, length)]
  BY <1>1, <1>2, AfterExtractIsConsume
<1> QED
  BY <1>2, <1>3, <1>4, ConsumeInv

LEMMA SaveRollbackInv == Inv /\ SaveRollback => Inv'
<1> SUFFICES ASSUME Inv, SaveRollback PROVE Inv'
  OBVIOUS
<1>1. /\ rollbacks' = Append(rollbacks, cur) /\ out' = <<>>
      /\ UNCHANGED <<data, cur, stream>>
  BY DEF SaveRollback
<1>2. /\ rollbacks \in Seq(Cursor) /\ cur \in Cursor /\ stream \in Seq(Byte)
      /\ Describes(cur, data, stream) /\ Total(cur) = Len(stream)
  BY DEF Inv, TypeOK, WindowIntact, Describes
<1>3. TypeOK'
  BY <1>1, <1>2 DEF Inv, TypeOK
<1>4. RollbacksIntact'
  <2>1. ASSUME NEW k \in 1 .. Len(rollbacks')
        PROVE  /\ Total(rollbacks'[k]) <= Len(stream')
               /\ Total(rollbacks'[k]) = Total(cur') =>
                    Describes(rollbacks'[k], data', stream')
    <3>1. CASE k \in 1 .. Len(rollbacks)
      <4>1. rollbacks'[k] = rollbacks[k]
        BY <1>1, <1>2, <3>1
      <4> QED
        BY <1>1, <3>1, <4>1 DEF Inv, RollbacksIntact
    <3>2. CASE k = Len(rollbacks) + 1
      <4>1. rollbacks'[k] = cur
        BY <1>1, <1>2, <3>2
      <4>2. Len(stream) \in Nat
        BY <1>2
      <4> QED
        BY <1>1, <1>2, <4>1, <4>2
    <3>3. k \in 1 .. Len(rollbacks) \/ k = Len(rollbacks) + 1
      BY <1>1, <1>2
    <3> QED
      BY <3>1, <3>2, <3>3
  <2> QED
    BY <2>1 DEF RollbacksIntact
<1> QED
  BY <1>1, <1>3, <1>4 DEF Inv, WindowIntact

\* The calls that drop records and leave the counters alone.
LEMMA DropInv ==
  ASSUME Inv, NEW k \in 0 .. Len(rollbacks), rollbacks' = SubSeq(rollbacks, 1, k),
         out' = <<>>, UNCHANGED <<data, cur, stream>>
  PROVE  Inv'
<1>1. cur \in Cursor /\ Total(cur) = Len(stream)
  BY DEF Inv, TypeOK, WindowIntact, Describes
<1>2. rollbacks' \in Seq(Cursor) /\ RollbacksIntact'
  BY <1>1, KeepRollbacks
<1> QED
  BY <1>2 DEF Inv, TypeOK, WindowIntact

LEMMA LoadRollbackInv == Inv /\ LoadRollback => Inv'
<1> SUFFICES ASSUME Inv, LoadRollback PROVE Inv'
  OBVIOUS
<1> DEFINE top == Len(rollbacks)
<1>1. /\ rollbacks # <<>> /\ Total(rollbacks[top]) = Total(cur)
      /\ cur' = rollbacks[top] /\ rollbacks' = SubSeq(rollbacks, 1, top - 1)
      /\ out' = <<>> /\ UNCHANGED <<data, stream>>
  BY DEF LoadRollback, Top, Pop
<1>2. rollbacks \in Seq(Cursor) /\ Total(cur) = Len(stream)
  BY DEF Inv, TypeOK, WindowIntact, Describes
<1>3. top \in 1 .. Len(rollbacks) /\ top - 1 \in 0 .. Len(rollbacks)
  BY <1>1, <1>2
<1>4. cur' \in Cursor /\ Describes(cur', data', stream') /\ Total(cur') = Len(stream)
  BY <1>1, <1>2, <1>3 DEF Inv, RollbacksIntact
<1>5. cur'.write_pos \in Index /\ cur'.read_pos \in Index
  BY <1>4, DescribesIndex DEF Describes
<1>6. rollbacks' \in Seq(Cursor) /\ RollbacksIntact'
  BY <1>1, <1>3, <1>4, KeepRollbacks
<1>7. TypeOK'
  BY <1>1, <1>4, <1>5, <1>6 DEF Inv, TypeOK
<1> QED
  BY <1>4, <1>6, <1>7 DEF Inv, WindowIntact

LEMMA NextInv == Inv /\ [Next]_vars => Inv'
<1> SUFFICES ASSUME Inv, [Next]_vars PROVE Inv'
  OBVIOUS
<1>0. rollbacks \in Seq(Cursor)
  BY DEF Inv, TypeOK
<1>1. ASSUME NEW n \in 0 .. MaxChunk, NEW buff \in [1 .. n -> Byte], Populate(buff)
      PROVE  Inv'
  <2>1. n \in Nat
    BY BoundsAssumption
  <2>2. buff \in Seq(Byte)
    BY <2>1
  <2> QED
    BY <1>1, <2>2, PopulateInv
<1>2. CASE ReadNext
  BY <1>2, ReadNextInv
<1>3. ASSUME NEW length \in 0 .. MaxChunk, ExtractString(length)
      PROVE  Inv'
  <2>1. length \in Nat
    BY BoundsAssumption
  <2> QED
    BY <1>3, <2>1, ExtractStringInv
<1>4. CASE SaveRollback
  BY <1>4, SaveRollbackInv
<1>5. CASE SaveOverRollback
  <2>1. rollbacks' = SubSeq(rollbacks, 1, Len(rollbacks)) /\ Len(rollbacks) \in 0 .. Len(rollbacks)
    BY <1>0, <1>5 DEF SaveOverRollback
  <2> QED
    BY <1>5, <2>1, DropInv DEF SaveOverRollback
<1>6. CASE LoadRollback
  BY <1>6, LoadRollbackInv
<1>7. CASE RemoveRollback
  <2>1. Len(rollbacks) - 1 \in 0 .. Len(rollbacks)
    BY <1>0, <1>7 DEF RemoveRollback
  <2> QED
    BY <1>7, <2>1, DropInv DEF RemoveRollback, Pop
<1>8. CASE ClearRollback
  <2>1. rollbacks' = SubSeq(rollbacks, 1, 0) /\ 0 \in 0 .. Len(rollbacks)
    BY <1>0, <1>8 DEF ClearRollback
  <2> QED
    BY <1>8, <2>1, DropInv DEF ClearRollback
<1>9. CASE UNCHANGED vars
  BY <1>9 DEF vars, Inv, TypeOK, WindowIntact, RollbacksIntact
<1> QED
  BY <1>1, <1>2, <1>3, <1>4, <1>5, <1>6, <1>7, <1>8, <1>9 DEF Next

(***************************************************************************)
(* For every capacity: positions stay inside data_ through every wrap.     *)
(***************************************************************************)
THEOREM RingTypeCorrect == Spec => []TypeOK
<1>1. Inv => TypeOK
  BY DEF Inv
<1> QED
  BY <1>1, InitInv, NextInv, PTL DEF Spec

(***************************************************************************)
(* For every capacity: the unread window is the unconsumed stream, so no   *)
(* interleaving of populate, readNext, extractString and rollbacks loses,  *)
(* repeats or overwrites an unread byte.                                   *)
(***************************************************************************)
THEOREM RingWindowIntact == Spec => []WindowIntact
<1>1. Inv => WindowIntact
  BY DEF Inv
<1> QED
  BY <1>1, InitInv, NextInv, PTL DEF Spec

(***************************************************************************)
(* For every capacity: what was read since a rollback record was saved can *)
(* be read again from the record, as long as nothing was populated.        *)
(***************************************************************************)
THEOREM RingRollbacksIntact == Spec => []RollbacksIntact
<1>1. Inv => RollbacksIntact
  BY DEF Inv
<1> QED
  BY <1>1, InitInv, NextInv, PTL DEF Spec

(***************************************************************************)
(* The ring implements the bounded byte stream.                            *)
(***************************************************************************)
Marks == [k \in 1 .. Len(rollbacks) |->
            [pos |-> rollbacks[k].num_read, end |-> Total(rollbacks[k])]]

\* Cutting the stack of records cuts the stack of marks.
LEMMA MarksCut ==
  ASSUME NEW r \in Seq(Cursor), NEW k \in 0 .. Len(r)
  PROVE  [j \in 1 .. Len(SubSeq(r, 1, k)) |->
            [pos |-> SubSeq(r, 1, k)[j].num_read, end |-> Total(SubSeq(r, 1, k)[j])]]
         = SubSeq([j \in 1 .. Len(r) |->
                     [pos |-> r[j].num_read, end |-> Total(r[j])]], 1, k)
<1> DEFINE M(q) == [j \in 1 .. Len(q) |-> [pos |-> q[j].num_read, end |-> Total(q[j])]]
           t == SubSeq(r, 1, k)
<1>1. Len(t) = k /\ \A j \in 1 .. k : t[j] = r[j]
  OBVIOUS
<1>2. k \in Nat /\ k <= Len(r) /\ Len(r) \in Nat
  OBVIOUS
<1>3. M(r) \in Seq([pos : Nat, end : Nat]) /\ Len(M(r)) = Len(r)
  <2>1. \A j \in 1 .. Len(r) : [pos |-> r[j].num_read, end |-> Total(r[j])] \in [pos : Nat, end : Nat]
    <3> SUFFICES ASSUME NEW j \in 1 .. Len(r)
                 PROVE  r[j].num_read \in Nat /\ Total(r[j]) \in Nat
      OBVIOUS
    <3>1. r[j] \in Cursor
      OBVIOUS
    <3> QED
      BY <3>1 DEF Cursor, Total
  <2> QED
    BY <2>1, <1>2
<1>4. SubSeq(M(r), 1, k) = [j \in 1 .. k |-> M(r)[j]]
  BY <1>2, <1>3
<1>5. \A j \in 1 .. k : M(r)[j] = [pos |-> r[j].num_read, end |-> Total(r[j])]
  BY <1>2
<1>6. M(t) = [j \in 1 .. k |-> [pos |-> r[j].num_read, end |-> Total(r[j])]]
  BY <1>1
<1> QED
  BY <1>4, <1>5, <1>6

\* Initial states map to initial states.
LEMMA RefineInit == Init => BS!Init
BY DEF Init, BS!Init, EmptyCursor

\* A sequence that agrees with a stretch of another is that stretch.
LEMMA Stretch ==
  ASSUME NEW s \in Seq(Byte), NEW a \in Nat, NEW n \in Nat, a + n <= Len(s),
         NEW t \in Seq(Byte), Len(t) = n, \A i \in 1 .. n : t[i] = s[a + i]
  PROVE  t = SubSeq(s, a + 1, a + n)
<1> DEFINE c == SubSeq(s, a + 1, a + n)
<1>1. c \in Seq(Byte)
  OBVIOUS
<1>2. Len(c) = n
  <2>1. CASE n = 0
    BY <2>1
  <2>2. CASE n # 0
    BY <2>2
  <2> QED
    BY <2>1, <2>2
<1>3. ASSUME NEW i \in 1 .. n PROVE c[i] = s[a + i]
  BY <1>2
<1> HIDE DEF c
<1>4. t = c
  BY <1>1, <1>2, <1>3
<1> QED
  BY <1>4 DEF c

\* Every step of the ring is a step of the stream or leaves it as it is.
LEMMA RefineNext == Inv /\ [Next]_vars => [BS!Next]_(BS!vars)
<1> SUFFICES ASSUME Inv, [Next]_vars PROVE [BS!Next]_(BS!vars)
  OBVIOUS
<1> USE DEF Marks
<1>0. /\ rollbacks \in Seq(Cursor) /\ cur \in Cursor /\ stream \in Seq(Byte)
      /\ data \in [Index -> Byte]
      /\ cur.num_read \in Nat /\ cur.unread \in Nat /\ cur.unread <= Cap
      /\ cur.read_pos \in Index /\ cur.write_pos \in Index
      /\ cur.num_read + cur.unread = Len(stream)
  BY DEF Inv, TypeOK, WindowIntact, Describes, Total, Cursor
<1>m. ASSUME NEW k \in 0 .. Len(rollbacks), rollbacks' = SubSeq(rollbacks, 1, k)
      PROVE  Marks' = SubSeq(Marks, 1, k)
  BY <1>0, <1>m, MarksCut
<1>w. Len(stream) - cur.num_read = cur.unread
  BY <1>0
<1>l. Len(Marks) = Len(rollbacks)
  BY <1>0
<1>1. ASSUME NEW n \in 0 .. MaxChunk, NEW buff \in [1 .. n -> Byte], Populate(buff)
      PROVE  BS!Next
  <2>1. buff \in Seq(Byte)
    BY BoundsAssumption
  <2>2. BS!Least(Len(buff), Cap - (Len(stream) - cur.num_read)) = ToWrite(cur, Len(buff))
    BY <1>w DEF BS!Least, ToWrite, SizeMin
  <2>3. cur'.num_read = cur.num_read
    BY <1>0, <1>1, <2>1, AfterPopulateType DEF Populate
  <2>4. BS!Accept(buff)
    BY <1>1, <2>2, <2>3 DEF BS!Accept, BS!Waiting, Populate
  <2> QED
    BY <2>4 DEF BS!Next
<1>2. ASSUME ReadNext PROVE BS!Next
  <2>1. BS!Consume(1)
    <3>1. CASE cur.unread = 0
      <4>1. BS!Least(1, Len(stream) - cur.num_read) = 0
        BY <1>w, <3>1 DEF BS!Least
      <4>2. <<>> = SubSeq(stream, cur.num_read + 1, cur.num_read + 0)
        BY <1>0, Stretch
      <4>c. cur.num_read = cur.num_read + 0
        BY <1>0
      <4>3. out' = <<>> /\ cur' = cur /\ UNCHANGED <<rollbacks, stream>>
        BY <1>2, <3>1 DEF ReadNext
      <4> QED
        BY <4>1, <4>2, <4>3, <4>c DEF BS!Consume, BS!Waiting
    <3>2. CASE cur.unread # 0
      <4>1. BS!Least(1, Len(stream) - cur.num_read) = 1
        BY <1>0, <1>w, <3>2 DEF BS!Least
      <4>2. out' = <<data[cur.read_pos]>> /\ cur' = AfterNext(cur) /\ UNCHANGED <<rollbacks, stream>>
        BY <1>2, <3>2 DEF ReadNext, NextByte
      <4>3. cur'.num_read = cur.num_read + 1
        BY <1>0, <4>2 DEF AfterNext, Cursor
      <4>4. 0 \in 0 .. (cur.unread - 1) /\ Wrap(cur.read_pos + 0) = cur.read_pos
            /\ cur.num_read + 0 + 1 = cur.num_read + 1
        BY <1>0, <3>2 DEF Wrap, Index
      <4>5. data[Wrap(cur.read_pos + 0)] = stream[cur.num_read + 0 + 1]
        BY <4>4 DEF Inv, WindowIntact, Describes
      <4>6. data[cur.read_pos] = stream[cur.num_read + 1]
        BY <4>4, <4>5
      <4>7. out' = SubSeq(stream, cur.num_read + 1, cur.num_read + 1)
        <5>1. out' \in Seq(Byte) /\ Len(out') = 1 /\ \A i \in 1 .. 1 : out'[i] = stream[cur.num_read + i]
          BY <1>0, <4>2, <4>6
        <5>2. cur.num_read + 1 <= Len(stream)
          BY <1>0, <3>2
        <5>3. stream \in Seq(Byte) /\ cur.num_read \in Nat /\ 1 \in Nat
          BY <1>0
        <5> HIDE DEF Marks
        <5> QED
          BY <5>1, <5>2, <5>3, Stretch
      <4> QED
        BY <4>1, <4>2, <4>3, <4>7 DEF BS!Consume, BS!Waiting
    <3> QED
      BY <3>1, <3>2
  <2>2. 1 \in 0 .. MaxChunk
    BY BoundsAssumption
  <2> QED
    BY <2>1, <2>2 DEF BS!Next
<1>3. ASSUME NEW length \in 0 .. MaxChunk, ExtractString(length)
      PROVE  BS!Next
  <2> DEFINE n == ToRead(cur, length)
  <2>1. length \in Nat
    BY BoundsAssumption
  <2>2. BS!Least(length, Len(stream) - cur.num_read) = n
    BY <1>w DEF BS!Least, ToRead, SizeMin
  <2>3. n \in 0 .. cur.unread
    BY <1>0, <2>1, AfterExtractIsConsume
  <2>4. /\ out' \in Seq(Byte) /\ Len(out') = n
        /\ \A i \in 1 .. n : out'[i] = data[Wrap(cur.read_pos + (i - 1))]
    BY <1>0, <1>3, <2>1, ExtractedBytes DEF ExtractString
  <2>5. cur'.num_read = cur.num_read + n
    BY <1>0, <1>3 DEF ExtractString, AfterExtract, Cursor
  <2>6. UNCHANGED <<rollbacks, stream>>
    BY <1>3 DEF ExtractString
  <2> HIDE DEF n
  <2>7. out' = SubSeq(stream, cur.num_read + 1, cur.num_read + n)
    <3>1. ASSUME NEW i \in 1 .. n PROVE out'[i] = stream[cur.num_read + i]
      <4>1. i - 1 \in 0 .. (cur.unread - 1) /\ cur.num_read + (i - 1) + 1 = cur.num_read + i
        BY <1>0, <2>3
      <4>2. data[Wrap(cur.read_pos + (i - 1))] = stream[cur.num_read + (i - 1) + 1]
        BY <4>1 DEF Inv, WindowIntact, Describes
      <4> QED
        BY <2>4, <4>1, <4>2
    <3>2. n \in Nat /\ cur.num_read + n <= Len(stream)
      BY <1>0, <2>3
    <3> QED
      BY <1>0, <2>4, <3>1, <3>2, Stretch
  <2>8. BS!Consume(length)
    BY <2>2, <2>5, <2>6, <2>7 DEF BS!Consume, BS!Waiting
  <2> QED
    BY <2>8 DEF BS!Next
<1>4. ASSUME SaveRollback PROVE BS!Next
  <2>1. /\ rollbacks' = Append(rollbacks, cur) /\ out' = <<>> /\ cur' = cur
        /\ stream' = stream /\ Len(rollbacks) < MaxRollbacks
    BY <1>4 DEF SaveRollback
  <2>2. Total(cur) = Len(stream)
    BY <1>0 DEF Total
  <2>3. Marks' = Append(Marks, [pos |-> cur.num_read, end |-> Len(stream)])
    BY <1>0, <2>1, <2>2
  <2>4. BS!Mark
    BY <1>l, <2>1, <2>3 DEF BS!Mark
  <2> QED
    BY <2>4 DEF BS!Next
<1>5. ASSUME NEW k \in 0 .. Len(rollbacks), rollbacks' = SubSeq(rollbacks, 1, k),
             out' = <<>>, UNCHANGED <<cur, stream>>
      PROVE  BS!Next
  <2>1. Marks' = SubSeq(Marks, 1, k)
    BY <1>5, <1>m
  <2>2. BS!Forget(k)
    BY <1>5, <2>1 DEF BS!Forget
  <2> QED
    BY <1>l, <2>2 DEF BS!Next
<1>6. ASSUME LoadRollback PROVE BS!Next
  <2> DEFINE top == Len(rollbacks)
  <2>1. /\ rollbacks # <<>> /\ Total(rollbacks[top]) = Total(cur)
        /\ cur' = rollbacks[top] /\ rollbacks' = SubSeq(rollbacks, 1, top - 1)
        /\ out' = <<>> /\ stream' = stream
    BY <1>6 DEF LoadRollback, Top, Pop
  <2>2. top \in 1 .. Len(rollbacks) /\ top - 1 \in 0 .. Len(rollbacks)
    BY <1>0, <2>1
  <2>3. Marks' = SubSeq(Marks, 1, top - 1)
    BY <2>1, <2>2, <1>m
  <2>4. /\ Marks[top] = [pos |-> rollbacks[top].num_read, end |-> Total(rollbacks[top])]
        /\ Total(cur) = Len(stream) /\ Marks # <<>>
    BY <1>0, <1>l, <2>1, <2>2 DEF Total
  <2>5. BS!GoBack
    BY <1>l, <2>1, <2>3, <2>4 DEF BS!GoBack
  <2> QED
    BY <2>5 DEF BS!Next
<1>7. ASSUME SaveOverRollback PROVE BS!Next
  <2>1. rollbacks' = SubSeq(rollbacks, 1, Len(rollbacks)) /\ Len(rollbacks) \in 0 .. Len(rollbacks)
    BY <1>0, <1>7 DEF SaveOverRollback
  <2> QED
    BY <1>5, <1>7, <2>1 DEF SaveOverRollback
<1>8. ASSUME RemoveRollback PROVE BS!Next
  <2>1. Len(rollbacks) - 1 \in 0 .. Len(rollbacks)
    BY <1>0, <1>8 DEF RemoveRollback
  <2> QED
    BY <1>5, <1>8, <2>1 DEF RemoveRollback, Pop
<1>9. ASSUME ClearRollback PROVE BS!Next
  <2>1. rollbacks' = SubSeq(rollbacks, 1, 0) /\ 0 \in 0 .. Len(rollbacks)
    BY <1>0, <1>9 DEF ClearRollback
  <2> QED
    BY <1>5, <1>9, <2>1 DEF ClearRollback
<1>10. CASE UNCHANGED vars
  BY <1>10 DEF vars, BS!vars
<1> QED
  BY <1>1, <1>2, <1>3, <1>4, <1>6, <1>7, <1>8, <1>9, <1>10 DEF Next

(***************************************************************************)
(* For every capacity: the ring behaves as the bounded byte stream; each   *)
(* call returns exactly the next bytes accepted and not yet consumed.      *)
(***************************************************************************)
THEOREM RingImplementsByteStream == Spec => ImplementsByteStream
<1>1. Init => BS!Init
  BY RefineInit
<1>2. Inv /\ [Next]_vars => [BS!Next]_(BS!vars)
  BY RefineNext
<1> QED
  BY <1>1, <1>2, InitInv, NextInv, PTL DEF Spec, ImplementsByteStream, BS!Spec

=============================================================================
