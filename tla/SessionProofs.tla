---------------------------- MODULE SessionProofs ----------------------------
(***************************************************************************)
(* Proofs about Session.tla for every number of connections and clicks and *)
(* every length of a trace.                                                *)
(*                                                                         *)
(* Three arguments.  The switch: messages arrive in order, so the last one *)
(* on its way is what the button shows.  The end: nothing comes behind the *)
(* end of the internal socket, and only that end stops the collecting.     *)
(* The first connection: as long as connections come one by one, only the  *)
(* first one ever writes to the internal socket.                           *)
(***************************************************************************)
EXTENDS Session, WellFoundedInduction, FiniteSetTheorems, SequenceTheorems, TLAPS

(***************************************************************************)
(* Natural numbers.  Induction over places is stated with these: of the    *)
(* places that violate a claim there is a first.                           *)
(***************************************************************************)
\* A set of natural numbers has a least one.
LEMMA LeastNumber ==
  ASSUME NEW T \in SUBSET Nat, T # {}
  PROVE  \E m \in T : \A k \in T : m <= k
<1> DEFINE F == {0 .. k : k \in T}
<1>1. F \subseteq FiniteSubsetsOf(Nat) /\ F # {}
  <2>1. \A k \in T : IsFiniteSet(0 .. k)
    BY FS_Interval
  <2>2. \A k \in T : 0 .. k \in FiniteSubsetsOf(Nat)
    <3>1. \A k \in T : 0 .. k \subseteq Nat
      OBVIOUS
    <3> QED
      BY <2>1, <3>1 DEF FiniteSubsetsOf
  <2> QED
    BY <2>2
<1>2. \E x \in F : \A y \in F : ~(<<y, x>> \in StrictSubsetOrdering(Nat))
  BY <1>1, FS_StrictSubsetOrderingWellFounded, WFMin
<1>3. PICK m \in T : \A k \in T : ~(<<0 .. k, 0 .. m>> \in StrictSubsetOrdering(Nat))
  BY <1>2
<1>4. ASSUME NEW k \in T, k < m
      PROVE  FALSE
  <2>1. 0 .. k \in SUBSET Nat /\ 0 .. m \in SUBSET Nat
    OBVIOUS
  <2>2. 0 .. k \subseteq 0 .. m /\ m \in 0 .. m /\ m \notin 0 .. k
    BY <1>4
  <2> QED
    BY <1>3, <2>1, <2>2 DEF StrictSubsetOrdering
<1> QED
  BY <1>4

\* A bounded set of them has a greatest.
LEMMA GreatestNumber ==
  ASSUME NEW n \in Nat, NEW T \in SUBSET (0 .. n), T # {}
  PROVE  \E m \in T : \A k \in T : k <= m
<1> DEFINE U == {n - k : k \in T}
<1>1. U \in SUBSET Nat /\ U # {}
  <2>1. \A k \in T : n - k \in Nat
    OBVIOUS
  <2> QED
    BY <2>1
<1>2. PICK m \in U : \A k \in U : m <= k
  BY <1>1, LeastNumber
<1>3. PICK greatest \in T : m = n - greatest
  BY <1>2
<1>4. \A k \in T : n - greatest <= n - k
  BY <1>2, <1>3
<1> QED
  BY <1>4

USE SessionAssumption

-----------------------------------------------------------------------------
(***************************************************************************)
(* Sequences of messages.                                                  *)
(***************************************************************************)
LEMMA TailIs ==
  ASSUME NEW S, NEW s \in Seq(S), s # <<>>
  PROVE  /\ Tail(s) \in Seq(S) /\ Len(s) \in Nat \ {0} /\ Len(Tail(s)) = Len(s) - 1
         /\ Head(s) = s[1] /\ s[1] \in S
         /\ \A i \in 1 .. (Len(s) - 1) : Tail(s)[i] = s[i + 1]
<1>1. Len(s) \in Nat \ {0}
  OBVIOUS
<1>2. s[1] \in S
  BY <1>1, ElementOfSeq
<1> QED
  BY <1>1, <1>2, HeadTailProperties

ClickedIn(s) == {i \in 1 .. Len(s) : s[i] \in Switches}

\* The last switch of the messages, or else the flag.
Followed(s, flag, shown) ==
  /\ ClickedIn(s) = {} => flag = shown
  /\ \A i \in ClickedIn(s) : (\A j \in ClickedIn(s) : j <= i) =>
       ((s[i] = "enable-pipe") <=> shown)

\* The server window receives a message.
LEMMA FollowedTail ==
  ASSUME NEW s \in Seq(ToServer), s # <<>>, NEW flag \in BOOLEAN, NEW shown \in BOOLEAN,
         Followed(s, flag, shown)
  PROVE  Followed(Tail(s), IF Head(s) \in Switches THEN Head(s) = "enable-pipe" ELSE flag, shown)
<1> DEFINE t == Tail(s)
<1>1. /\ Len(s) \in Nat \ {0} /\ Len(t) = Len(s) - 1 /\ Head(s) = s[1]
      /\ \A i \in 1 .. (Len(s) - 1) : t[i] = s[i + 1]
  BY TailIs
<1> HIDE DEF t
<1>2. \A i \in 1 .. Len(t) : i + 1 \in 1 .. Len(s) /\ t[i] = s[i + 1]
  BY <1>1
<1>3. \A i \in ClickedIn(t) : i + 1 \in ClickedIn(s)
  BY <1>2 DEF ClickedIn
<1>4. \A j \in ClickedIn(s) : j = 1 \/ j - 1 \in ClickedIn(t)
  <2> SUFFICES ASSUME NEW j \in ClickedIn(s), j # 1
               PROVE  j - 1 \in ClickedIn(t)
    OBVIOUS
  <2>1. j \in 1 .. Len(s) /\ s[j] \in Switches
    BY DEF ClickedIn
  <2>2. j - 1 \in 1 .. Len(t) /\ (j - 1) + 1 = j
    BY <1>1, <2>1
  <2> QED
    BY <1>2, <2>1, <2>2 DEF ClickedIn
<1>5. ASSUME NEW i \in ClickedIn(t), \A j \in ClickedIn(t) : j <= i
      PROVE  (t[i] = "enable-pipe") <=> shown
  <2>1. i \in 1 .. Len(t) /\ i + 1 \in ClickedIn(s) /\ t[i] = s[i + 1]
    BY <1>2, <1>3 DEF ClickedIn
  <2>2. \A j \in ClickedIn(s) : j <= i + 1
    <3>1. \A j \in ClickedIn(s) : j \in Nat
      BY <1>1 DEF ClickedIn
    <3> QED
      BY <1>4, <1>5, <2>1, <3>1
  <2> QED
    BY <2>1, <2>2 DEF Followed
<1>6. ASSUME ClickedIn(t) = {}
      PROVE  (IF Head(s) \in Switches THEN Head(s) = "enable-pipe" ELSE flag) = shown
  <2>1. \A j \in ClickedIn(s) : j = 1
    BY <1>4, <1>6
  <2>2. CASE Head(s) \in Switches
    <3>1. 1 \in ClickedIn(s)
      BY <1>1, <2>2 DEF ClickedIn
    <3>2. (s[1] = "enable-pipe") <=> shown
      BY <2>1, <3>1 DEF Followed
    <3> QED
      BY <1>1, <2>2, <3>2
  <2>3. CASE Head(s) \notin Switches
    <3>1. ClickedIn(s) = {}
      BY <1>1, <2>1, <2>3 DEF ClickedIn
    <3> QED
      BY <2>3, <3>1 DEF Followed
  <2> QED
    BY <2>2, <2>3
<1>7. Followed(t, IF Head(s) \in Switches THEN Head(s) = "enable-pipe" ELSE flag, shown)
  BY <1>5, <1>6 DEF Followed
<1> QED
  BY <1>7 DEF t

\* The chart window sends one.
LEMMA FollowedAppend ==
  ASSUME NEW s \in Seq(ToServer), NEW m \in ToServer,
         NEW flag \in BOOLEAN, NEW shown \in BOOLEAN
  PROVE  /\ m \in Switches => Followed(Append(s, m), flag, m = "enable-pipe")
         /\ m \notin Switches /\ Followed(s, flag, shown) => Followed(Append(s, m), flag, shown)
<1> DEFINE t == Append(s, m)
<1>1. /\ Len(s) \in Nat /\ Len(t) = Len(s) + 1 /\ t[Len(s) + 1] = m
      /\ \A i \in 1 .. Len(s) : t[i] = s[i]
  BY AppendProperties
<1> HIDE DEF t
<1>2. \A i \in 1 .. Len(t) : i \in 1 .. Len(s) \/ i = Len(s) + 1
  BY <1>1
<1>3. CASE m \in Switches
  <2>1. Len(s) + 1 \in ClickedIn(t)
    BY <1>1, <1>3 DEF ClickedIn
  <2>2. \A i \in ClickedIn(t) : (\A j \in ClickedIn(t) : j <= i) => i = Len(s) + 1
    BY <1>1, <2>1 DEF ClickedIn
  <2>3. Followed(t, flag, m = "enable-pipe")
    BY <1>1, <2>1, <2>2 DEF Followed
  <2> QED
    BY <1>3, <2>3 DEF t
<1>4. CASE m \notin Switches
  <2>1. ClickedIn(t) = ClickedIn(s)
    BY <1>1, <1>2, <1>4 DEF ClickedIn
  <2>2. \A i \in ClickedIn(s) : t[i] = s[i]
    BY <1>1 DEF ClickedIn
  <2>3. Followed(s, flag, shown) => Followed(t, flag, shown)
    BY <2>1, <2>2 DEF Followed
  <2> QED
    BY <1>4, <2>3 DEF t
<1> QED
  BY <1>3, <1>4

-----------------------------------------------------------------------------
(***************************************************************************)
(* Types.                                                                  *)
(***************************************************************************)
SocketTypes == sockets \in Seq(Sockets) /\ Len(sockets) <= MaxConns

InnerTypes == inner \in Seq(Chunks)

MessageTypes == toServer \in Seq(ToServer) /\ toChart \in Seq(ToChart)

Decoded == Seq((0 .. MaxConns) \X (1 .. Events))

DecoderTypes ==
  /\ decoder \in [decoded : Decoded, end : BOOLEAN]
  /\ Len(decoder.decoded) <= Events

FlagTypes ==
  /\ pipe \in BOOLEAN /\ internal \in {"none", "open", "ended"}
  /\ collecting \in BOOLEAN /\ visualization_enabled \in BOOLEAN
  /\ clicks \in Nat /\ disturbed \in BOOLEAN /\ undefined \in BOOLEAN

Types == SocketTypes /\ InnerTypes /\ MessageTypes /\ DecoderTypes /\ FlagTypes

LEMMA TypesAre == TypeOK <=> Types
BY DEF TypeOK, Types, SocketTypes, InnerTypes, MessageTypes, DecoderTypes, FlagTypes, Decoded

\* t is s but for one connection.
ButFor(s, t, c, socket) ==
  /\ t \in Seq(Sockets) /\ Len(t) = Len(s)
  /\ t[c] = socket /\ \A d \in DOMAIN s \ {c} : t[d] = s[d]

LEMMA ExceptIs ==
  ASSUME NEW s \in Seq(Sockets), NEW c \in DOMAIN s, NEW socket \in Sockets
  PROVE  ButFor(s, [s EXCEPT ![c] = socket], c, socket)
BY ExceptSeq DEF ButFor

\* What the decoder makes of a chunk.
Grows(old, new, from, last) ==
  /\ new.decoded \in Decoded /\ Len(old.decoded) < last /\ Len(new.decoded) = last
  /\ new = [decoded |-> new.decoded, end |-> old.end \/ last = Events]
  /\ \A k \in 1 .. Len(old.decoded) : new.decoded[k] = old.decoded[k]
  /\ \A k \in (Len(old.decoded) + 1) .. last : new.decoded[k] = <<from, k>>

LEMMA DecodesIs ==
  ASSUME DecoderTypes, NEW from \in 0 .. MaxConns, NEW first \in 0 .. Events,
         NEW last \in 0 .. Events, Decodes(from, first, last)
  PROVE  \/ decoder' = decoder /\ undefined' = TRUE
         \/ Grows(decoder, decoder', from, last) /\ undefined' = undefined
<1> DEFINE old == decoder.decoded
           len == Len(old)
           more == [i \in 1 .. (last - (len + 1) + 1) |-> <<from, (len + 1) + i - 1>>]
<1>1. old \in Decoded /\ len \in Nat /\ len <= Events /\ Events \in Nat
  BY DEF DecoderTypes, Decoded
<1>2. CASE len + 1 \notin first .. last
  BY <1>2 DEF Decodes
<1>3. CASE len + 1 \in first .. last
  <2>1. decoder' = [decoded |-> old \o more, end |-> decoder.end \/ last = Events]
        /\ undefined' = undefined
    BY <1>3 DEF Decodes
  <2>2. last - (len + 1) + 1 = last - len /\ last - len \in Nat /\ len < last
    BY <1>1, <1>3
  <2>3. \A i \in 1 .. (last - len) : (len + 1) + i - 1 = len + i /\ len + i \in 1 .. Events
    BY <1>1, <2>2
  <2>4. more = [i \in 1 .. (last - len) |-> <<from, len + i>>]
    BY <2>2, <2>3
  <2> HIDE DEF more, len
  <2>5. \A i \in 1 .. (last - len) : <<from, len + i>> \in (0 .. MaxConns) \X (1 .. Events)
    BY <2>3
  <2>6. more \in Decoded /\ Len(more) = last - len
        /\ \A i \in 1 .. (last - len) : more[i] = <<from, len + i>>
    BY <2>2, <2>4, <2>5, IsASeq, LenProperties DEF Decoded
  <2> HIDE DEF old
  <2>7. /\ old \o more \in Decoded /\ Len(old \o more) = len + (last - len)
        /\ \A k \in 1 .. (len + (last - len)) :
             (old \o more)[k] = IF k <= len THEN old[k] ELSE more[k - len]
    BY <1>1, <2>6, ConcatProperties DEF Decoded, len
  <2>8. len + (last - len) = last
    BY <1>1
  <2>9. \A k \in 1 .. len : (old \o more)[k] = old[k]
    BY <1>1, <2>2, <2>7, <2>8
  <2>10. \A k \in (len + 1) .. last : (old \o more)[k] = <<from, k>>
    <3> TAKE k \in (len + 1) .. last
    <3>1. k \in 1 .. last /\ ~(k <= len) /\ k - len \in 1 .. (last - len) /\ len + (k - len) = k
      BY <1>1, <2>2
    <3>2. (old \o more)[k] = more[k - len]
      BY <2>7, <2>8, <3>1
    <3> QED
      BY <2>6, <3>1, <3>2
  <2>11. decoder'.decoded = old \o more
    BY <2>1
  <2>12. decoder' = [decoded |-> decoder'.decoded, end |-> decoder.end \/ last = Events]
    BY <2>1
  <2> QED
    BY <2>1, <2>2, <2>7, <2>8, <2>9, <2>10, <2>11, <2>12 DEF Grows, old, len
<1> QED
  BY <1>2, <1>3

LEMMA GrowsTypes ==
  ASSUME DecoderTypes, NEW from, NEW last \in 0 .. Events, Grows(decoder, decoder', from, last)
  PROVE  DecoderTypes'
<1> DEFINE d == decoder'.decoded
           end == decoder.end \/ last = Events
<1>1. d \in Decoded /\ Len(d) = last /\ decoder' = [decoded |-> d, end |-> end]
  BY DEF Grows
<1>2. end \in BOOLEAN /\ last <= Events
  OBVIOUS
<1> HIDE DEF d, end
<1>3. decoder' \in [decoded : Decoded, end : BOOLEAN]
  BY <1>1, <1>2
<1> QED
  BY <1>1, <1>2, <1>3 DEF DecoderTypes, d

\* Updates of two fields of one connection.
LEMMA FieldsAre ==
  ASSUME NEW r, r = [state |-> r.state, sent |-> r.sent, piped |-> r.piped], NEW v, NEW w
  PROVE  /\ [r EXCEPT !.piped = w] = [state |-> r.state, sent |-> r.sent, piped |-> w]
         /\ [r EXCEPT !.sent = v, !.piped = w] = [state |-> r.state, sent |-> v, piped |-> w]
         /\ [r EXCEPT !.state = v, !.piped = w] = [state |-> v, sent |-> r.sent, piped |-> w]
<1>1. ASSUME NEW q, NEW a, NEW b, NEW c, q = [state |-> a, sent |-> b, piped |-> c]
      PROVE  [q EXCEPT !.piped = w] = [state |-> a, sent |-> b, piped |-> w]
  BY <1>1
<1>2. [r EXCEPT !.sent = v] = [state |-> r.state, sent |-> v, piped |-> r.piped]
  OBVIOUS
<1>3. [r EXCEPT !.state = v] = [state |-> v, sent |-> r.sent, piped |-> r.piped]
  OBVIOUS
<1>4. [[r EXCEPT !.sent = v] EXCEPT !.piped = w] = [state |-> r.state, sent |-> v, piped |-> w]
  BY <1>1, <1>2
<1>5. [[r EXCEPT !.state = v] EXCEPT !.piped = w] = [state |-> v, sent |-> r.sent, piped |-> w]
  BY <1>1, <1>3
<1>6. [r EXCEPT !.sent = v, !.piped = w] = [[r EXCEPT !.sent = v] EXCEPT !.piped = w]
  OBVIOUS
<1>7. [r EXCEPT !.state = v, !.piped = w] = [[r EXCEPT !.state = v] EXCEPT !.piped = w]
  OBVIOUS
<1> QED
  BY <1>1, <1>4, <1>5, <1>6, <1>7

WithPiped(s, c, w) == [s EXCEPT ![c].piped = w]

WithSent(s, c, v, w) == [s EXCEPT ![c].sent = v, ![c].piped = w]

WithState(s, c, v, w) == [s EXCEPT ![c].state = v, ![c].piped = w]

LEMMA UpdatesAre ==
  ASSUME NEW s, NEW c \in DOMAIN s, NEW v, NEW w,
         s[c] = [state |-> s[c].state, sent |-> s[c].sent, piped |-> s[c].piped]
  PROVE  /\ WithPiped(s, c, w) =
              [s EXCEPT ![c] = [state |-> s[c].state, sent |-> s[c].sent, piped |-> w]]
         /\ WithSent(s, c, v, w) =
              [s EXCEPT ![c] = [state |-> s[c].state, sent |-> v, piped |-> w]]
         /\ WithState(s, c, v, w) =
              [s EXCEPT ![c] = [state |-> v, sent |-> s[c].sent, piped |-> w]]
<1> DEFINE r == s[c]
<1>1. ASSUME NEW a
      PROVE  [[s EXCEPT ![c] = a] EXCEPT ![c].piped = w] = [s EXCEPT ![c] = [a EXCEPT !.piped = w]]
  <2>1. [s EXCEPT ![c] = a][c] = a
    OBVIOUS
  <2>2. [[s EXCEPT ![c] = a] EXCEPT ![c].piped = w] =
          [[s EXCEPT ![c] = a] EXCEPT ![c] = [a EXCEPT !.piped = w]]
    BY <2>1
  <2> QED
    BY <2>2
<1>2. [s EXCEPT ![c].sent = v, ![c].piped = w] = [[s EXCEPT ![c].sent = v] EXCEPT ![c].piped = w]
      /\ [s EXCEPT ![c].sent = v] = [s EXCEPT ![c] = [r EXCEPT !.sent = v]]
  OBVIOUS
<1>3. [s EXCEPT ![c].state = v, ![c].piped = w] = [[s EXCEPT ![c].state = v] EXCEPT ![c].piped = w]
      /\ [s EXCEPT ![c].state = v] = [s EXCEPT ![c] = [r EXCEPT !.state = v]]
  OBVIOUS
<1>4. [s EXCEPT ![c].piped = w] = [s EXCEPT ![c] = [r EXCEPT !.piped = w]]
  OBVIOUS
<1>5. r = [state |-> r.state, sent |-> r.sent, piped |-> r.piped]
  OBVIOUS
<1> HIDE DEF r
<1>6. [r EXCEPT !.sent = v, !.piped = w] = [[r EXCEPT !.sent = v] EXCEPT !.piped = w]
      /\ [r EXCEPT !.state = v, !.piped = w] = [[r EXCEPT !.state = v] EXCEPT !.piped = w]
  OBVIOUS
<1>7. /\ [r EXCEPT !.piped = w] = [state |-> r.state, sent |-> r.sent, piped |-> w]
      /\ [r EXCEPT !.sent = v, !.piped = w] = [state |-> r.state, sent |-> v, piped |-> w]
      /\ [r EXCEPT !.state = v, !.piped = w] = [state |-> v, sent |-> r.sent, piped |-> w]
  BY <1>5, FieldsAre
<1>8. [s EXCEPT ![c].sent = v, ![c].piped = w] =
        [s EXCEPT ![c] = [state |-> r.state, sent |-> v, piped |-> w]]
  BY <1>1, <1>2, <1>6, <1>7
<1>9. [s EXCEPT ![c].state = v, ![c].piped = w] =
        [s EXCEPT ![c] = [state |-> v, sent |-> r.sent, piped |-> w]]
  BY <1>1, <1>3, <1>6, <1>7
<1>10. [s EXCEPT ![c].piped = w] =
         [s EXCEPT ![c] = [state |-> r.state, sent |-> r.sent, piped |-> w]]
  BY <1>4, <1>7
<1> QED
  BY <1>8, <1>9, <1>10 DEF r, WithPiped, WithSent, WithState

\* What an action makes of the connections.
LEMMA ConnectionAppends ==
  ASSUME SocketTypes, FlagTypes, Connection
  PROVE  /\ SocketTypes' /\ Len(sockets') = Len(sockets) + 1
         /\ sockets'[Len(sockets) + 1] =
              [state |-> IF pipe /\ internal = "none" THEN "broken" ELSE "open",
               sent |-> 0, piped |-> pipe /\ internal # "none"]
         /\ \A c \in Conns : sockets'[c] = sockets[c]
<1> DEFINE socket == [state |-> IF pipe /\ internal = "none" THEN "broken" ELSE "open",
                      sent |-> 0, piped |-> pipe /\ internal # "none"]
<1>1. sockets' = Append(sockets, socket) /\ Len(sockets) < MaxConns
  BY DEF Connection
<1>2. socket \in Sockets
  BY DEF FlagTypes, Sockets
<1> HIDE DEF socket
<1>3. /\ sockets' \in Seq(Sockets) /\ Len(sockets') = Len(sockets) + 1
      /\ \A c \in 1 .. Len(sockets) : sockets'[c] = sockets[c]
      /\ sockets'[Len(sockets) + 1] = socket
  BY <1>1, <1>2, AppendProperties DEF SocketTypes
<1>4. Len(sockets) \in Nat /\ DOMAIN sockets = 1 .. Len(sockets)
  BY DEF SocketTypes
<1>5. Len(sockets) + 1 <= MaxConns
  BY <1>1, <1>4
<1> QED
  BY <1>3, <1>4, <1>5 DEF SocketTypes, Conns, socket

ButForThis(c, socket) == ButFor(sockets, sockets', c, socket)

LEMMA ButForTypes ==
  ASSUME SocketTypes, NEW c, NEW socket, ButForThis(c, socket)
  PROVE  SocketTypes' /\ Conns' = Conns
BY DEF SocketTypes, Conns, ButForThis, ButFor

LEMMA ConnIs ==
  ASSUME SocketTypes, NEW c \in Conns
  PROVE  /\ c \in Nat \ {0} /\ c <= MaxConns /\ c \in 1 .. Len(sockets)
         /\ sockets[c].state \in {"open", "broken", "closed", "lost"}
         /\ sockets[c].sent \in 0 .. Events /\ sockets[c].piped \in BOOLEAN
         /\ sockets[c] = [state |-> sockets[c].state, sent |-> sockets[c].sent,
                          piped |-> sockets[c].piped]
<1>1. Len(sockets) \in Nat /\ DOMAIN sockets = 1 .. Len(sockets) /\ sockets[c] \in Sockets
  BY ElementOfSeq DEF SocketTypes, Conns
<1> QED
  BY <1>1 DEF SocketTypes, Conns, Sockets

Chunk(c, n) == [from |-> c, first |-> sockets[c].sent + 1, last |-> sockets[c].sent + 1 + n - 1]

LEMMA DataChanges ==
  ASSUME SocketTypes, NEW c \in Conns, NEW n \in 1 .. Events, Data(c, n)
  PROVE  LET writes == sockets[c].piped /\ internal = "open"
         IN  /\ ButForThis(c, [state |-> sockets[c].state, sent |-> sockets[c].sent + n,
                               piped |-> writes])
             /\ Chunk(c, n) \in Chunks /\ Chunk(c, n) # TheEnd
             /\ inner' = IF writes THEN Append(inner, Chunk(c, n)) ELSE inner
<1> DEFINE writes == sockets[c].piped /\ internal = "open"
           socket == [state |-> sockets[c].state, sent |-> sockets[c].sent + n, piped |-> writes]
<1>1. /\ sockets[c].sent + n <= Events
      /\ sockets' = [sockets EXCEPT ![c].sent = @ + n, ![c].piped = writes]
      /\ inner' = IF writes THEN Append(inner, Chunk(c, n)) ELSE inner
  BY DEF Data, Chunk
<1>2. /\ c \in 0 .. MaxConns /\ sockets[c].sent \in 0 .. Events
      /\ sockets[c] = [state |-> sockets[c].state, sent |-> sockets[c].sent, piped |-> sockets[c].piped]
      /\ sockets[c].state \in {"open", "broken", "closed", "lost"}
  BY ConnIs
<1>3. socket \in Sockets
  BY <1>1, <1>2 DEF Sockets
<1>4. sockets' = [sockets EXCEPT ![c] = socket]
  <2>1. sockets' = WithSent(sockets, c, sockets[c].sent + n, writes)
    BY <1>1 DEF WithSent
  <2> QED
    BY <1>2, <2>1, UpdatesAre DEF Conns
<1>5. ButForThis(c, socket)
  BY <1>3, <1>4, ExceptIs DEF SocketTypes, Conns, ButForThis
<1>6. Chunk(c, n) \in Chunks /\ Chunk(c, n) # TheEnd
  BY <1>1, <1>2 DEF Chunk, Chunks, TheEnd
<1> QED
  BY <1>1, <1>5, <1>6

Piped(c, state, piped) == [state |-> state, sent |-> sockets[c].sent, piped |-> piped]

LEMMA CloseChanges ==
  ASSUME SocketTypes, NEW c \in Conns
  PROVE  /\ Close(c) => ButForThis(c, Piped(c, "closed", FALSE))
         /\ Error(c) => ButForThis(c, Piped(c, "lost", FALSE))
<1>1. ASSUME NEW s \in {"closed", "lost"}, sockets' = [sockets EXCEPT ![c].state = s, ![c].piped = FALSE]
      PROVE  ButForThis(c, Piped(c, s, FALSE))
  <2>1. Piped(c, s, FALSE) \in Sockets
    BY ConnIs DEF Piped, Sockets
  <2>2. sockets' = [sockets EXCEPT ![c] = Piped(c, s, FALSE)]
    <3>1. sockets' = WithState(sockets, c, s, FALSE)
      BY <1>1 DEF WithState
    <3> QED
      <4>1. /\ c \in DOMAIN sockets
            /\ sockets[c] = [state |-> sockets[c].state, sent |-> sockets[c].sent,
                             piped |-> sockets[c].piped]
        BY ConnIs DEF Conns
      <4>2. \A p : WithState(sockets, c, s, p) = [sockets EXCEPT ![c] = Piped(c, s, p)]
        BY <4>1, UpdatesAre DEF Piped
      <4> QED
        BY <3>1, <4>2
  <2> QED
    BY <2>1, <2>2, ExceptIs DEF SocketTypes, Conns, ButForThis
<1> QED
  BY <1>1 DEF Close, Error

\* The switches reach the first connection only.
LEMMA SwitchChanges ==
  ASSUME SocketTypes
  PROVE  /\ sockets # <<>> => 1 \in Conns
         /\ DisablePipe => IF sockets = <<>> THEN sockets' = sockets
                           ELSE ButForThis(1, Piped(1, sockets[1].state, FALSE))
         /\ EnablePipe =>
              IF sockets # <<>> /\ internal # "none"
              THEN ButForThis(1, Piped(1, sockets[1].state, sockets[1].state \in {"open", "broken"}))
              ELSE sockets' = sockets
<1>1. sockets # <<>> => 1 \in Conns
  BY DEF SocketTypes, Conns
<1>2. ASSUME NEW p \in BOOLEAN, sockets # <<>>, sockets' = [sockets EXCEPT ![1].piped = p]
      PROVE  ButForThis(1, Piped(1, sockets[1].state, p))
  <2>1. Piped(1, sockets[1].state, p) \in Sockets
    BY <1>1, <1>2, ConnIs DEF Piped, Sockets
  <2>2. sockets' = [sockets EXCEPT ![1] = Piped(1, sockets[1].state, p)]
    <3>1. sockets' = WithPiped(sockets, 1, p)
      BY <1>2 DEF WithPiped
    <3> QED
      <4>1. /\ 1 \in DOMAIN sockets
            /\ sockets[1] = [state |-> sockets[1].state, sent |-> sockets[1].sent,
                             piped |-> sockets[1].piped]
        BY <1>1, <1>2, ConnIs DEF Conns
      <4> QED
        BY <3>1, <4>1, UpdatesAre DEF Piped
  <2>3. 1 \in DOMAIN sockets /\ sockets \in Seq(Sockets)
    BY <1>1, <1>2 DEF SocketTypes, Conns
  <2> QED
    BY <2>1, <2>2, <2>3, ExceptIs DEF ButForThis
<1>3. ASSUME DisablePipe
      PROVE  IF sockets = <<>> THEN sockets' = sockets
             ELSE ButForThis(1, Piped(1, sockets[1].state, FALSE))
  BY <1>2, <1>3 DEF DisablePipe
<1>4. ASSUME EnablePipe
      PROVE  IF sockets # <<>> /\ internal # "none"
             THEN ButForThis(1, Piped(1, sockets[1].state, sockets[1].state \in {"open", "broken"}))
             ELSE sockets' = sockets
  <2>1. IF sockets # <<>> /\ internal # "none"
        THEN sockets' = [sockets EXCEPT ![1].piped = sockets[1].state \in {"open", "broken"}]
        ELSE sockets' = sockets
    BY <1>4 DEF EnablePipe, server
  <2>2. (sockets[1].state \in {"open", "broken"}) \in BOOLEAN
    OBVIOUS
  <2> QED
    BY <1>2, <2>1, <2>2
<1> QED
  BY <1>1, <1>3, <1>4

\* The connections change in these steps only.
LEMMA SocketsChange ==
  ASSUME [Next]_vars
  PROVE  \/ UNCHANGED sockets
         \/ Connection
         \/ \E c \in Conns : Close(c) \/ Error(c) \/ \E n \in 1 .. Events : Data(c, n)
         \/ DisablePipe \/ EnablePipe
BY DEF Next, vars, server, InternalServerAddress, PauseOrResume, ConnectionEstablished,
       ConnectionClosed, ExternalError, ChartRest, InnerData, InnerClose, PauseOrResumeButton,
       ResetButton, ShouldVisualizeButton, UnpackButton, ButtonRest

LEMMA SocketTypesNext ==
  ASSUME SocketTypes, FlagTypes, [Next]_vars
  PROVE  SocketTypes'
<1>1. CASE UNCHANGED sockets
  BY <1>1 DEF SocketTypes
<1>2. CASE Connection
  BY <1>2, ConnectionAppends
<1>3. ASSUME NEW c \in Conns, NEW n \in 1 .. Events, Data(c, n)
      PROVE  SocketTypes'
  BY <1>3, DataChanges, ButForTypes
<1>4. ASSUME NEW c \in Conns, Close(c) \/ Error(c)
      PROVE  SocketTypes'
  BY <1>4, CloseChanges, ButForTypes
<1>5. CASE DisablePipe \/ EnablePipe
  BY <1>1, <1>5, SwitchChanges, ButForTypes
<1> QED
  BY <1>1, <1>2, <1>3, <1>4, <1>5, SocketsChange

Address == "internal-server-address"

\* The internal socket and what is on it: a chunk is written, or the end; the
\* address opens it; the chart window takes the next.
LEMMA InnerChanges ==
  ASSUME SocketTypes, [Next]_vars
  PROVE  \/ UNCHANGED <<internal, inner>>
         \/ /\ internal = "open" /\ UNCHANGED internal
            /\ \E c \in Conns, n \in 1 .. Events :
                 /\ sockets[c].piped /\ Chunk(c, n) \in Chunks /\ Chunk(c, n) # TheEnd
                 /\ inner' = Append(inner, Chunk(c, n))
         \/ internal = "open" /\ internal' = "ended" /\ inner' = Append(inner, TheEnd)
            /\ sockets # <<>>
         \/ internal' = "open" /\ UNCHANGED inner /\ toServer # <<>> /\ Head(toServer) = Address
         \/ UNCHANGED internal /\ inner # <<>> /\ inner' = Tail(inner)
<1>1. CASE UNCHANGED vars
  BY <1>1 DEF vars, server, channels
<1>2. CASE Connection \/ PauseOrResume \/ DisablePipe
  BY <1>2 DEF Connection, PauseOrResume, DisablePipe, server
<1>3. ASSUME NEW c \in Conns, NEW n \in 1 .. Events, Data(c, n)
      PROVE  UNCHANGED internal
             /\ \/ UNCHANGED inner
                \/ /\ internal = "open" /\ sockets[c].piped
                   /\ Chunk(c, n) \in Chunks /\ Chunk(c, n) # TheEnd
                   /\ inner' = Append(inner, Chunk(c, n))
  <2>1. UNCHANGED internal
    BY <1>3 DEF Data
  <2> QED
    BY <1>3, <2>1, DataChanges
<1>4. ASSUME NEW c \in Conns, Close(c) \/ Error(c)
      PROVE  \/ UNCHANGED <<internal, inner>>
             \/ internal = "open" /\ internal' = "ended" /\ inner' = Append(inner, TheEnd)
                /\ sockets # <<>>
  BY <1>4 DEF Close, Error, EndsInternal, Conns
<1>5. CASE InternalServerAddress
  BY <1>5 DEF InternalServerAddress, ServerGets, Address
<1>6. CASE EnablePipe
  BY <1>6 DEF EnablePipe, EndsInternal, server
<1>7. CASE ConnectionEstablished \/ ConnectionClosed \/ ExternalError
  BY <1>7 DEF ConnectionEstablished, ConnectionClosed, ExternalError, ChartRest, server
<1>8. CASE InnerData \/ InnerClose
  BY <1>8 DEF InnerData, InnerClose, server
<1>9. CASE PauseOrResumeButton \/ ResetButton \/ ShouldVisualizeButton \/ UnpackButton
  BY <1>9 DEF PauseOrResumeButton, ResetButton, ShouldVisualizeButton, UnpackButton, ButtonRest,
              server, channels
<1> QED
  BY <1>1, <1>2, <1>3, <1>4, <1>5, <1>6, <1>7, <1>8, <1>9 DEF Next

LEMMA InnerTypesNext ==
  ASSUME SocketTypes, InnerTypes, [Next]_vars
  PROVE  InnerTypes'
<1>1. ASSUME NEW x \in Chunks, inner' = Append(inner, x)
      PROVE  InnerTypes'
  BY <1>1, AppendProperties DEF InnerTypes
<1>2. TheEnd \in Chunks
  BY DEF TheEnd, Chunks
<1>3. ASSUME inner # <<>>, inner' = Tail(inner)
      PROVE  InnerTypes'
  BY <1>3, TailIs DEF InnerTypes
<1>4. UNCHANGED inner => InnerTypes'
  BY DEF InnerTypes
<1> QED
  BY <1>1, <1>2, <1>3, <1>4, InnerChanges

\* The messages to the server window, in order.
LEMMA MessagesChange ==
  ASSUME [Next]_vars
  PROVE  /\ \/ UNCHANGED toServer
            \/ toServer # <<>> /\ toServer' = Tail(toServer)
            \/ \E m \in ToServer \ {Address} : toServer' = Append(toServer, m)
         /\ \/ UNCHANGED toChart
            \/ toChart # <<>> /\ toChart' = Tail(toChart)
            \/ \E m \in ToChart : toChart' = Append(toChart, m)
            \/ toChart' = toChart \o <<"external-error", "connection-closed">>
<1>1. CASE UNCHANGED vars
  BY <1>1 DEF vars, channels
<1>2. CASE Connection \/ \E c \in Conns : Close(c) \/ Error(c) \/ \E n \in 1 .. Events : Data(c, n)
  BY <1>2 DEF Connection, Close, Error, Data, ToChart
<1>3. CASE InternalServerAddress \/ PauseOrResume \/ DisablePipe \/ EnablePipe
  BY <1>3 DEF InternalServerAddress, PauseOrResume, DisablePipe, EnablePipe, ServerGets, ServerRest
<1>4. CASE ConnectionEstablished \/ ConnectionClosed \/ ExternalError
  BY <1>4 DEF ConnectionEstablished, ConnectionClosed, ExternalError, ChartGets, ChartRest
<1>5. CASE InnerData \/ InnerClose
  BY <1>5 DEF InnerData, InnerClose
<1>6. CASE PauseOrResumeButton \/ ResetButton \/ UnpackButton
  BY <1>6 DEF PauseOrResumeButton, ResetButton, UnpackButton, ButtonRest, channels, ToServer,
              Address, Switches
<1>7. CASE ShouldVisualizeButton
  BY <1>7 DEF ShouldVisualizeButton, ButtonRest, ToServer, Address, Switches
<1> QED
  BY <1>1, <1>2, <1>3, <1>4, <1>5, <1>6, <1>7 DEF Next

LEMMA MessageTypesNext ==
  ASSUME MessageTypes, [Next]_vars
  PROVE  MessageTypes'
<1>1. toServer' \in Seq(ToServer)
  <2>1. toServer # <<>> => Tail(toServer) \in Seq(ToServer)
    BY TailIs DEF MessageTypes
  <2>2. \A m \in ToServer : Append(toServer, m) \in Seq(ToServer)
    BY AppendProperties DEF MessageTypes
  <2> QED
    BY <2>1, <2>2, MessagesChange DEF MessageTypes
<1>2. toChart' \in Seq(ToChart)
  <2>1. toChart # <<>> => Tail(toChart) \in Seq(ToChart)
    BY TailIs DEF MessageTypes
  <2>2. \A m \in ToChart : Append(toChart, m) \in Seq(ToChart)
    BY AppendProperties DEF MessageTypes
  <2>3. <<"external-error", "connection-closed">> \in Seq(ToChart)
    BY DEF ToChart
  <2>4. toChart \o <<"external-error", "connection-closed">> \in Seq(ToChart)
    BY <2>3, ConcatProperties DEF MessageTypes
  <2> QED
    BY <2>1, <2>2, <2>4, MessagesChange DEF MessageTypes
<1> QED
  BY <1>1, <1>2 DEF MessageTypes

\* The decoder: "Reset", a chunk from the internal socket, a file.
LEMMA DecoderChanges ==
  ASSUME InnerTypes, DecoderTypes, [Next]_vars
  PROVE  \/ UNCHANGED decoder
         \/ decoder' = NewDecoder /\ ~collecting
            /\ UNCHANGED <<sockets, internal, inner, collecting, message, disturbed>>
         \/ /\ inner # <<>> /\ Head(inner) # TheEnd /\ Head(inner) \in Chunks
            /\ inner' = Tail(inner) /\ collecting' = TRUE
            /\ Grows(decoder, decoder', Head(inner).from, Head(inner).last)
         \/ /\ Grows(decoder, decoder', 0, Events) /\ disturbed' = TRUE
            /\ message' = "Converted successfully to CSV"
            /\ UNCHANGED <<internal, inner, collecting>>
<1>1. CASE UNCHANGED vars
  BY <1>1 DEF vars
<1>2. CASE Connection \/ \E c \in Conns : Close(c) \/ Error(c) \/ \E n \in 1 .. Events : Data(c, n)
  BY <1>2 DEF Connection, Close, Error, Data
<1>3. CASE InternalServerAddress \/ PauseOrResume \/ DisablePipe \/ EnablePipe
  BY <1>3 DEF InternalServerAddress, PauseOrResume, DisablePipe, EnablePipe, ServerRest
<1>4. CASE ConnectionEstablished \/ ConnectionClosed \/ ExternalError
  BY <1>4 DEF ConnectionEstablished, ConnectionClosed, ExternalError, ChartRest
<1>5. CASE InnerData
  <2>1. inner # <<>> /\ Head(inner) # TheEnd /\ inner' = Tail(inner) /\ collecting' = TRUE
        /\ Decodes(Head(inner).from, Head(inner).first, Head(inner).last)
    BY <1>5 DEF InnerData
  <2>2. Head(inner) \in Chunks
    BY <2>1, TailIs DEF InnerTypes
  <2>3. /\ Head(inner).from \in 0 .. MaxConns /\ Head(inner).first \in 0 .. Events
        /\ Head(inner).last \in 0 .. Events
    BY <2>2 DEF Chunks
  <2> QED
    BY <2>1, <2>2, <2>3, DecodesIs
<1>6. CASE InnerClose \/ PauseOrResumeButton \/ ShouldVisualizeButton
  BY <1>6 DEF InnerClose, PauseOrResumeButton, ShouldVisualizeButton
<1>7. CASE ResetButton
  BY <1>7 DEF ResetButton, ButtonRest, server, status
<1>8. CASE UnpackButton
  <2>1. Decodes(0, 1, Events) /\ disturbed' = TRUE /\ message' = "Converted successfully to CSV"
        /\ UNCHANGED <<internal, inner, collecting>>
    BY <1>8 DEF UnpackButton, server, channels
  <2>2. 0 \in 0 .. MaxConns /\ 1 \in 0 .. Events /\ Events \in 0 .. Events
    OBVIOUS
  <2> QED
    BY <2>1, <2>2, DecodesIs
<1> QED
  BY <1>1, <1>2, <1>3, <1>4, <1>5, <1>6, <1>7, <1>8 DEF Next

LEMMA DecoderTypesNext ==
  ASSUME InnerTypes, DecoderTypes, [Next]_vars
  PROVE  DecoderTypes'
<1>1. UNCHANGED decoder => DecoderTypes'
  BY DEF DecoderTypes
<1>2. ASSUME decoder' = NewDecoder
      PROVE  DecoderTypes'
  <2>1. <<>> \in Decoded /\ Len(<<>>) = 0 /\ 0 <= Events
    BY DEF Decoded
  <2> QED
    BY <1>2, <2>1 DEF DecoderTypes, NewDecoder
<1>3. \A x \in Chunks : x.last \in 0 .. Events
  BY DEF Chunks
<1>4. Events \in 0 .. Events
  OBVIOUS
<1> QED
  BY <1>1, <1>2, <1>3, <1>4, DecoderChanges, GrowsTypes

LEMMA FlagTypesNext ==
  ASSUME FlagTypes, [Next]_vars
  PROVE  FlagTypes'
<1>1. CASE UNCHANGED vars
  BY <1>1 DEF vars, server, status, ghosts, FlagTypes
<1>2. CASE Connection
  BY <1>2 DEF Connection, SomeOpen, status, FlagTypes
<1>3. ASSUME NEW c \in Conns, NEW n \in 1 .. Events, Data(c, n)
      PROVE  FlagTypes'
  BY <1>3 DEF Data, status, ghosts, FlagTypes
<1>4. ASSUME NEW c \in Conns, Close(c) \/ Error(c)
      PROVE  FlagTypes'
  BY <1>4 DEF Close, Error, EndsInternal, status, ghosts, FlagTypes
<1>5. CASE InternalServerAddress \/ PauseOrResume
  BY <1>5 DEF InternalServerAddress, PauseOrResume, server, ServerRest, status, ghosts, FlagTypes
<1>6. CASE DisablePipe \/ EnablePipe
  BY <1>6 DEF DisablePipe, EnablePipe, EndsInternal, server, ServerRest, status, ghosts, FlagTypes
<1>7. CASE ConnectionEstablished \/ ConnectionClosed \/ ExternalError
  BY <1>7 DEF ConnectionEstablished, ConnectionClosed, ExternalError, ChartRest, server, ghosts,
              FlagTypes
<1>8. CASE InnerData
  BY <1>8 DEF InnerData, Decodes, server, FlagTypes
<1>9. CASE InnerClose
  BY <1>9 DEF InnerClose, server, ghosts, FlagTypes
<1>10. CASE PauseOrResumeButton \/ ResetButton \/ ShouldVisualizeButton
  <2>1. clicks' = clicks + 1 /\ UNCHANGED <<pipe, internal, collecting, disturbed, undefined>>
    BY <1>10 DEF PauseOrResumeButton, ResetButton, ShouldVisualizeButton, Click, ButtonRest, server,
                 status
  <2>2. visualization_enabled' = visualization_enabled \/ visualization_enabled' = ~visualization_enabled
    BY <1>10 DEF PauseOrResumeButton, ResetButton, ShouldVisualizeButton, status
  <2>3. clicks' \in Nat
    BY <2>1 DEF FlagTypes
  <2>4. visualization_enabled' \in BOOLEAN
    BY <2>2 DEF FlagTypes
  <2> QED
    BY <2>1, <2>3, <2>4 DEF FlagTypes
<1>11. CASE UnpackButton
  <2>1. clicks' = clicks + 1 /\ disturbed' = TRUE
        /\ UNCHANGED <<pipe, internal, collecting, visualization_enabled>>
    BY <1>11 DEF UnpackButton, Click, server
  <2>2. undefined' = undefined \/ undefined' = TRUE
    BY <1>11 DEF UnpackButton, Decodes
  <2>3. clicks' \in Nat
    BY <2>1 DEF FlagTypes
  <2>4. undefined' \in BOOLEAN
    BY <2>2 DEF FlagTypes
  <2> QED
    BY <2>1, <2>3, <2>4 DEF FlagTypes
<1> QED
  BY <1>1, <1>2, <1>3, <1>4, <1>5, <1>6, <1>7, <1>8, <1>9, <1>10, <1>11 DEF Next

LEMMA TypesNext ==
  ASSUME Types, [Next]_vars
  PROVE  Types'
BY SocketTypesNext, InnerTypesNext, MessageTypesNext, DecoderTypesNext, FlagTypesNext DEF Types

LEMMA TypesInit ==
  ASSUME Init
  PROVE  Types
<1>1. <<>> \in Seq(Sockets) /\ 0 <= MaxConns
  OBVIOUS
<1>2. <<>> \in Seq(Chunks) /\ <<>> \in Seq(ToChart) /\ <<>> \in Decoded
  BY DEF Decoded
<1>3. <<Address>> \in Seq(ToServer)
  BY DEF ToServer, Address
<1>4. Len(<<>>) = 0 /\ 0 <= Events
  OBVIOUS
<1> QED
  BY <1>1, <1>2, <1>3, <1>4
  DEF Init, NewDecoder, Address, Types, SocketTypes, InnerTypes, MessageTypes, DecoderTypes, FlagTypes

\* Every message, chunk and event has its type; nothing overtakes a bound.
THEOREM TypesKept == Spec => []TypeOK
<1>1. Init => Types
  BY TypesInit
<1>2. Types /\ [Next]_vars => Types'
  BY TypesNext
<1>3. Types => TypeOK
  BY TypesAre
<1> QED
  BY <1>1, <1>2, <1>3, PTL DEF Spec

-----------------------------------------------------------------------------
(***************************************************************************)
(* The switch.                                                             *)
(***************************************************************************)
\* The address of the chart window is the first message, before which there is no
\* internal socket, and without one nothing is piped.
AddressFirst ==
  /\ \A i \in 1 .. Len(toServer) : toServer[i] = Address => i = 1 /\ internal = "none"
  /\ \A c \in Conns : sockets[c].piped => internal # "none"

Addressed == toServer # <<>> /\ toServer[1] = Address

LEMMA InternalStays ==
  ASSUME Types, AddressFirst, [Next]_vars
  PROVE  /\ internal # "none" => internal' # "none"
         /\ internal = "ended" => UNCHANGED internal
         /\ internal = "none" /\ internal' # "none" => Addressed /\ toServer' = Tail(toServer)
<1>1. ASSUME toServer # <<>>, Head(toServer) = Address
      PROVE  internal = "none" /\ Addressed
  <2>1. 1 \in 1 .. Len(toServer) /\ toServer[1] = Address
    BY <1>1, TailIs DEF Types, MessageTypes
  <2> QED
    BY <1>1, <2>1 DEF AddressFirst, Addressed
<1>2. internal = "none" /\ internal' # "none" => InternalServerAddress
  <2>1. InternalServerAddress \/ UNCHANGED internal \/ internal = "open"
    BY DEF Next, vars, server, Connection, Close, Error, Data, EndsInternal, PauseOrResume,
           DisablePipe, EnablePipe, ConnectionEstablished, ConnectionClosed, ExternalError, ChartRest,
           InnerData, InnerClose, PauseOrResumeButton, ResetButton, ShouldVisualizeButton,
           UnpackButton, ButtonRest
  <2> QED
    BY <2>1
<1>3. InternalServerAddress =>
        toServer # <<>> /\ Head(toServer) = Address /\ toServer' = Tail(toServer)
  BY DEF InternalServerAddress, ServerGets, Address
<1> QED
  BY <1>1, <1>2, <1>3, InnerChanges DEF Types

LEMMA AddressFirstNext ==
  ASSUME Types, AddressFirst, [Next]_vars
  PROVE  AddressFirst'
<1>1. \A i \in 1 .. Len(toServer') : toServer'[i] = Address => i = 1 /\ internal' = "none"
  <2>1. CASE toServer # <<>> /\ toServer' = Tail(toServer)
    <3>1. /\ Len(toServer) \in Nat \ {0} /\ Len(toServer') = Len(toServer) - 1
          /\ \A i \in 1 .. (Len(toServer) - 1) : toServer'[i] = toServer[i + 1]
      BY <2>1, TailIs DEF Types, MessageTypes
    <3>2. \A i \in 1 .. Len(toServer') : i + 1 \in 1 .. Len(toServer) /\ i + 1 # 1
      BY <3>1
    <3> QED
      BY <3>1, <3>2 DEF AddressFirst
  <2>2. ASSUME toServer' = toServer \/ \E m \in ToServer \ {Address} : toServer' = Append(toServer, m)
        PROVE  \A i \in 1 .. Len(toServer') : toServer'[i] = Address => i = 1 /\ internal' = "none"
    <3>1. ~(toServer' = Tail(toServer) /\ toServer # <<>>)
      <4>1. toServer # <<>> => Len(toServer) \in Nat \ {0} /\ Len(Tail(toServer)) = Len(toServer) - 1
        BY TailIs DEF Types, MessageTypes
      <4>2. \A m \in ToServer : Len(Append(toServer, m)) = Len(toServer) + 1
        BY AppendProperties DEF Types, MessageTypes
      <4> QED
        BY <2>2, <4>1, <4>2
    <3>2. internal = "none" => internal' = "none"
      BY <3>1, InternalStays DEF Addressed
    <3>3. CASE toServer' = toServer
      BY <3>2, <3>3 DEF AddressFirst
    <3>4. ASSUME NEW m \in ToServer \ {Address}, toServer' = Append(toServer, m)
          PROVE  \A i \in 1 .. Len(toServer') : toServer'[i] = Address => i = 1 /\ internal' = "none"
      <4>1. /\ Len(toServer) \in Nat /\ Len(toServer') = Len(toServer) + 1
            /\ toServer'[Len(toServer) + 1] = m
            /\ \A i \in 1 .. Len(toServer) : toServer'[i] = toServer[i]
        BY <3>4, AppendProperties DEF Types, MessageTypes
      <4>2. \A i \in 1 .. Len(toServer') : i \in 1 .. Len(toServer) \/ i = Len(toServer) + 1
        BY <4>1
      <4> QED
        BY <3>2, <3>4, <4>1, <4>2 DEF AddressFirst
    <3> QED
      BY <2>2, <3>3, <3>4
  <2> QED
    BY <2>1, <2>2, MessagesChange
<1>2. \A c \in Conns' : sockets'[c].piped => internal' # "none"
  <2>1. internal # "none" => internal' # "none"
    BY InternalStays
  <2>2. ASSUME NEW c \in Conns', sockets'[c].piped, internal = "none"
        PROVE  FALSE
    <3>1. \A d \in Conns : ~sockets[d].piped
      BY <2>2 DEF AddressFirst
    <3>2. CASE UNCHANGED sockets
      BY <2>2, <3>1, <3>2 DEF Conns
    <3>3. CASE Connection
      <4>1. /\ Len(sockets) \in Nat /\ Len(sockets') = Len(sockets) + 1
            /\ sockets'[Len(sockets) + 1].piped = (pipe /\ internal # "none")
            /\ \A d \in Conns : sockets'[d] = sockets[d]
        BY <3>3, ConnectionAppends DEF Types, SocketTypes
      <4>2. Conns = 1 .. Len(sockets) /\ Conns' = 1 .. Len(sockets')
        BY <3>3, ConnectionAppends DEF Conns, Types, SocketTypes
      <4>3. c \in Conns \/ c = Len(sockets) + 1
        BY <4>1, <4>2
      <4> QED
        BY <2>2, <3>1, <4>1, <4>3
    <3>4. ASSUME NEW d \in Conns, NEW socket, ButForThis(d, socket), ~socket.piped
          PROVE  FALSE
      <4>1. Conns' = Conns
        BY <3>4, ButForTypes DEF Types
      <4> QED
        BY <2>2, <3>1, <3>4, <4>1 DEF ButForThis, ButFor, Conns
    <3>5. \A d \in Conns : \A s : ~Piped(d, s, FALSE).piped
      BY DEF Piped
    <3>6. ASSUME NEW d \in Conns, Close(d) \/ Error(d)
          PROVE  FALSE
      BY <3>4, <3>5, <3>6, CloseChanges DEF Types
    <3>7. ASSUME NEW d \in Conns, NEW n \in 1 .. Events, Data(d, n)
          PROVE  FALSE
      <4> DEFINE socket == [state |-> sockets[d].state, sent |-> sockets[d].sent + n,
                            piped |-> sockets[d].piped /\ internal = "open"]
      <4>1. ButForThis(d, socket)
        BY <3>7, DataChanges DEF Types
      <4>2. ~socket.piped
        BY <3>1
      <4> QED
        BY <3>4, <4>1, <4>2
    <3>8. CASE DisablePipe \/ EnablePipe
      BY <2>2, <3>2, <3>4, <3>5, <3>8, SwitchChanges DEF Types
    <3> QED
      BY <3>2, <3>3, <3>6, <3>7, <3>8, SocketsChange
  <2> QED
    BY <2>1, <2>2
<1> QED
  BY <1>1, <1>2 DEF AddressFirst

\* Once the chart window has been heard of, or will be with the next message, the
\* last switch on its way, or else the flag, is what the button shows.
Follows ==
  internal # "none" \/ Addressed => Followed(toServer, pipe, visualization_enabled)

LEMMA SwitchMoves ==
  ASSUME [Next]_vars
  PROVE  \/ UNCHANGED <<toServer, pipe, visualization_enabled>>
         \/ /\ toServer # <<>> /\ toServer' = Tail(toServer) /\ UNCHANGED visualization_enabled
            /\ \/ pipe' = IF Head(toServer) \in Switches THEN Head(toServer) = "enable-pipe" ELSE pipe
               \/ UNCHANGED internal /\ internal = "none"
         \/ /\ UNCHANGED <<pipe, internal>>
            /\ \E m \in ToServer :
                 /\ toServer' = Append(toServer, m)
                 /\ IF m \in Switches THEN visualization_enabled' = (m = "enable-pipe")
                                      ELSE UNCHANGED visualization_enabled
<1>1. CASE UNCHANGED vars
  BY <1>1 DEF vars, server, channels, status
<1>2. CASE Connection \/ \E c \in Conns : Close(c) \/ Error(c) \/ \E n \in 1 .. Events : Data(c, n)
  BY <1>2 DEF Connection, Close, Error, Data, status
<1>3. CASE InternalServerAddress \/ PauseOrResume
  BY <1>3 DEF InternalServerAddress, PauseOrResume, ServerGets, ServerRest, server, status, Switches
<1>4. CASE DisablePipe
  BY <1>4 DEF DisablePipe, ServerGets, ServerRest, status, Switches
<1>5. CASE EnablePipe
  BY <1>5 DEF EnablePipe, ServerGets, ServerRest, server, status, Switches
<1>6. CASE ConnectionEstablished \/ ConnectionClosed \/ ExternalError
  BY <1>6 DEF ConnectionEstablished, ConnectionClosed, ExternalError, ChartRest, server
<1>7. CASE InnerData \/ InnerClose
  BY <1>7 DEF InnerData, InnerClose, server
<1>8. CASE ResetButton \/ UnpackButton
  BY <1>8 DEF ResetButton, UnpackButton, ButtonRest, server, channels, status
<1>9. CASE PauseOrResumeButton
  BY <1>9 DEF PauseOrResumeButton, ButtonRest, server, status, ToServer, Switches
<1>10. CASE ShouldVisualizeButton
  <2> DEFINE m == IF visualization_enabled THEN "disable-pipe" ELSE "enable-pipe"
  <2>1. /\ UNCHANGED <<pipe, internal>> /\ toServer' = Append(toServer, m)
        /\ visualization_enabled' = ~visualization_enabled
    BY <1>10 DEF ShouldVisualizeButton, ButtonRest, server
  <2>2. m \in ToServer /\ m \in Switches /\ visualization_enabled' = (m = "enable-pipe")
    BY <2>1 DEF ToServer, Switches
  <2> QED
    BY <2>1, <2>2
<1> QED
  BY <1>1, <1>2, <1>3, <1>4, <1>5, <1>6, <1>7, <1>8, <1>9, <1>10 DEF Next

LEMMA FollowsNext ==
  ASSUME Types, Types', AddressFirst, AddressFirst', Follows, [Next]_vars
  PROVE  Follows'
<1>1. /\ toServer \in Seq(ToServer) /\ toServer' \in Seq(ToServer)
      /\ pipe \in BOOLEAN /\ pipe' \in BOOLEAN
      /\ visualization_enabled \in BOOLEAN /\ visualization_enabled' \in BOOLEAN
  BY DEF Types, MessageTypes, FlagTypes
<1> SUFFICES ASSUME internal' # "none" \/ Addressed'
             PROVE  Followed(toServer', pipe', visualization_enabled')
  BY DEF Follows
<1>2. \* A message that is not the first stays behind it.
      ASSUME toServer # <<>>, toServer' = Tail(toServer)
      PROVE  ~Addressed'
  <2>1. /\ Len(toServer) \in Nat \ {0} /\ Len(toServer') = Len(toServer) - 1
        /\ \A i \in 1 .. (Len(toServer) - 1) : toServer'[i] = toServer[i + 1]
    BY <1>1, <1>2, TailIs
  <2>2. toServer' # <<>> => 1 \in 1 .. (Len(toServer) - 1) /\ 1 + 1 \in 1 .. Len(toServer)
    BY <1>1, <2>1
  <2>3. toServer' # <<>> => toServer'[1] # Address
    BY <2>1, <2>2 DEF AddressFirst
  <2> QED
    BY <2>3 DEF Addressed
<1>3. CASE UNCHANGED <<toServer, pipe, visualization_enabled>>
  <2>1. internal # "none" \/ Addressed
    BY <1>3, InternalStays DEF Addressed
  <2> QED
    BY <1>3, <2>1 DEF Follows
<1>4. ASSUME toServer # <<>>, toServer' = Tail(toServer), UNCHANGED visualization_enabled,
             pipe' = IF Head(toServer) \in Switches THEN Head(toServer) = "enable-pipe" ELSE pipe
      PROVE  Followed(toServer', pipe', visualization_enabled')
  <2>1. internal # "none" \/ Addressed
    BY <1>2, <1>4, InternalStays
  <2>2. Followed(toServer, pipe, visualization_enabled)
    BY <2>1 DEF Follows
  <2> QED
    BY <1>1, <1>4, <2>2, FollowedTail
<1>5. ASSUME toServer # <<>>, toServer' = Tail(toServer), UNCHANGED internal, internal = "none"
      PROVE  FALSE
  BY <1>2, <1>5
<1>6. ASSUME UNCHANGED <<pipe, internal>>, NEW m \in ToServer, toServer' = Append(toServer, m),
             IF m \in Switches THEN visualization_enabled' = (m = "enable-pipe")
                               ELSE UNCHANGED visualization_enabled
      PROVE  Followed(toServer', pipe', visualization_enabled')
  <2>1. CASE m \in Switches
    BY <1>1, <1>6, <2>1, FollowedAppend
  <2>2. CASE m \notin Switches
    <3>1. internal # "none" \/ Addressed
      <4>1. CASE toServer = <<>> /\ internal = "none"
        <5>1. m # Address
          <6>1. Len(Append(toServer, m)) = Len(toServer) + 1 /\ Len(toServer) \in Nat
            BY <1>1, AppendProperties
          <6>2. toServer # <<>> => Len(Tail(toServer)) = Len(toServer) - 1
            BY <1>1, TailIs
          <6>3. \A k \in ToServer : Append(toServer, k)[Len(toServer) + 1] = k
            BY <1>1, AppendProperties
          <6> QED
            BY <1>6, <4>1, <6>1, <6>2, <6>3, MessagesChange
        <5>2. toServer' = <<m>>
          BY <1>6, <4>1
        <5> QED
          BY <1>6, <4>1, <5>1, <5>2 DEF Addressed
      <4>2. CASE toServer # <<>>
        <5>1. Append(toServer, m)[1] = toServer[1]
          BY <1>1, <4>2, AppendProperties
        <5> QED
          BY <1>6, <4>2, <5>1 DEF Addressed
      <4> QED
        BY <4>1, <4>2
    <3>2. Followed(toServer, pipe, visualization_enabled)
      BY <3>1 DEF Follows
    <3> QED
      BY <1>1, <1>6, <2>2, <3>2, FollowedAppend
  <2> QED
    BY <2>1, <2>2
<1> QED
  BY <1>3, <1>4, <1>5, <1>6, SwitchMoves

SwitchInvariant == Types /\ AddressFirst /\ Follows

LEMMA SwitchInvariantHolds == Spec => []SwitchInvariant
<1>1. ASSUME Init
      PROVE  SwitchInvariant
  <2>1. toServer = <<Address>> /\ Len(toServer) = 1 /\ toServer[1] = Address /\ toServer # <<>>
    BY <1>1 DEF Init, Address
  <2>2. Address \notin Switches
    BY DEF Address, Switches
  <2>3. ClickedIn(toServer) = {}
    BY <2>1, <2>2 DEF ClickedIn
  <2>4. pipe = visualization_enabled
    BY <1>1 DEF Init
  <2>5. Follows
    BY <2>3, <2>4 DEF Follows, Followed
  <2>6. Conns = {} /\ internal = "none"
    <3>1. sockets = <<>> /\ internal = "none"
      BY <1>1 DEF Init
    <3>2. sockets \in Seq(Sockets) /\ Len(sockets) = 0
      BY <3>1
    <3>3. DOMAIN sockets = 1 .. 0
      BY <3>2, LenProperties
    <3> QED
      BY <3>1, <3>3 DEF Conns
  <2>7. AddressFirst
    BY <2>1, <2>6 DEF AddressFirst
  <2> QED
    BY <1>1, <2>5, <2>7, TypesInit DEF SwitchInvariant
<1>2. ASSUME SwitchInvariant, [Next]_vars
      PROVE  SwitchInvariant'
  <2>1. Types /\ AddressFirst /\ Follows
    BY <1>2 DEF SwitchInvariant
  <2>2. Types' /\ AddressFirst'
    BY <1>2, <2>1, TypesNext, AddressFirstNext
  <2>3. Follows'
    BY <1>2, <2>1, <2>2, FollowsNext
  <2> QED
    BY <2>2, <2>3 DEF SwitchInvariant
<1> QED
  BY <1>1, <1>2, PTL DEF Spec

\* When all messages have arrived the flag of the server window is what the button
\* of the chart window shows, whatever was clicked and whatever connections came
\* and went.
THEOREM PipeStaysWithButton == Spec => []PipeFollowsButton
<1>1. ASSUME SwitchInvariant
      PROVE  PipeFollowsButton
  <2>1. CASE internal = "none"
    BY <2>1 DEF PipeFollowsButton
  <2>2. CASE internal # "none"
    <3>1. /\ toServer \in Seq(ToServer) /\ Followed(toServer, pipe, visualization_enabled)
          /\ pipe \in BOOLEAN /\ visualization_enabled \in BOOLEAN
      BY <1>1, <2>2 DEF SwitchInvariant, Types, MessageTypes, FlagTypes, Follows
    <3>2. Clicked = ClickedIn(toServer)
      BY <3>1 DEF Clicked, ClickedIn
    <3>3. CASE Clicked = {}
      BY <3>1, <3>2, <3>3 DEF PipeFollowsButton, Switch, Followed
    <3>4. CASE Clicked # {}
      <4>1. Len(toServer) \in Nat /\ Clicked \in SUBSET (0 .. Len(toServer))
        BY <3>1, <3>2 DEF ClickedIn
      <4>2. PICK m \in Clicked : \A j \in Clicked : j <= m
        BY <3>4, <4>1, GreatestNumber
      <4>3. Max(Clicked) \in Clicked /\ \A j \in Clicked : j <= Max(Clicked)
        BY <4>2 DEF Max
      <4>4. (toServer[Max(Clicked)] = "enable-pipe") <=> visualization_enabled
        BY <3>1, <3>2, <4>3 DEF Followed
      <4> QED
        BY <3>1, <3>4, <4>4 DEF PipeFollowsButton, Switch
    <3> QED
      BY <3>3, <3>4
  <2> QED
    BY <2>1, <2>2
<1> QED
  BY <1>1, SwitchInvariantHolds, PTL

-----------------------------------------------------------------------------
(***************************************************************************)
(* The end.                                                                *)
(***************************************************************************)
\* Nothing follows the end of the internal socket.
EndIsLast ==
  \A i \in 1 .. Len(inner) : inner[i] = TheEnd => i = Len(inner) /\ internal = "ended"

LEMMA EndIsLastNext ==
  ASSUME Types, AddressFirst, EndIsLast, [Next]_vars
  PROVE  EndIsLast'
<1>1. inner \in Seq(Chunks) /\ Len(inner) \in Nat
  BY DEF Types, InnerTypes
<1>2. CASE UNCHANGED <<internal, inner>>
  BY <1>2 DEF EndIsLast
<1>3. ASSUME NEW x \in Chunks, inner' = Append(inner, x), internal = "open",
             x = TheEnd => internal' = "ended"
      PROVE  EndIsLast'
  <2>1. /\ Len(inner') = Len(inner) + 1 /\ inner'[Len(inner) + 1] = x
        /\ \A i \in 1 .. Len(inner) : inner'[i] = inner[i]
    BY <1>1, <1>3, AppendProperties
  <2>2. \A i \in 1 .. Len(inner') : i \in 1 .. Len(inner) \/ i = Len(inner')
    BY <1>1, <2>1
  <2>3. \A i \in 1 .. Len(inner) : inner[i] # TheEnd
    BY <1>3 DEF EndIsLast
  <2> QED
    BY <1>3, <2>1, <2>2, <2>3 DEF EndIsLast
<1>4. TheEnd \in Chunks
  BY DEF TheEnd, Chunks
<1>5. ASSUME UNCHANGED inner, internal = "none"
      PROVE  EndIsLast'
  BY <1>5 DEF EndIsLast
<1>6. toServer # <<>> /\ Head(toServer) = Address => internal = "none"
  <2>1. toServer # <<>> => 1 \in 1 .. Len(toServer) /\ Head(toServer) = toServer[1]
    BY TailIs DEF Types, MessageTypes
  <2> QED
    BY <2>1 DEF AddressFirst
<1>7. ASSUME UNCHANGED internal, inner # <<>>, inner' = Tail(inner)
      PROVE  EndIsLast'
  <2>1. /\ Len(inner) \in Nat \ {0} /\ Len(inner') = Len(inner) - 1
        /\ \A i \in 1 .. (Len(inner) - 1) : inner'[i] = inner[i + 1]
    BY <1>1, <1>7, TailIs
  <2>2. \A i \in 1 .. Len(inner') : i + 1 \in 1 .. Len(inner) /\ (i + 1 = Len(inner) => i = Len(inner'))
    BY <2>1
  <2> QED
    BY <1>7, <2>1, <2>2 DEF EndIsLast
<1> QED
  BY <1>2, <1>3, <1>4, <1>5, <1>6, <1>7, InnerChanges DEF Types

\* Once the end has been written and taken, nothing moves on the internal socket.
LEMMA EndStays ==
  ASSUME Types, AddressFirst, internal = "ended", inner = <<>>, [Next]_vars
  PROVE  internal' = "ended" /\ inner' = <<>>
BY InternalStays, InnerChanges DEF Types

LEMMA EndTaken ==
  ASSUME Types, EndIsLast, inner # <<>>, Head(inner) = TheEnd
  PROVE  internal = "ended" /\ Tail(inner) = <<>>
<1> DEFINE t == Tail(inner)
<1>1. /\ Len(inner) \in Nat \ {0} /\ Head(inner) = inner[1]
      /\ t \in Seq(Chunks) /\ Len(t) = Len(inner) - 1
  BY TailIs DEF Types, InnerTypes
<1> HIDE DEF t
<1>2. 1 \in 1 .. Len(inner)
  BY <1>1
<1>3. 1 = Len(inner) /\ internal = "ended"
  BY <1>1, <1>2 DEF EndIsLast
<1>4. Len(t) = 0
  <2>1. Len(t) = Len(inner) - 1 /\ Len(inner) = 1
    BY <1>1, <1>3
  <2> QED
    BY <2>1
<1>5. t = <<>>
  BY <1>1, <1>4
<1> QED
  BY <1>3, <1>5 DEF t

\* The decoder has EndStream when it has all events.
Complete == decoder.end => Len(decoder.decoded) = Events

LEMMA CompleteNext ==
  ASSUME Types, Complete, [Next]_vars
  PROVE  Complete'
<1>1. UNCHANGED decoder => Complete'
  BY DEF Complete
<1>2. decoder' = NewDecoder => Complete'
  BY DEF Complete, NewDecoder
<1>3. ASSUME NEW from, NEW last \in 0 .. Events, Grows(decoder, decoder', from, last)
      PROVE  Complete'
  <2>1. /\ Len(decoder.decoded) < last /\ Len(decoder'.decoded) = last
        /\ Len(decoder.decoded) \in Nat
        /\ decoder' = [decoded |-> decoder'.decoded, end |-> decoder.end \/ last = Events]
    BY <1>3 DEF Grows, Types, DecoderTypes, Decoded
  <2>2. decoder'.end = (decoder.end \/ last = Events)
    BY <2>1
  <2>3. ~decoder.end
    BY <2>1 DEF Complete
  <2> QED
    BY <2>1, <2>2, <2>3 DEF Complete
<1>4. \A x \in Chunks : x.last \in 0 .. Events
  BY DEF Chunks
<1>5. Events \in 0 .. Events
  OBVIOUS
<1> QED
  BY <1>1, <1>2, <1>3, <1>4, <1>5, DecoderChanges DEF Types

\* An event of a connection, not of a file.
Live == \E k \in DOMAIN decoder.decoded : decoder.decoded[k][1] # 0

\* With a part of a connection in the decoder, what stops the collecting is the end
\* of the internal socket.
Stopped == ~collecting /\ Live => internal = "ended" /\ inner = <<>>

\* A step that stops the collecting takes that end.
LEMMA CollectingStops ==
  ASSUME [Next]_vars, ~collecting'
  PROVE  \/ ~collecting
         \/ inner # <<>> /\ Head(inner) = TheEnd /\ inner' = Tail(inner) /\ UNCHANGED internal
<1>1. CASE UNCHANGED vars
  BY <1>1 DEF vars, status
<1>2. CASE Connection \/ \E c \in Conns : Close(c) \/ Error(c) \/ \E n \in 1 .. Events : Data(c, n)
  BY <1>2 DEF Connection, Close, Error, Data, status
<1>3. CASE InternalServerAddress \/ PauseOrResume \/ DisablePipe \/ EnablePipe
  BY <1>3 DEF InternalServerAddress, PauseOrResume, DisablePipe, EnablePipe, ServerRest, status
<1>4. CASE ConnectionEstablished \/ ConnectionClosed \/ ExternalError
  BY <1>4 DEF ConnectionEstablished, ConnectionClosed, ExternalError
<1>5. CASE InnerData \/ InnerClose
  BY <1>5 DEF InnerData, InnerClose, server
<1>6. CASE PauseOrResumeButton \/ ResetButton \/ ShouldVisualizeButton \/ UnpackButton
  BY <1>6 DEF PauseOrResumeButton, ResetButton, ShouldVisualizeButton, UnpackButton, status
<1> QED
  BY <1>1, <1>2, <1>3, <1>4, <1>5, <1>6 DEF Next

LEMMA FileIsNotLive ==
  ASSUME Types, Grows(decoder, decoder', 0, Events), Live'
  PROVE  Live
<1>1. /\ decoder'.decoded \in Decoded /\ Len(decoder'.decoded) = Events
      /\ \A k \in 1 .. Len(decoder.decoded) : decoder'.decoded[k] = decoder.decoded[k]
      /\ \A k \in (Len(decoder.decoded) + 1) .. Events : decoder'.decoded[k] = <<0, k>>
  BY DEF Grows
<1>2. PICK k \in DOMAIN decoder'.decoded : decoder'.decoded[k][1] # 0
  BY DEF Live
<1>3. k \in 1 .. Events
  BY <1>1, <1>2 DEF Decoded
<1>4. Len(decoder.decoded) \in Nat /\ DOMAIN decoder.decoded = 1 .. Len(decoder.decoded)
  BY DEF Types, DecoderTypes, Decoded
<1>5. k \notin (Len(decoder.decoded) + 1) .. Events
  BY <1>1, <1>2
<1>6. k \in 1 .. Len(decoder.decoded)
  BY <1>3, <1>4, <1>5
<1> QED
  BY <1>1, <1>2, <1>4, <1>6 DEF Live

LEMMA StoppedNext ==
  ASSUME Types, AddressFirst, EndIsLast, Stopped, [Next]_vars
  PROVE  Stopped'
<1> SUFFICES ASSUME ~collecting', Live'
             PROVE  internal' = "ended" /\ inner' = <<>>
  BY DEF Stopped
<1>1. CASE ~collecting
  <2>1. Live
    <3>1. decoder' = NewDecoder => ~Live'
      BY DEF NewDecoder, Live
    <3>2. UNCHANGED decoder => Live
      BY DEF Live
    <3> QED
      BY <3>1, <3>2, FileIsNotLive, DecoderChanges DEF Types
  <2> QED
    BY <1>1, <2>1, EndStays DEF Stopped
<1>2. CASE inner # <<>> /\ Head(inner) = TheEnd /\ inner' = Tail(inner) /\ UNCHANGED internal
  BY <1>2, EndTaken
<1> QED
  BY <1>1, <1>2, CollectingStops

EndInvariant == Types /\ AddressFirst /\ EndIsLast /\ Complete /\ Stopped

LEMMA EndInvariantInit ==
  ASSUME Init
  PROVE  EndInvariant
<1>1. Types /\ AddressFirst
  <2>1. toServer = <<Address>> /\ Len(toServer) = 1 /\ internal = "none" /\ sockets = <<>>
    BY DEF Init, Address
  <2>2. sockets \in Seq(Sockets) /\ Len(sockets) = 0
    BY <2>1
  <2>3. Conns = {}
    BY <2>2, LenProperties DEF Conns
  <2> QED
    BY <2>1, <2>3, TypesInit DEF AddressFirst
<1>2. EndIsLast
  <2>1. Len(inner) = 0
    BY DEF Init
  <2> QED
    BY <2>1 DEF EndIsLast
<1>3. Complete
  BY DEF Complete, Init, NewDecoder
<1>4. Stopped
  <2>1. decoder.decoded = <<>>
    BY DEF Init, NewDecoder
  <2>2. decoder.decoded \in Decoded /\ Len(decoder.decoded) = 0
    BY <2>1 DEF Decoded
  <2>3. DOMAIN decoder.decoded = {}
    BY <2>2, LenProperties DEF Decoded
  <2> QED
    BY <2>3 DEF Stopped, Live
<1> QED
  BY <1>1, <1>2, <1>3, <1>4 DEF EndInvariant

LEMMA EndInvariantNext ==
  ASSUME EndInvariant, [Next]_vars
  PROVE  EndInvariant'
<1>1. Types /\ AddressFirst /\ EndIsLast /\ Complete /\ Stopped
  BY DEF EndInvariant
<1>2. Types' /\ AddressFirst' /\ EndIsLast' /\ Complete' /\ Stopped'
  BY <1>1, TypesNext, AddressFirstNext, EndIsLastNext, CompleteNext, StoppedNext
<1> QED
  BY <1>2 DEF EndInvariant

\* "Reset" comes through only when the last event of a connection that the decoder
\* may ever get has come: the buttons' refusal while collecting is enough.
THEOREM ResetStaysSafe == Spec => ResetIsSafe
<1>1. ASSUME EndInvariant, [Next]_vars, decoder' = NewDecoder, Live
      PROVE  internal = "ended" /\ inner = <<>>
  <2>1. \A from, last : Grows(decoder, decoder', from, last) => FALSE
    <3> SUFFICES ASSUME NEW from, NEW last, Grows(decoder, decoder', from, last)
                 PROVE  FALSE
      OBVIOUS
    <3>1. Len(decoder.decoded) < Len(decoder'.decoded) /\ Len(decoder.decoded) \in Nat
      BY <1>1 DEF Grows, EndInvariant, Types, DecoderTypes, Decoded
    <3>2. Len(decoder'.decoded) = 0
      BY <1>1 DEF NewDecoder
    <3> QED
      BY <3>1, <3>2
  <2>2. decoder # NewDecoder
    <3>1. NewDecoder.decoded \in Decoded /\ Len(NewDecoder.decoded) = 0
      BY DEF NewDecoder, Decoded
    <3>2. DOMAIN NewDecoder.decoded = {}
      BY <3>1, LenProperties DEF Decoded
    <3> QED
      BY <1>1, <3>2 DEF Live
  <2>3. ~collecting
    BY <1>1, <2>1, <2>2, DecoderChanges DEF EndInvariant, Types
  <2> QED
    BY <1>1, <2>3 DEF EndInvariant, Stopped
<1>2. ASSUME EndInvariant, [Next]_vars
      PROVE  [(decoder' = NewDecoder /\ \E k \in DOMAIN decoder.decoded : decoder.decoded[k][1] # 0)
                => internal = "ended" /\ inner = <<>>]_vars
  BY <1>1, <1>2 DEF Live
<1>3. Init => EndInvariant
  BY EndInvariantInit
<1>4. EndInvariant /\ [Next]_vars => EndInvariant'
  BY EndInvariantNext
<1> QED
  BY <1>2, <1>3, <1>4, PTL DEF Spec, ResetIsSafe

-----------------------------------------------------------------------------
(***************************************************************************)
(* The first connection.                                                   *)
(***************************************************************************)
\* Only what its program has open is piped.
PipedIsOpen == \A c \in Conns : sockets[c].piped => sockets[c].state \in {"open", "broken"}

\* Connections that come one by one: a first connection that is not piped to an
\* internal socket that may still be written was kept from it by the flag, and then
\* every later one is kept from it, too.
OneByOne ==
  /\ \A c \in Conns : sockets[c].state # "lost"
  /\ \A c \in Conns : c # 1 /\ sockets[c].piped => internal = "ended"
  /\ sockets # <<>> /\ sockets[1].state \in {"open", "closed"} /\ ~sockets[1].piped
       /\ internal # "ended" => ~pipe

LEMMA ServerChanges ==
  ASSUME [Next]_vars
  PROVE  \/ UNCHANGED <<sockets, pipe>>
         \/ Connection
         \/ \E c \in Conns : Close(c) \/ Error(c) \/ \E n \in 1 .. Events : Data(c, n)
         \/ DisablePipe \/ EnablePipe
BY DEF Next, vars, server, InternalServerAddress, PauseOrResume, ConnectionEstablished,
       ConnectionClosed, ExternalError, ChartRest, InnerData, InnerClose, PauseOrResumeButton,
       ResetButton, ShouldVisualizeButton, UnpackButton, ButtonRest

LEMMA DisturbedStays ==
  ASSUME FlagTypes, [Next]_vars, disturbed
  PROVE  disturbed'
BY DEF Next, vars, ghosts, Connection, Data, Close, Error, InternalServerAddress, PauseOrResume,
       DisablePipe, EnablePipe, ServerRest, ConnectionEstablished, ConnectionClosed, ExternalError,
       ChartRest, InnerData, InnerClose, PauseOrResumeButton, ResetButton, ShouldVisualizeButton,
       UnpackButton, ButtonRest

LEMMA PipedIsOpenNext ==
  ASSUME Types, PipedIsOpen, [Next]_vars
  PROVE  PipedIsOpen'
<1>1. CASE UNCHANGED sockets
  BY <1>1 DEF PipedIsOpen, Conns
<1>2. CASE Connection
  <2>1. /\ Len(sockets) \in Nat /\ Len(sockets') = Len(sockets) + 1
        /\ sockets'[Len(sockets) + 1].state \in {"open", "broken"}
        /\ \A c \in Conns : sockets'[c] = sockets[c]
    BY <1>2, ConnectionAppends DEF Types, SocketTypes
  <2>2. Conns = 1 .. Len(sockets) /\ Conns' = 1 .. Len(sockets')
    BY <1>2, ConnectionAppends DEF Conns, Types, SocketTypes
  <2>3. \A c \in Conns' : c \in Conns \/ c = Len(sockets) + 1
    BY <2>1, <2>2
  <2> QED
    BY <2>1, <2>3 DEF PipedIsOpen
<1>3. ASSUME NEW c \in Conns, NEW socket, ButForThis(c, socket),
             socket.piped => socket.state \in {"open", "broken"}
      PROVE  PipedIsOpen'
  <2>1. Conns' = Conns /\ sockets'[c] = socket /\ \A d \in Conns \ {c} : sockets'[d] = sockets[d]
    BY <1>3, ButForTypes DEF Types, ButForThis, ButFor, Conns
  <2> QED
    BY <1>3, <2>1 DEF PipedIsOpen
<1>4. ASSUME NEW c \in Conns, Close(c) \/ Error(c)
      PROVE  PipedIsOpen'
  <2>1. \A s : ~Piped(c, s, FALSE).piped
    BY DEF Piped
  <2> QED
    BY <1>3, <1>4, <2>1, CloseChanges DEF Types
<1>5. ASSUME NEW c \in Conns, NEW n \in 1 .. Events, Data(c, n)
      PROVE  PipedIsOpen'
  <2> DEFINE socket == [state |-> sockets[c].state, sent |-> sockets[c].sent + n,
                        piped |-> sockets[c].piped /\ internal = "open"]
  <2>1. ButForThis(c, socket)
    BY <1>5, DataChanges DEF Types
  <2>2. socket.piped => socket.state \in {"open", "broken"}
    BY DEF PipedIsOpen
  <2> QED
    BY <1>3, <2>1, <2>2
<1>6. CASE DisablePipe \/ EnablePipe
  <2> DEFINE closes == Piped(1, sockets[1].state, FALSE)
             opens == Piped(1, sockets[1].state, sockets[1].state \in {"open", "broken"})
  <2>1. ~closes.piped /\ (opens.piped => opens.state \in {"open", "broken"})
    BY DEF Piped
  <2>2. \/ UNCHANGED sockets
        \/ 1 \in Conns /\ (ButForThis(1, closes) \/ ButForThis(1, opens))
    BY <1>6, SwitchChanges DEF Types
  <2> QED
    BY <1>1, <1>3, <2>1, <2>2
<1> QED
  BY <1>1, <1>2, <1>4, <1>5, <1>6, SocketsChange

LEMMA OneByOneNext ==
  ASSUME Types, AddressFirst, PipedIsOpen, OneByOne, [Next]_vars, ~disturbed'
  PROVE  OneByOne'
<1>1. internal' # "ended" => internal # "ended"
  BY InternalStays
<1>2. sockets # <<>> <=> 1 \in Conns
  BY DEF Types, SocketTypes, Conns
<1>3. CASE UNCHANGED <<sockets, pipe>>
  BY <1>1, <1>3 DEF OneByOne, Conns
<1>4. CASE Connection
  <2> DEFINE new == Len(sockets) + 1
  <2>1. UNCHANGED <<pipe, internal>> /\ ~SomeOpen
    BY <1>4 DEF Connection
  <2>2. /\ Len(sockets) \in Nat /\ Len(sockets') = new
        /\ sockets'[new].state = IF pipe /\ internal = "none" THEN "broken" ELSE "open"
        /\ sockets'[new].piped = (pipe /\ internal # "none")
        /\ \A c \in Conns : sockets'[c] = sockets[c]
    BY <1>4, ConnectionAppends DEF Types, SocketTypes
  <2>3. Conns = 1 .. Len(sockets) /\ Conns' = 1 .. new
    BY <1>4, ConnectionAppends DEF Conns, Types, SocketTypes
  <2>4. \A c \in Conns' : c \in Conns \/ c = new
    BY <2>2, <2>3
  <2>5. \A c \in Conns' : sockets'[c].state # "lost"
    BY <2>2, <2>4 DEF OneByOne
  <2>6. ASSUME 1 \in Conns
        PROVE  sockets[1].state = "closed" /\ ~sockets[1].piped /\ (internal # "ended" => ~pipe)
    <3>1. sockets[1].state \in {"open", "broken", "closed", "lost"}
      BY <2>6, ConnIs DEF Types
    <3>2. sockets[1].state = "closed"
      BY <2>1, <2>6, <3>1 DEF SomeOpen, OneByOne
    <3>3. ~sockets[1].piped
      BY <2>6, <3>2 DEF PipedIsOpen
    <3> QED
      BY <1>2, <2>6, <3>2, <3>3 DEF OneByOne
  <2>7. \A c \in Conns' : c # 1 /\ sockets'[c].piped => internal' = "ended"
    <3>1. new # 1 => 1 \in Conns
      BY <2>2, <2>3
    <3> QED
      BY <2>1, <2>2, <2>4, <2>6, <3>1 DEF OneByOne
  <2>8. sockets' # <<>> /\ sockets'[1].state \in {"open", "closed"} /\ ~sockets'[1].piped
          /\ internal' # "ended" => ~pipe'
    <3>1. CASE 1 \in Conns
      BY <2>1, <2>6, <3>1
    <3>2. CASE 1 \notin Conns
      <4>1. new = 1
        BY <2>2, <2>3, <3>2
      <4>2. internal \in {"none", "open", "ended"}
        BY DEF Types, FlagTypes
      <4> QED
        BY <2>1, <2>2, <4>1, <4>2
    <3> QED
      BY <3>1, <3>2
  <2> QED
    BY <2>5, <2>7, <2>8 DEF OneByOne
<1>5. ASSUME NEW c \in Conns, NEW n \in 1 .. Events, Data(c, n)
      PROVE  OneByOne'
  <2> DEFINE socket == [state |-> sockets[c].state, sent |-> sockets[c].sent + n,
                        piped |-> sockets[c].piped /\ internal = "open"]
  <2>1. ButForThis(c, socket) /\ UNCHANGED <<pipe, internal>>
    BY <1>5, DataChanges DEF Types, Data
  <2>2. /\ Conns' = Conns /\ sockets'[c] = socket /\ sockets # <<>>
        /\ \A d \in Conns \ {c} : sockets'[d] = sockets[d]
    BY <2>1, ButForTypes DEF Types, ButForThis, ButFor, Conns
  <2>3. /\ sockets'[c].state = sockets[c].state
        /\ sockets'[c].piped = (sockets[c].piped /\ internal = "open")
    BY <2>2
  <2> HIDE DEF socket
  <2>4. sockets[c].piped => internal # "none"
    BY DEF AddressFirst
  <2>5. internal \in {"none", "open", "ended"}
    BY DEF Types, FlagTypes
  <2>6. \A d \in Conns : sockets'[d].state = sockets[d].state
    BY <2>2, <2>3
  <2>7. \A d \in Conns : sockets'[d].piped => sockets[d].piped
    BY <2>2, <2>3
  <2>8. \A d \in Conns : ~sockets'[d].piped /\ internal # "ended" => ~sockets[d].piped
    BY <2>2, <2>3, <2>4, <2>5
  <2>9. \A d \in Conns' : sockets'[d].state # "lost"
    BY <2>2, <2>6 DEF OneByOne
  <2>10. \A d \in Conns' : d # 1 /\ sockets'[d].piped => internal' = "ended"
    BY <2>1, <2>2, <2>7 DEF OneByOne
  <2>11. sockets' # <<>> /\ sockets'[1].state \in {"open", "closed"} /\ ~sockets'[1].piped
          /\ internal' # "ended" => ~pipe'
    BY <1>2, <2>1, <2>2, <2>6, <2>8 DEF OneByOne
  <2> QED
    BY <2>9, <2>10, <2>11 DEF OneByOne
<1>6. ASSUME NEW c \in Conns, Close(c)
      PROVE  OneByOne'
  <2>1. ButForThis(c, Piped(c, "closed", FALSE)) /\ UNCHANGED pipe
    BY <1>6, CloseChanges DEF Types, Close
  <2>2. /\ Conns' = Conns /\ sockets'[c] = Piped(c, "closed", FALSE) /\ sockets # <<>>
        /\ \A d \in Conns \ {c} : sockets'[d] = sockets[d]
    BY <2>1, ButForTypes DEF Types, ButForThis, ButFor, Conns
  <2>3. sockets'[c].state = "closed" /\ ~sockets'[c].piped
    BY <2>2 DEF Piped
  <2>4. \A d \in Conns' : sockets'[d].state # "lost"
    BY <2>2, <2>3 DEF OneByOne
  <2>5. \A d \in Conns' : d # 1 /\ sockets'[d].piped => internal' = "ended"
    BY <1>1, <2>2, <2>3, InternalStays DEF OneByOne
  <2>6. ASSUME sockets'[1].state \in {"open", "closed"}, ~sockets'[1].piped, internal' # "ended"
        PROVE  ~pipe'
    <3>1. CASE c # 1
      BY <1>1, <1>2, <2>1, <2>2, <2>6, <3>1 DEF OneByOne
    <3>2. CASE c = 1 /\ sockets[1].piped
      <4>1. internal # "none"
        BY <3>2 DEF AddressFirst
      <4>2. internal = "open" \/ internal = "ended"
        BY <4>1 DEF Types, FlagTypes
      <4>3. internal' = "ended"
        BY <1>6, <3>2, <4>2 DEF Close, EndsInternal
      <4> QED
        BY <2>6, <4>3
    <3>3. CASE c = 1 /\ ~sockets[1].piped
      <4>1. sockets[1].state = "open"
        BY <1>6, <3>3 DEF Close, Reads, Open
      <4> QED
        BY <1>1, <2>1, <2>2, <2>6, <3>3, <4>1 DEF OneByOne
    <3> QED
      BY <3>1, <3>2, <3>3
  <2> QED
    BY <2>4, <2>5, <2>6 DEF OneByOne
<1>7. ASSUME NEW c \in Conns, Error(c)
      PROVE  FALSE
  BY <1>7 DEF Error
<1>8. ASSUME NEW p \in BOOLEAN, sockets # <<>>, ButForThis(1, Piped(1, sockets[1].state, p)),
             internal' # "ended" /\ sockets[1].state \in {"open", "closed"} /\ ~p => ~pipe'
      PROVE  OneByOne'
  <2>1. /\ Conns' = Conns /\ sockets'[1] = Piped(1, sockets[1].state, p)
        /\ \A d \in Conns \ {1} : sockets'[d] = sockets[d]
    BY <1>2, <1>8, ButForTypes DEF Types, ButForThis, ButFor, Conns
  <2>2. sockets'[1].state = sockets[1].state /\ sockets'[1].piped = p
    BY <2>1 DEF Piped
  <2>3. \A d \in Conns' : sockets'[d].state # "lost"
    BY <2>1, <2>2 DEF OneByOne
  <2>4. \A d \in Conns' : d # 1 /\ sockets'[d].piped => internal' = "ended"
    BY <1>1, <2>1, InternalStays DEF OneByOne
  <2>5. sockets'[1].state \in {"open", "closed"} /\ ~sockets'[1].piped /\ internal' # "ended" => ~pipe'
    BY <1>8, <2>2
  <2> QED
    BY <2>3, <2>4, <2>5 DEF OneByOne
<1>9. CASE DisablePipe
  <2>1. ~pipe'
    BY <1>9 DEF DisablePipe
  <2>2. CASE UNCHANGED sockets
    BY <1>1, <2>1, <2>2, InternalStays DEF OneByOne, Conns
  <2>3. CASE sockets # <<>> /\ ButForThis(1, Piped(1, sockets[1].state, FALSE))
    BY <1>8, <2>1, <2>3
  <2> QED
    BY <1>9, <2>2, <2>3, SwitchChanges DEF Types
<1>10. CASE EnablePipe
  <2>1. CASE sockets = <<>> /\ UNCHANGED sockets
    BY <1>2, <2>1 DEF OneByOne, Conns
  <2>2. CASE sockets # <<>> /\ internal = "none"
    BY <1>3, <1>10, <2>2 DEF EnablePipe, server
  <2>3. CASE sockets # <<>> /\ internal # "none"
    <3> DEFINE p == sockets[1].state \in {"open", "broken"}
    <3>1. ButForThis(1, Piped(1, sockets[1].state, p))
      BY <1>10, <2>3, SwitchChanges DEF Types
    <3>2. sockets[1].state = "closed" => internal' = "ended"
      <4>1. internal = "open" \/ internal = "ended"
        BY <2>3 DEF Types, FlagTypes
      <4> QED
        BY <1>10, <2>3, <4>1 DEF EnablePipe, EndsInternal
    <3>3. internal' # "ended" /\ sockets[1].state \in {"open", "closed"} /\ ~p => ~pipe'
      BY <3>2
    <3>4. p \in BOOLEAN
      OBVIOUS
    <3> HIDE DEF p
    <3> QED
      BY <1>8, <2>3, <3>1, <3>3, <3>4
  <2> QED
    BY <1>10, <2>1, <2>2, <2>3 DEF EnablePipe
<1> QED
  BY <1>3, <1>4, <1>5, <1>6, <1>7, <1>9, <1>10, ServerChanges

\* What is on the internal socket and in the decoder, then, is the first one's.
FromFirst ==
  /\ \A i \in 1 .. Len(inner) : inner[i] = TheEnd \/ inner[i].from = 1
  /\ \A k \in 1 .. Len(decoder.decoded) : decoder.decoded[k] = <<1, k>>
  /\ inner # <<>> \/ decoder.decoded # <<>> => sockets # <<>>

LEMMA ConnsStay ==
  ASSUME Types, [Next]_vars, sockets # <<>>
  PROVE  sockets' # <<>>
<1>1. 1 \in Conns
  BY SwitchChanges DEF Types
<1>2. Connection => Len(sockets') = Len(sockets) + 1 /\ Len(sockets) \in Nat
  BY ConnectionAppends DEF Types, SocketTypes
<1>3. \A c, socket : ButForThis(c, socket) => Conns' = Conns
  BY ButForTypes DEF Types
<1>4. Connection => sockets' # <<>>
  BY <1>2
<1>5. Conns' = Conns => sockets' # <<>>
  <2>1. Types'
    BY TypesNext
  <2>2. Conns' = 1 .. Len(sockets')
    BY <2>1, LenProperties DEF Types, SocketTypes, Conns
  <2> QED
    BY <1>1, <2>2
<1>6. ASSUME NEW c \in Conns, Close(c) \/ Error(c) \/ \E n \in 1 .. Events : Data(c, n)
      PROVE  Conns' = Conns
  BY <1>3, <1>6, CloseChanges, DataChanges DEF Types
<1>7. DisablePipe \/ EnablePipe => Conns' = Conns
  BY <1>3, SwitchChanges DEF Types, Conns
<1> QED
  BY <1>4, <1>5, <1>6, <1>7, SocketsChange

LEMMA FromFirstNext ==
  ASSUME Types, OneByOne, FromFirst, [Next]_vars, ~disturbed'
  PROVE  FromFirst'
<1>1. inner \in Seq(Chunks) /\ Len(inner) \in Nat
  BY DEF Types, InnerTypes
<1>2. \A i \in 1 .. Len(inner') : inner'[i] = TheEnd \/ inner'[i].from = 1
  <2>1. ASSUME NEW x \in Chunks, inner' = Append(inner, x), x = TheEnd \/ x.from = 1
        PROVE  \A i \in 1 .. Len(inner') : inner'[i] = TheEnd \/ inner'[i].from = 1
    <3>1. /\ Len(inner') = Len(inner) + 1 /\ inner'[Len(inner) + 1] = x
          /\ \A i \in 1 .. Len(inner) : inner'[i] = inner[i]
      BY <1>1, <2>1, AppendProperties
    <3>2. \A i \in 1 .. Len(inner') : i \in 1 .. Len(inner) \/ i = Len(inner) + 1
      BY <1>1, <3>1
    <3> QED
      BY <2>1, <3>1, <3>2 DEF FromFirst
  <2>2. ASSUME inner # <<>>, inner' = Tail(inner)
        PROVE  \A i \in 1 .. Len(inner') : inner'[i] = TheEnd \/ inner'[i].from = 1
    <3>1. /\ Len(inner) \in Nat \ {0} /\ Len(inner') = Len(inner) - 1
          /\ \A i \in 1 .. (Len(inner) - 1) : inner'[i] = inner[i + 1]
      BY <1>1, <2>2, TailIs
    <3>2. \A i \in 1 .. Len(inner') : i + 1 \in 1 .. Len(inner)
      BY <3>1
    <3> QED
      BY <3>1, <3>2 DEF FromFirst
  <2>3. UNCHANGED inner => \A i \in 1 .. Len(inner') : inner'[i] = TheEnd \/ inner'[i].from = 1
    BY DEF FromFirst
  <2>4. ASSUME NEW c \in Conns, NEW n \in 1 .. Events, sockets[c].piped, internal = "open"
        PROVE  Chunk(c, n).from = 1
    <3>1. c = 1
      BY <2>4 DEF OneByOne
    <3> QED
      BY <3>1 DEF Chunk
  <2>5. TheEnd \in Chunks
    BY DEF TheEnd, Chunks
  <2> QED
    BY <2>1, <2>2, <2>3, <2>4, <2>5, InnerChanges DEF Types
<1>3. \A k \in 1 .. Len(decoder'.decoded) : decoder'.decoded[k] = <<1, k>>
  <2>1. decoder' = NewDecoder => Len(decoder'.decoded) = 0
    BY DEF NewDecoder
  <2>2. UNCHANGED decoder => \A k \in 1 .. Len(decoder'.decoded) : decoder'.decoded[k] = <<1, k>>
    BY DEF FromFirst
  <2>3. ASSUME NEW last \in 0 .. Events, Grows(decoder, decoder', 1, last)
        PROVE  \A k \in 1 .. Len(decoder'.decoded) : decoder'.decoded[k] = <<1, k>>
    <3>1. /\ Len(decoder'.decoded) = last
          /\ \A k \in 1 .. Len(decoder.decoded) : decoder'.decoded[k] = decoder.decoded[k]
          /\ \A k \in (Len(decoder.decoded) + 1) .. last : decoder'.decoded[k] = <<1, k>>
      BY <2>3 DEF Grows
    <3>2. Len(decoder.decoded) \in Nat
      BY DEF Types, DecoderTypes, Decoded
    <3>3. \A k \in 1 .. last : k \in 1 .. Len(decoder.decoded) \/ k \in (Len(decoder.decoded) + 1) .. last
      BY <3>2
    <3> QED
      BY <3>1, <3>3 DEF FromFirst
  <2>4. inner # <<>> /\ Head(inner) # TheEnd /\ Head(inner) \in Chunks =>
          Head(inner).from = 1 /\ Head(inner).last \in 0 .. Events
    <3>1. inner # <<>> => 1 \in 1 .. Len(inner) /\ Head(inner) = inner[1]
      BY <1>1, TailIs
    <3> QED
      BY <3>1 DEF FromFirst, Chunks
  <2>5. \/ UNCHANGED decoder
        \/ decoder' = NewDecoder
        \/ /\ inner # <<>> /\ Head(inner) # TheEnd /\ Head(inner) \in Chunks
           /\ Grows(decoder, decoder', Head(inner).from, Head(inner).last)
    BY DecoderChanges DEF Types
  <2>6. CASE /\ inner # <<>> /\ Head(inner) # TheEnd /\ Head(inner) \in Chunks
             /\ Grows(decoder, decoder', Head(inner).from, Head(inner).last)
    <3>1. Head(inner).last \in 0 .. Events /\ Grows(decoder, decoder', 1, Head(inner).last)
      BY <2>4, <2>6
    <3> QED
      BY <2>3, <3>1
  <2> QED
    BY <2>1, <2>2, <2>5, <2>6
<1>4. inner' # <<>> \/ decoder'.decoded # <<>> => sockets' # <<>>
  <2>1. Conns # {} => sockets # <<>>
    BY DEF Types, SocketTypes, Conns
  <2>2. inner' # <<>> => sockets # <<>>
    BY <2>1, InnerChanges DEF FromFirst, Types
  <2>3. UNCHANGED decoder \/ decoder' = NewDecoder \/ inner # <<>>
    BY DecoderChanges DEF Types
  <2>4. decoder'.decoded # <<>> => sockets # <<>>
    BY <2>3 DEF FromFirst, NewDecoder
  <2> QED
    BY <2>2, <2>4, ConnsStay
<1> QED
  BY <1>2, <1>3, <1>4 DEF FromFirst

\* The message is there when the end of the internal socket has been taken.
EndedCorrectly ==
  message = "Connection ended correctly" =>
    /\ internal = "ended" /\ inner = <<>>
    /\ ~disturbed => decoder = NewDecoder \/ Len(decoder.decoded) = Events

LEMMA MessageComes ==
  ASSUME [Next]_vars, message' = "Connection ended correctly"
  PROVE  \/ UNCHANGED message
         \/ /\ inner # <<>> /\ Head(inner) = TheEnd /\ inner' = Tail(inner)
            /\ decoder.end /\ UNCHANGED <<internal, decoder>>
<1>1. CASE UNCHANGED vars
  BY <1>1 DEF vars, status
<1>2. CASE Connection \/ \E c \in Conns : Close(c) \/ Error(c) \/ \E n \in 1 .. Events : Data(c, n)
  BY <1>2 DEF Connection, Close, Error, Data, status
<1>3. CASE InternalServerAddress \/ PauseOrResume \/ DisablePipe \/ EnablePipe
  BY <1>3 DEF InternalServerAddress, PauseOrResume, DisablePipe, EnablePipe, ServerRest, status
<1>4. CASE ConnectionEstablished \/ ConnectionClosed \/ ExternalError
  BY <1>4 DEF ConnectionEstablished, ConnectionClosed, ExternalError
<1>5. CASE InnerData \/ InnerClose
  BY <1>5 DEF InnerData, InnerClose, server
<1>6. CASE PauseOrResumeButton \/ ResetButton \/ ShouldVisualizeButton \/ UnpackButton
  BY <1>6 DEF PauseOrResumeButton, ResetButton, ShouldVisualizeButton, UnpackButton, status
<1> QED
  BY <1>1, <1>2, <1>3, <1>4, <1>5, <1>6 DEF Next

LEMMA EndedCorrectlyNext ==
  ASSUME EndInvariant, EndedCorrectly, [Next]_vars
  PROVE  EndedCorrectly'
<1> SUFFICES ASSUME message' = "Connection ended correctly"
             PROVE  /\ internal' = "ended" /\ inner' = <<>>
                    /\ ~disturbed' => decoder' = NewDecoder \/ Len(decoder'.decoded) = Events
  BY DEF EndedCorrectly
<1>1. Types /\ AddressFirst /\ EndIsLast /\ Complete
  BY DEF EndInvariant
<1>2. CASE UNCHANGED message
  <2>1. /\ internal = "ended" /\ inner = <<>>
        /\ ~disturbed => decoder = NewDecoder \/ Len(decoder.decoded) = Events
    BY <1>2 DEF EndedCorrectly
  <2>2. internal' = "ended" /\ inner' = <<>>
    BY <1>1, <2>1, EndStays
  <2>3. ~disturbed' => UNCHANGED decoder \/ decoder' = NewDecoder
    BY <1>1, <2>1, DecoderChanges DEF Types
  <2>4. ~disturbed' => ~disturbed
    BY <1>1, DisturbedStays DEF Types
  <2> QED
    BY <2>1, <2>2, <2>3, <2>4
<1>3. CASE /\ inner # <<>> /\ Head(inner) = TheEnd /\ inner' = Tail(inner)
           /\ decoder.end /\ UNCHANGED <<internal, decoder>>
  <2>1. internal = "ended" /\ Tail(inner) = <<>>
    BY <1>1, <1>3, EndTaken
  <2>2. Len(decoder.decoded) = Events
    BY <1>1, <1>3 DEF Complete
  <2> QED
    BY <1>3, <2>1, <2>2
<1> QED
  BY <1>2, <1>3, MessageComes

FirstInvariant ==
  /\ EndInvariant /\ PipedIsOpen /\ EndedCorrectly
  /\ ~disturbed => OneByOne /\ FromFirst

LEMMA FirstInvariantHolds == Spec => []FirstInvariant
<1>1. ASSUME Init
      PROVE  FirstInvariant
  <2>1. sockets = <<>>
    BY <1>1 DEF Init
  <2>2. sockets \in Seq(Sockets) /\ Len(sockets) = 0
    BY <2>1
  <2>3. Conns = {}
    BY <2>2, LenProperties DEF Conns
  <2>4. PipedIsOpen /\ OneByOne
    BY <2>1, <2>3 DEF PipedIsOpen, OneByOne
  <2>5. FromFirst
    <3>1. inner = <<>> /\ decoder.decoded = <<>>
      BY <1>1 DEF Init, NewDecoder
    <3>2. 1 .. Len(inner) = {} /\ 1 .. Len(decoder.decoded) = {}
      <4>1. inner = <<>> => Len(inner) = 0
        OBVIOUS
      <4>2. decoder.decoded = <<>> => Len(decoder.decoded) = 0
        OBVIOUS
      <4> QED
        BY <3>1, <4>1, <4>2
    <3>3. \A i \in 1 .. Len(inner) : inner[i] = TheEnd \/ inner[i].from = 1
      BY <3>2
    <3>4. \A k \in 1 .. Len(decoder.decoded) : decoder.decoded[k] = <<1, k>>
      BY <3>2
    <3> QED
      BY <3>1, <3>3, <3>4 DEF FromFirst
  <2>6. EndedCorrectly
    <3>1. message = "Waiting for connection"
      BY <1>1 DEF Init
    <3> QED
      BY <3>1 DEF EndedCorrectly
  <2> QED
    BY <1>1, <2>4, <2>5, <2>6, EndInvariantInit DEF FirstInvariant
<1>2. ASSUME FirstInvariant, [Next]_vars
      PROVE  FirstInvariant'
  <2>1. EndInvariant /\ Types /\ AddressFirst /\ PipedIsOpen /\ EndedCorrectly
    BY <1>2 DEF FirstInvariant, EndInvariant
  <2>2. EndInvariant' /\ PipedIsOpen' /\ EndedCorrectly'
    BY <1>2, <2>1, EndInvariantNext, PipedIsOpenNext, EndedCorrectlyNext
  <2>3. ASSUME ~disturbed'
        PROVE  OneByOne' /\ FromFirst'
    <3>1. ~disturbed
      BY <1>2, <2>1, <2>3, DisturbedStays DEF Types
    <3>2. OneByOne /\ FromFirst
      BY <1>2, <3>1 DEF FirstInvariant
    <3> QED
      BY <1>2, <2>1, <2>3, <3>2, OneByOneNext, FromFirstNext
  <2> QED
    BY <2>2, <2>3 DEF FirstInvariant
<1> QED
  BY <1>1, <1>2, PTL DEF Spec

\* "Connection ended correctly" never lies about connections that came one by one:
\* the decoder has all of the first connection, or was reset after that.
THEOREM CorrectEndsAreWhole == Spec => []EndedCorrectlyIsWhole
<1>1. ASSUME FirstInvariant
      PROVE  EndedCorrectlyIsWhole
  <2> SUFFICES ASSUME message = "Connection ended correctly", ~disturbed, decoder # NewDecoder
               PROVE  \E c \in Conns : decoder.decoded = [n \in 1 .. Events |-> <<c, n>>]
    BY DEF EndedCorrectlyIsWhole
  <2>1. EndInvariant /\ EndedCorrectly /\ OneByOne /\ FromFirst
    BY <1>1 DEF FirstInvariant
  <2>2. Types
    BY <2>1 DEF EndInvariant
  <2>3. Len(decoder.decoded) = Events
    BY <2>1 DEF EndedCorrectly
  <2>4. decoder.decoded # <<>>
    BY <2>3
  <2>5. 1 \in Conns
    BY <2>1, <2>2, <2>4, SwitchChanges DEF FromFirst, Types
  <2>6. decoder.decoded \in [1 .. Events -> (0 .. MaxConns) \X (1 .. Events)]
    BY <2>2, <2>3, LenProperties DEF Types, DecoderTypes, Decoded
  <2>7. \A n \in 1 .. Events : decoder.decoded[n] = <<1, n>>
    BY <2>1, <2>3 DEF FromFirst
  <2>8. decoder.decoded = [n \in 1 .. Events |-> <<1, n>>]
    BY <2>6, <2>7
  <2> QED
    BY <2>5, <2>8
<1> QED
  BY <1>1, FirstInvariantHolds, PTL

=============================================================================
