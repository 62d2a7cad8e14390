------------------------------ MODULE ByteStream ------------------------------
(***************************************************************************)
(* What a ring buffer promises its user, without positions or storage: the *)
(* bytes accepted so far, how many of them were consumed, and marks one    *)
(* can go back to.  At most Cap bytes are accepted and not yet consumed.   *)
(* RingBuffer.tla implements this specification.                           *)
(***************************************************************************)
EXTENDS Integers, Sequences

CONSTANTS Cap,            \* bytes held at most
          Byte,           \* values of a byte
          MaxBytes,       \* bound: bytes accepted in a behaviour
          MaxChunk,       \* bound: bytes offered by a call, asked by a call
          MaxRollbacks    \* bound: marks kept at once

VARIABLES stream,   \* every byte accepted, in order
          pos,      \* how many of them have been consumed
          marks,    \* stack of saved positions
          out       \* the bytes the last operation returned

vars == <<stream, pos, marks, out>>

Least(a, b) == IF a <= b THEN a ELSE b

Waiting == Len(stream) - pos

Init == stream = <<>> /\ pos = 0 /\ marks = <<>> /\ out = <<>>

\* Accept the longest prefix of buff that fits.
Accept(buff) ==
  LET n == Least(Len(buff), Cap - Waiting)
  IN  /\ Len(stream) + n <= MaxBytes
      /\ stream' = stream \o SubSeq(buff, 1, n)
      /\ out' = <<>>
      /\ UNCHANGED <<pos, marks>>

\* Consume up to length bytes: exactly the next bytes of the stream.
Consume(length) ==
  LET n == Least(length, Waiting)
  IN  /\ out' = SubSeq(stream, pos + 1, pos + n)
      /\ pos' = pos + n
      /\ UNCHANGED <<stream, marks>>

Mark ==
  /\ Len(marks) < MaxRollbacks
  /\ marks' = Append(marks, [pos |-> pos, end |-> Len(stream)])
  /\ out' = <<>>
  /\ UNCHANGED <<stream, pos>>

\* Going back un-consumes bytes; a mark is good until bytes are accepted.
GoBack ==
  /\ marks # <<>>
  /\ marks[Len(marks)].end = Len(stream)
  /\ pos' = marks[Len(marks)].pos
  /\ marks' = SubSeq(marks, 1, Len(marks) - 1)
  /\ out' = <<>>
  /\ UNCHANGED stream

Forget(k) ==
  /\ marks' = SubSeq(marks, 1, k)
  /\ out' = <<>>
  /\ UNCHANGED <<stream, pos>>

Next ==
  \/ \E n \in 0 .. MaxChunk : \E buff \in [1 .. n -> Byte] : Accept(buff)
  \/ \E length \in 0 .. MaxChunk : Consume(length)
  \/ Mark
  \/ GoBack
  \/ \E k \in 0 .. Len(marks) : Forget(k)

Spec == Init /\ [][Next]_vars

=============================================================================
