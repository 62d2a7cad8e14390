------------------------------ MODULE RingBuffer ------------------------------
(***************************************************************************)
(* The RingBuffer object of tool/cpp/ringbuffer.cc: one action per public  *)
(* member function that changes state.  The object has one user at a time  *)
(* (the decoder, on the JavaScript thread), so a call is one step.         *)
(*                                                                         *)
(* Two variables are not in the class: stream, the bytes populate has      *)
(* accepted since construction, and out, what the last call handed back.   *)
(***************************************************************************)
EXTENDS RingOps

CONSTANTS MaxBytes,       \* bound: bytes accepted in a behaviour
          MaxChunk,       \* bound: size of a populate, length of an extract
          MaxRollbacks    \* bound: depth of the rollback stack

ASSUME BoundsAssumption == MaxBytes \in Nat /\ MaxChunk \in Nat \ {0} /\ MaxRollbacks \in Nat

VARIABLES data,        \* data_
          cur,         \* read_pos_, write_pos_, num_read_, unread_
          rollbacks,   \* rollbacks_, its top is the last element
          stream,
          out

vars == <<data, cur, rollbacks, stream, out>>

Top == rollbacks[Len(rollbacks)]

Pop == SubSeq(rollbacks, 1, Len(rollbacks) - 1)

\* The constructor: zeroed storage (any fixed byte), counters at 0.
Init ==
  /\ \E b \in Byte : data = [i \in Index |-> b]
  /\ cur = EmptyCursor
  /\ rollbacks = <<>>
  /\ stream = <<>>
  /\ out = <<>>

Populate(buff) ==
  /\ Len(stream) + ToWrite(cur, Len(buff)) <= MaxBytes
  /\ data' = Filled(data, cur, buff)
  /\ cur' = AfterPopulate(cur, buff)
  /\ stream' = stream \o SubSeq(buff, 1, ToWrite(cur, Len(buff)))
  /\ out' = <<>>
  /\ UNCHANGED rollbacks

ReadNext ==
  /\ IF cur.unread = 0
     THEN out' = <<>> /\ UNCHANGED cur
     ELSE out' = <<NextByte(data, cur)>> /\ cur' = AfterNext(cur)
  /\ UNCHANGED <<data, rollbacks, stream>>

ExtractString(length) ==
  /\ out' = Extracted(data, cur, length)
  /\ cur' = AfterExtract(cur, length)
  /\ UNCHANGED <<data, rollbacks, stream>>

\* Mutant of SaveRollback: the write position is not saved.
SaveRollbackReader ==
  /\ Len(rollbacks) < MaxRollbacks
  /\ rollbacks' = Append(rollbacks, [cur EXCEPT !.write_pos = 0])
  /\ out' = <<>>
  /\ UNCHANGED <<data, cur, stream>>

SaveRollback ==
  /\ Len(rollbacks) < MaxRollbacks
  /\ rollbacks' = Append(rollbacks, cur)
  /\ out' = <<>>
  /\ UNCHANGED <<data, cur, stream>>

(***************************************************************************)
(* saveOverRollback fills in a local copy of the top record: the stack and *)
(* the counters stay as they are.  top() needs a record to copy.           *)
(***************************************************************************)
SaveOverRollback ==
  /\ rollbacks # <<>>
  /\ out' = <<>>
  /\ UNCHANGED <<data, cur, rollbacks, stream>>

(***************************************************************************)
(* loadRollback has two preconditions it does not test: top() needs a      *)
(* record, and a record is worth loading only while nothing was populated  *)
(* since it was saved (it also restores write_pos_ and unread_, so it would *)
(* forget accepted bytes).  Decoder.tla shows its caller meets the second. *)
(***************************************************************************)
Total(c) == c.num_read + c.unread

LoadRollback ==
  /\ rollbacks # <<>>
  /\ Total(Top) = Total(cur)
  /\ cur' = Top
  /\ rollbacks' = Pop
  /\ out' = <<>>
  /\ UNCHANGED <<data, stream>>

RemoveRollback ==
  /\ rollbacks # <<>>
  /\ rollbacks' = Pop
  /\ out' = <<>>
  /\ UNCHANGED <<data, cur, stream>>

ClearRollback ==
  /\ rollbacks' = <<>>
  /\ out' = <<>>
  /\ UNCHANGED <<data, cur, stream>>

Next ==
  \/ \E n \in 0 .. MaxChunk : \E buff \in [1 .. n -> Byte] : Populate(buff)
  \/ ReadNext
  \/ \E length \in 0 .. MaxChunk : ExtractString(length)
  \/ SaveRollback
  \/ SaveOverRollback
  \/ LoadRollback
  \/ RemoveRollback
  \/ ClearRollback

Spec == Init /\ [][Next]_vars

-----------------------------------------------------------------------------
\* Types: positions stay inside the storage.  An index of capacity_ would be a
\* read or write behind data_.
TypeOK ==
  /\ data \in [Index -> Byte]
  /\ cur \in Cursor
  /\ cur.read_pos \in Index /\ cur.write_pos \in Index
  /\ rollbacks \in Seq(Cursor)
  /\ stream \in Seq(Byte)
  /\ out \in Seq(Byte)

\* Position of the i-th byte after pos on the circle.
Wrap(i) == IF i >= Cap THEN i - Cap ELSE i

(***************************************************************************)
(* A cursor c over storage d describes the stream s: what it counts as     *)
(* read and as unread is everything accepted, the write position is where  *)
(* the unread window ends, and the window holds the next bytes of the      *)
(* stream, in order, whatever runs populate split them into.               *)
(***************************************************************************)
Describes(c, d, s) ==
  /\ c.read_pos \in Index
  /\ c.unread <= Cap
  /\ Total(c) = Len(s)
  /\ c.write_pos = Wrap(c.read_pos + c.unread)
  /\ \A i \in 0 .. (c.unread - 1) : d[Wrap(c.read_pos + i)] = s[c.num_read + i + 1]

\* The unread window is exactly the part of the stream not yet consumed: no
\* byte is lost, duplicated or overwritten before it is read.
WindowIntact == Describes(cur, data, stream)

\* A rollback record saved since the last populate still describes the
\* stream: what was read after it was saved can be read again.
RollbacksIntact ==
  \A k \in 1 .. Len(rollbacks) :
    /\ Total(rollbacks[k]) <= Len(stream)
    /\ Total(rollbacks[k]) = Total(cur) => Describes(rollbacks[k], data, stream)

Inv == TypeOK /\ WindowIntact /\ RollbacksIntact

BS == INSTANCE ByteStream
        WITH pos   <- cur.num_read,
             marks <- [k \in 1 .. Len(rollbacks) |->
                         [pos |-> rollbacks[k].num_read,
                          end |-> Total(rollbacks[k])]]

\* The ring implements the bounded byte stream with marks: every call returns
\* exactly the next bytes accepted and not yet consumed.
ImplementsByteStream == BS!Spec

=============================================================================
