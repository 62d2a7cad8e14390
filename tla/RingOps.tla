------------------------------- MODULE RingOps -------------------------------
(***************************************************************************)
(* The byte ring of tool/cpp/ringbuffer.cc as pure operators: the storage  *)
(* data (data_), and a cursor holding the four counters the class keeps    *)
(* and a rollback record saves (read_pos_, write_pos_, num_read_,          *)
(* unread_).  RingBuffer.tla makes a state machine of them, Decoder.tla    *)
(* decodes over them.                                                      *)
(***************************************************************************)
EXTENDS Integers, Sequences

CONSTANTS Cap,   \* capacity_ (128*1024 by default)
          Byte   \* the values a byte can have

ASSUME CapAssumption == Cap \in Nat \ {0}
ASSUME ByteAssumption == Byte # {}

Index == 0 .. (Cap - 1)

\* The class's position counters, and what struct rollback holds.
Cursor == [read_pos : Nat, write_pos : Nat, num_read : Nat, unread : Nat]

EmptyCursor == [read_pos |-> 0, write_pos |-> 0, num_read |-> 0, unread |-> 0]

SizeMin(a, b) == IF a <= b THEN a ELSE b

\* Mutant of Advance: a run that ends at the end of the storage stays there.
AdvanceToEnd(pos, n) == IF n <= Cap - pos THEN pos + n ELSE n - (Cap - pos)

(***************************************************************************)
(* Moving a position by n bytes, as extractString and populate do it: one  *)
(* run up to the end of the storage, or a second run from its start.       *)
(***************************************************************************)
Advance(pos, n) ==
  IF n <= Cap - pos
  THEN IF pos + n = Cap THEN 0 ELSE pos + n
  ELSE n - (Cap - pos)

\* memcpy(d + at, buf + from, n), with buf indexed from 1.
MemCpy(d, at, buf, from, n) ==
  [i \in Index |-> IF at <= i /\ i < at + n THEN buf[from + (i - at)] ELSE d[i]]

\* The n bytes of storage from position at: what str.assign copies.
Slice(d, at, n) == [i \in 1 .. n |-> d[at + i - 1]]

(***************************************************************************)
(* readNext: one byte from the read position.                              *)
(***************************************************************************)
NextByte(d, c) == d[c.read_pos]

\* Mutant of AfterNext: the byte is not counted as read.
AfterNextUncounted(c) ==
  [c EXCEPT !.read_pos = IF @ + 1 = Cap THEN 0 ELSE @ + 1, !.unread = @ - 1]

AfterNext(c) ==
  [c EXCEPT !.read_pos = IF @ + 1 = Cap THEN 0 ELSE @ + 1,
            !.num_read = @ + 1,
            !.unread   = @ - 1]

(***************************************************************************)
(* extractString: up to length bytes, in one run or in two.                *)
(***************************************************************************)
ToRead(c, length) == SizeMin(length, c.unread)

Extracted(d, c, length) ==
  LET n      == ToRead(c, length)
      size_1 == Cap - c.read_pos
  IN  IF n <= size_1
      THEN Slice(d, c.read_pos, n)
      ELSE Slice(d, c.read_pos, size_1) \o Slice(d, 0, n - size_1)

AfterExtract(c, length) ==
  LET n == ToRead(c, length)
  IN  [c EXCEPT !.read_pos = Advance(@, n),
                !.num_read = @ + n,
                !.unread   = @ - n]

(***************************************************************************)
(* populate: the bytes of buff that still fit, in one run or in two.       *)
(***************************************************************************)
ToWrite(c, size) == SizeMin(size, Cap - c.unread)

\* Mutant of Filled: the second run copies from the start of buff again.
FilledTwice(d, c, buff) ==
  LET n      == ToWrite(c, Len(buff))
      size_1 == Cap - c.write_pos
  IN  IF n <= size_1
      THEN MemCpy(d, c.write_pos, buff, 1, n)
      ELSE MemCpy(MemCpy(d, c.write_pos, buff, 1, size_1), 0, buff, 1, n - size_1)

Filled(d, c, buff) ==
  LET n      == ToWrite(c, Len(buff))
      size_1 == Cap - c.write_pos
  IN  IF n <= size_1
      THEN MemCpy(d, c.write_pos, buff, 1, n)
      ELSE MemCpy(MemCpy(d, c.write_pos, buff, 1, size_1),
                  0, buff, 1 + size_1, n - size_1)

AfterPopulate(c, buff) ==
  LET n == ToWrite(c, Len(buff))
  IN  [c EXCEPT !.write_pos = Advance(@, n),
                !.unread    = @ + n]

=============================================================================
