-------------------------------- MODULE Codec --------------------------------
(***************************************************************************)
(* The wire format.  The sending side is runtime/MemTrace.cpp (the encoder *)
(* and the body of every event function), the receiving side is            *)
(* tool/cpp/decoder.cc, which reads from a ring buffer (RingOps.tla).      *)
(*                                                                         *)
(* An event is [code, time, thread, args]; an argument is a sequence of    *)
(* numbers: <<v>> for a value, the characters for a string.                *)
(***************************************************************************)
EXTENDS RingOps, SequencesExt

CONSTANT Word   \* numbers are below it: 2^64, the range of a uint64_t

PowerOfTwo[n \in Nat] == IF n = 0 THEN 1 ELSE 2 * PowerOfTwo[n - 1]

ASSUME WordAssumption == \E bits \in 8 .. 64 : Word = PowerOfTwo[bits]
ASSUME OctetAssumption == Byte = 0 .. 255

Half == 128   \* 0x80: set in the last byte of a number, and only there

\* Codes of the events, and the arguments between header and check value.
BeginStream == 1
EndStream == 2
HeapCreate == 10
HeapDestroy == 11
HeapAddCore == 12
HeapGrowCore == 13
HeapRemoveCore == 14
HeapShrinkCore == 15
HeapAllocate == 16
HeapFree == 17
HeapFreeAll == 18
EventStart == 20
EventEnd == 21
SetBackingAllocator == 30

Codes == {BeginStream, EndStream, HeapCreate, HeapDestroy, HeapAddCore,
          HeapGrowCore, HeapRemoveCore, HeapShrinkCore, HeapAllocate, HeapFree,
          HeapFreeAll, EventStart, EventEnd, SetBackingAllocator}

Layout ==
  [code \in Codes |->
     CASE code = BeginStream -> <<"value", "string", "value">>
       [] code = EndStream -> <<>>
       [] code = HeapCreate -> <<"value", "string", "string">>
       [] code \in {HeapDestroy, HeapFreeAll} -> <<"value">>
       [] code \in {HeapAddCore, HeapGrowCore, HeapRemoveCore, HeapShrinkCore, HeapFree}
            -> <<"value", "value", "value">>
       [] code = HeapAllocate -> <<"value", "value", "value", "value">>
       [] code \in {EventStart, EventEnd} -> <<"string">>
       [] code = SetBackingAllocator -> <<"value", "value">>]

-----------------------------------------------------------------------------
(***************************************************************************)
(* Sending: seven bits to a byte, the lowest first.                        *)
(***************************************************************************)
Unsigned[v \in Nat] ==
  IF v < Half THEN <<v + Half>> ELSE <<v % Half>> \o Unsigned[v \div Half]

EmitUnsigned(v) == Unsigned[v]

EmitString(s) == EmitUnsigned(Len(s)) \o s

EmitArg(kind, arg) == IF kind = "value" THEN EmitUnsigned(arg[1]) ELSE EmitString(arg)

BeginEvent(e, count) ==
  EmitUnsigned(count) \o EmitUnsigned(e.code) \o EmitUnsigned(e.time) \o EmitUnsigned(e.thread)

EndEvent(e) == EmitUnsigned(e.code)

EncodeEvent(e, count) ==
  LET kinds == Layout[e.code]
  IN  BeginEvent(e, count)
        \o FlattenSeq([i \in 1 .. Len(kinds) |-> EmitArg(kinds[i], e.args[i])])
        \o EndEvent(e)

\* The bytes of a connection that sends these events; count starts at 0.
EncodeStream(events) ==
  FlattenSeq([n \in 1 .. Len(events) |-> EncodeEvent(events[n], n - 1)])

-----------------------------------------------------------------------------
(***************************************************************************)
(* Receiving.  Every decoder takes the storage and the cursor of the ring  *)
(* and gives [ok, cur, val]: whether it returned true, where it left the   *)
(* ring, and what it decoded.                                              *)
(***************************************************************************)
Storage == [Index -> Byte]

Kinds == {"value", "string"}

Reading == [ok : BOOLEAN, cur : Cursor, val : Seq(Seq(Nat))]

Event == [count : Nat, code : Codes, time : Nat, args : Seq(Seq(Nat))]

\* mul after n bytes: it is shifted left in a word, and is 0 in the end.
Mul[n \in Nat] == IF n = 0 THEN 1 ELSE (Half * Mul[n - 1]) % Word

\* ret after these bytes, each shifted to its place; the word loses the rest.
Ret[bytes \in Seq(Nat)] ==
  IF bytes = <<>> THEN 0 ELSE (Head(bytes) + Half * Ret[Tail(bytes)]) % Word

\* Mutant of Number: ret is a signed word, its top bit no digit.
NumberSigned(bytes) == (Ret[bytes] - Mul[Len(bytes)]) % (Word \div 2)

\* The number: ret & ~mul, without the top bit of the last byte, which has
\* its place at mul, if mul has not become 0.
Number(bytes) == Ret[bytes] - Mul[Len(bytes)]

LastBytes(d, c) == {i \in 1 .. c.unread : d[Advance(c.read_pos, i - 1)] >= Half}

ReadValue(d, c, n) ==
  [ok |-> TRUE, cur |-> AfterExtract(c, n), val |-> <<Number(Extracted(d, c, n))>>]

\* decodeValue: reads up to and including the first byte with the top bit set;
\* when there is none it has read everything and fails.
DecodeValue[at \in Storage \X Cursor] ==
  LET d    == at[1]
      c    == at[2]
      last == LastBytes(d, c)
  IN  IF last = {}
      THEN [ok |-> FALSE, cur |-> AfterExtract(c, c.unread), val |-> <<>>]
      ELSE ReadValue(d, c, Min(last))

\* decodeString: any byte of the string that is there is success.
StringAfter(d, length) ==
  IF ~length.ok \/ length.val[1] = 0
  THEN [length EXCEPT !.val = <<>>]
  ELSE [ok  |-> ToRead(length.cur, length.val[1]) > 0,
        cur |-> AfterExtract(length.cur, length.val[1]),
        val |-> Extracted(d, length.cur, length.val[1])]

DecodeString(d, c) == StringAfter(d, DecodeValue[<<d, c>>])

DecodeArg(kind, d, c) == IF kind = "value" THEN DecodeValue[<<d, c>>] ELSE DecodeString(d, c)

\* The argument behind those decoded so far, if they all were; val collects them.
NextArg[at \in Reading \X Kinds \X Storage] ==
  LET sofar == at[1]
      arg   == DecodeArg(at[2], at[3], sofar.cur)
  IN  IF sofar.ok
      THEN [ok |-> arg.ok, cur |-> arg.cur, val |-> Append(sofar.val, arg.val)]
      ELSE sofar

\* One argument after the other, until one fails.
DecodeArgs(kinds, d, c) ==
  LET Decoded[n \in 0 .. Len(kinds)] ==
        IF n = 0 THEN [ok |-> TRUE, cur |-> c, val |-> <<>>]
                 ELSE NextArg[<<Decoded[n - 1], kinds[n], d>>]
  IN  Decoded[Len(kinds)]

\* decodeHeader: the count must be the number of events registered so far; code,
\* time and thread follow it.
HeaderAfter(d, count, registered) ==
  IF count.ok /\ count.val[1] = registered
  THEN DecodeArgs(<<"value", "value", "value">>, d, count.cur)
  ELSE [count EXCEPT !.ok = FALSE]

DecodeHeader(d, c, registered) == HeaderAfter(d, DecodeValue[<<d, c>>], registered)

(***************************************************************************)
(* oneStep: header, arguments by the code's layout, check value.  On       *)
(* failure the ring is left wherever decoding stopped, which no caller     *)
(* looks at; end says that the header of an EndStream was seen, which is   *)
(* all _stream_end waits for.                                              *)
(***************************************************************************)
Failed(cur, end) == [ok |-> FALSE, cur |-> cur, event |-> <<>>, end |-> end]

\* The check value, behind the arguments.
Checked[at \in Storage \X Cursor \X Event] ==
  LET event == at[3]
      check == DecodeValue[<<at[1], at[2]>>]
  IN  IF check.ok /\ check.val[1] = event.code
      THEN [ok |-> TRUE, cur |-> check.cur, event |-> <<event>>, end |-> event.code = EndStream]
      ELSE Failed(check.cur, event.code = EndStream)

\* The arguments, behind a header whose numbers are code, time and thread.
ArgsDecoded[at \in Storage \X Reading \X Nat] ==
  LET d      == at[1]
      header == at[2]
      code   == header.val[1][1]
      args   == DecodeArgs(Layout[code], d, header.cur)
  IN  IF args.ok
      THEN Checked[<<d, args.cur, [count |-> at[3], code |-> code,
                                   time |-> header.val[2][1], args |-> args.val]>>]
      ELSE Failed(args.cur, code = EndStream)

OneStep(d, c, registered) ==
  LET header == DecodeHeader(d, c, registered)
  IN  IF header.ok /\ header.val[1][1] \in Codes
      THEN ArgsDecoded[<<d, header, registered>>]
      ELSE Failed(header.cur, FALSE)

=============================================================================
