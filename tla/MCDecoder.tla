------------------------------ MODULE MCDecoder ------------------------------
(* Short traces, encoded with the real wire format, and a ring small enough  *)
(* for the chunks to wrap around it at every position.                       *)
EXTENDS Decoder

MCByte == 0 .. 255

Ev(code, time, args) == [code |-> code, time |-> time, thread |-> 7, args |-> args]

\* A whole session: two-byte numbers (300, 4000), strings, an empty string.
Session ==
  <<Ev(BeginStream, 1, <<<<300>>, <<87, 51>>, <<90>>>>),
    Ev(HeapCreate, 2, <<<<0>>, <<>>, <<97, 98>>>>),
    Ev(HeapAllocate, 130, <<<<0>>, <<4000>>, <<16>>, <<0>>>>),
    Ev(HeapFree, 131, <<<<0>>, <<4000>>, <<0>>>>),
    Ev(EndStream, 140, <<>>)>>

\* Arguments that look like headers: counts, codes and check values.
Lookalike ==
  <<Ev(HeapDestroy, 1, <<<<1>>>>),
    Ev(HeapAllocate, 2, <<<<2>>, <<11>>, <<2>>, <<0>>>>),
    Ev(HeapFreeAll, 3, <<<<3>>>>),
    Ev(SetBackingAllocator, 4, <<<<3>>, <<2>>>>),
    Ev(EventStart, 5, <<<<4, 5>>>>),
    Ev(HeapDestroy, 6, <<<<11>>>>)>>

Sessions == {Session, Lookalike}
LiveChunks == 1 .. 12

\* A word of 22 bits: its numbers have up to four bytes, and one bit of the
\* last is in use, as of the tenth byte of a word of 64 bits (22 = 3 * 7 + 1).
MCWord == 2 ^ 22

\* Files that fit into the ring: numbers at the borders of one to four bytes
\* and of the word, strings up to three characters, every code.
Borders == {0, 1, 127, 128, 16383, 16384, 2097151, 2097152, MCWord - 1}
Strings == {<<>>, <<65>>, <<65, 66, 67>>}

SmallFiles ==
  {<<Ev(HeapAddCore, 1, <<<<0>>, <<p>>, <<64>>>>),
     Ev(HeapGrowCore, 200, <<<<0>>, <<p>>, <<n>>>>)>> : p \in Borders, n \in Borders}
  \cup
  {<<Ev(HeapShrinkCore, 2, <<<<0>>, <<128>>, <<64>>>>),
     Ev(HeapRemoveCore, 3, <<<<0>>, <<p>>, <<1>>>>)>> : p \in Borders}
  \cup
  {<<Ev(HeapAllocate, 2, <<<<1>>, <<p>>, <<9>>, <<1>>>>),
     Ev(HeapFree, 3, <<<<1>>, <<p>>, <<1>>>>)>> : p \in Borders}
  \cup
  {<<Ev(BeginStream, 1, <<<<300>>, <<87, 51>>, <<90>>>>), Ev(EndStream, 2, <<>>)>>,
   <<Ev(HeapDestroy, 1, <<<<1>>>>), Ev(HeapFreeAll, 2, <<<<300>>>>)>>,
   <<Ev(SetBackingAllocator, 1, <<<<1>>, <<3>>>>), Ev(EventStart, 2, <<<<70, 71>>>>)>>}
  \cup
  {<<Ev(HeapCreate, 1, <<<<0>>, s, t>>), Ev(EventEnd, 5, <<s>>)>> : s \in Strings, t \in Strings}

\* Files larger than the ring.
OneFile == {Session}
NoTraces == {}
NoChunks == {}

=============================================================================
