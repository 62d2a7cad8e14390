------------------------------- MODULE Decoder -------------------------------
(***************************************************************************)
(* The Decoder object of the tool: how a chunk of bytes handed over by the *)
(* JavaScript side (tool/cpp/decoder_wrapper.cc, UnpackStream for a socket *)
(* chunk, SaveAsCSV for a file) goes through the ring buffer, is searched  *)
(* for the next event (trySteps) and decoded event by event.               *)
(*                                                                         *)
(* A call is synchronous native code: nothing else happens to the object   *)
(* until it returns.  Its loops are steps of the model, one iteration a    *)
(* step, because whether they end is a question worth asking.              *)
(***************************************************************************)
EXTENDS Csv, FiniteSets

CONSTANTS Streamed,     \* the event sequences a traced program may send
          Files,        \* the event sequences a file may hold
          ChunkSizes    \* sizes of the chunks UnpackStream may get

Traces == Streamed \cup Files

\* What the event functions of the program pass to the encoder: numbers of a
\* word, and arguments as the event's code lays them out.
Sendable == [code : Codes, time : 0 .. (Word - 1), thread : 0 .. (Word - 1), args : Seq(Seq(Nat))]

HasArgs(e) ==
  /\ Len(e.args) = Len(Layout[e.code])
  /\ \A i \in DOMAIN e.args :
       IF Layout[e.code][i] = "value"
       THEN Len(e.args[i]) = 1 /\ e.args[i][1] < Word
       ELSE e.args[i] \in Seq(Byte) /\ Len(e.args[i]) < Word

\* Nothing is sent behind the EndStream event (EndStreamIsLast of Runtime.tla).
ASSUME TracesAssumption ==
  \A t \in Traces :
    /\ t \in Seq(Sendable) /\ t # <<>> /\ Len(t) <= Word
    /\ \A n \in DOMAIN t : HasArgs(t[n]) /\ (t[n].code = EndStream => n = Len(t))
ASSUME ChunkAssumption == ChunkSizes \subseteq Nat \ {0}

\* The bytes of every trace, and where each of its events ends.
Bytes == [t \in Traces |-> EncodeStream(t)]

Ends == [t \in Traces |-> [n \in 0 .. Len(t) |-> Len(EncodeStream(SubSeq(t, 1, n)))]]

(***************************************************************************)
(* Finding the next event by trying every byte is only as good as the      *)
(* format: with n events registered, no place inside the n-th event may    *)
(* read as an event that counts itself n, or as the header of the last     *)
(* one, whatever follows it so far; nor may a place inside the event after *)
(* it while that is not complete.  The properties below are about traces   *)
(* for which this is so.                                                   *)
(***************************************************************************)
ReadsAsEvent(bytes, from, size, n) ==
  LET step == OneStep([i \in Index |-> IF i < size THEN bytes[from + i + 1] ELSE 0],
                      [EmptyCursor EXCEPT !.unread = size], n)
  IN  step.ok \/ step.end

Unambiguous(t) ==
  \A n \in 0 .. (Len(t) - 1) :
    /\ n > 0 =>
         \A from \in Ends[t][n - 1] .. (Ends[t][n] - 1) :
           \A size \in 1 .. SizeMin(Cap, Len(Bytes[t]) - from) : ~ReadsAsEvent(Bytes[t], from, size, n)
    /\ \A from \in (Ends[t][n] + 1) .. (Ends[t][n + 1] - 1) :
         \A size \in 1 .. SizeMin(Cap, Ends[t][n + 1] - from - 1) : ~ReadsAsEvent(Bytes[t], from, size, n)

ASSUME UnambiguousAssumption == \A t \in Traces : Unambiguous(t)

VARIABLES trace,            \* what the traced program sent
          converting,       \* it is a file given to SaveAsCSV, and no connection
          given,            \* how many of its bytes were handed to the decoder
          phase,            \* where the call is: idle, search, decode, refill;
                            \* undefined after undefined behaviour
          pending,          \* the bytes of the chunk not yet populated
          data, cur, rollbacks,          \* ring_
          registered,       \* registerd_events
          last_timestamp,
          stream_end,       \* _stream_end
          delivered,        \* events passed to memory_state_->addEvent, in order
          csv               \* the text written by SaveAsCSV

ring == <<data, cur, rollbacks>>
decoder == <<registered, last_timestamp, stream_end>>
vars == <<trace, converting, given, phase, pending, ring, decoder, delivered, csv>>

Input == Bytes[trace]

Init ==
  /\ \/ trace \in Streamed /\ converting = FALSE
     \/ trace \in Files /\ converting = TRUE
  /\ given = 0
  /\ phase = "idle"
  /\ pending = <<>>
  /\ data = [i \in Index |-> 0]
  /\ cur = EmptyCursor
  /\ rollbacks = <<>>
  /\ registered = 0
  /\ last_timestamp = 0
  /\ stream_end = FALSE
  /\ delivered = <<>>
  /\ csv = <<>>

\* ring->populate(buff): what fits enters the ring, the rest stays pending.
Populate(buff) ==
  /\ data' = Filled(data, cur, buff)
  /\ cur' = AfterPopulate(cur, buff)
  /\ pending' = SubSeq(buff, ToWrite(cur, Len(buff)) + 1, Len(buff))

\* Both entry points start with a populate and then search for an event.
EnterCall(size) ==
  /\ phase = "idle"
  /\ phase' = "search"
  /\ Populate(SubSeq(Input, given + 1, given + size))
  /\ given' = given + size
  /\ UNCHANGED <<trace, converting, rollbacks, decoder, delivered, csv>>

UnpackStream(size) ==
  /\ ~converting
  /\ given + size <= Len(Input)
  /\ EnterCall(size)

SaveAsCSV ==
  /\ converting
  /\ given = 0
  /\ EnterCall(Len(Input))

\* Mutant of TrySteps: a good trial is not rolled back.
TryStepsKeep ==
  /\ phase = "search"
  /\ \E trial \in {OneStep(data, cur, registered)} :
       /\ stream_end' = (stream_end \/ trial.end)
       /\ cur' = IF trial.ok THEN trial.cur ELSE IF cur.unread = 0 THEN cur ELSE AfterNext(cur)
       /\ phase' = IF trial.ok THEN "decode" ELSE IF cur'.unread > 0 THEN "search" ELSE "undefined"
       /\ rollbacks' = IF trial.ok THEN Append(rollbacks, cur) ELSE rollbacks
  /\ UNCHANGED <<trace, converting, given, pending, data, registered, last_timestamp, delivered, csv>>

\* Mutant of TrySteps: a failed trial throws nothing away.
TryStepsStay ==
  /\ phase = "search"
  /\ \E trial \in {OneStep(data, cur, registered)} :
       /\ stream_end' = (stream_end \/ trial.end)
       /\ phase' = IF trial.ok THEN "decode" ELSE IF cur.unread > 0 THEN "search" ELSE "undefined"
       /\ rollbacks' = IF trial.ok THEN Append(rollbacks, cur) ELSE rollbacks
  /\ UNCHANGED <<trace, converting, given, pending, data, cur, registered, last_timestamp, delivered, csv>>

(***************************************************************************)
(* One iteration of the loop of trySteps.  The trial decodes the event for *)
(* real, so _stream_end may be set by it; count and timestamp are restored *)
(* afterwards.  A failed trial throws away one byte.  When the bytes run   *)
(* out the loop ends without a record on the stack, and loadRollback pops  *)
(* an empty std::stack: undefined behaviour, after which nothing is known. *)
(* (The throw before it needs a timestamp that went back; a failed trial   *)
(* leaves last_timestamp alone and a good one is the next event.)          *)
(***************************************************************************)
TrySteps ==
  /\ phase = "search"
  /\ \E trial \in {OneStep(data, cur, registered)} :
       /\ stream_end' = (stream_end \/ trial.end)
       /\ \/ /\ trial.ok
             /\ phase' = "decode"
             /\ rollbacks' = Append(rollbacks, cur)
             /\ UNCHANGED cur
          \/ /\ ~trial.ok
             /\ cur' = IF cur.unread = 0 THEN cur ELSE AfterNext(cur)
             /\ phase' = IF cur'.unread > 0 THEN "search" ELSE "undefined"
             /\ UNCHANGED rollbacks
  /\ UNCHANGED <<trace, converting, given, pending, data, registered, last_timestamp, delivered, csv>>

(***************************************************************************)
(* One iteration of the inner loop: saveRollback, oneStep, and either the  *)
(* event is passed on or the loop ends.  saveOverRollback leaves the       *)
(* record as saved before the event, so every event adds one.  SaveAsCSV   *)
(* leaves an empty line behind every row.                                  *)
(***************************************************************************)
PassOn(event) ==
  IF converting THEN csv' = csv \o GetAsCSV(event) \o Newline /\ UNCHANGED delivered
                ELSE delivered' = Append(delivered, event) /\ UNCHANGED csv

\* Mutant of Decode: the loop ends after every event.
DecodeOnce ==
  /\ phase = "decode"
  /\ rollbacks' = Append(rollbacks, cur)
  /\ phase' = "refill"
  /\ \E step \in {OneStep(data, cur, registered)} :
       /\ cur' = step.cur
       /\ stream_end' = (stream_end \/ step.end)
       /\ \/ /\ step.ok
             /\ registered' = registered + 1
             /\ last_timestamp' = step.event[1].time
             /\ PassOn(step.event[1])
          \/ /\ ~step.ok
             /\ UNCHANGED <<registered, last_timestamp, delivered, csv>>
  /\ UNCHANGED <<trace, converting, given, pending, data>>

\* Mutant of Decode: a decoded event clears the stack.
DecodeAndClear ==
  /\ phase = "decode"
  /\ \E step \in {OneStep(data, cur, registered)} :
       /\ cur' = step.cur
       /\ stream_end' = (stream_end \/ step.end)
       /\ \/ /\ step.ok
             /\ rollbacks' = <<>>
             /\ registered' = registered + 1
             /\ last_timestamp' = step.event[1].time
             /\ PassOn(step.event[1])
             /\ phase' = IF step.cur.unread > 0 THEN "decode" ELSE "refill"
          \/ /\ ~step.ok
             /\ rollbacks' = Append(rollbacks, cur)
             /\ phase' = "refill"
             /\ UNCHANGED <<registered, last_timestamp, delivered, csv>>
  /\ UNCHANGED <<trace, converting, given, pending, data>>

\* Mutant of Decode: bytes that are no event count as the end of the stream.
DecodeToEnd ==
  /\ phase = "decode"
  /\ rollbacks' = Append(rollbacks, cur)
  /\ \E step \in {OneStep(data, cur, registered)} :
       /\ cur' = step.cur
       /\ stream_end' = (stream_end \/ step.end \/ ~step.ok)
       /\ \/ /\ step.ok
             /\ registered' = registered + 1
             /\ last_timestamp' = step.event[1].time
             /\ PassOn(step.event[1])
             /\ phase' = IF step.cur.unread > 0 THEN "decode" ELSE "refill"
          \/ /\ ~step.ok
             /\ phase' = "refill"
             /\ UNCHANGED <<registered, last_timestamp, delivered, csv>>
  /\ UNCHANGED <<trace, converting, given, pending, data>>

Decode ==
  /\ phase = "decode"
  /\ rollbacks' = Append(rollbacks, cur)
  /\ \E step \in {OneStep(data, cur, registered)} :
       /\ cur' = step.cur
       /\ stream_end' = (stream_end \/ step.end)
       /\ \/ /\ step.ok
             /\ registered' = registered + 1
             /\ last_timestamp' = step.event[1].time
             /\ PassOn(step.event[1])
             /\ phase' = IF step.cur.unread > 0 THEN "decode" ELSE "refill"
          \/ /\ ~step.ok
             /\ phase' = "refill"
             /\ UNCHANGED <<registered, last_timestamp, delivered, csv>>
  /\ UNCHANGED <<trace, converting, given, pending, data>>

\* Mutant of Refill: goes back to the first record of the call.
RefillFromBottom ==
  LET n == ToWrite(rollbacks[1], Len(pending))
  IN  /\ phase = "refill"
      /\ data' = Filled(data, rollbacks[1], pending)
      /\ cur' = AfterPopulate(rollbacks[1], pending)
      /\ pending' = SubSeq(pending, n + 1, Len(pending))
      /\ phase' = IF n < Len(pending) THEN "decode" ELSE "idle"
      /\ rollbacks' = <<>>
      /\ UNCHANGED <<trace, converting, given, decoder, delivered, csv>>

(***************************************************************************)
(* After the inner loop: loadRollback goes back to the last record, also   *)
(* when the loop ended because the ring ran empty, so the last event       *)
(* becomes unread again.  Then the rest of the chunk is populated, as much *)
(* as fits, and the call ends when none is left.                           *)
(***************************************************************************)
Refill ==
  LET top == rollbacks[Len(rollbacks)]
      n   == ToWrite(top, Len(pending))
  IN  /\ phase = "refill"
      /\ data' = Filled(data, top, pending)
      /\ cur' = AfterPopulate(top, pending)
      /\ pending' = SubSeq(pending, n + 1, Len(pending))
      /\ IF n < Len(pending)
         THEN phase' = "decode" /\ rollbacks' = Front(rollbacks)
         ELSE phase' = "idle" /\ rollbacks' = <<>>
      /\ UNCHANGED <<trace, converting, given, decoder, delivered, csv>>

Next ==
  \/ \E size \in ChunkSizes : UnpackStream(size)
  \/ SaveAsCSV
  \/ TrySteps
  \/ Decode
  \/ Refill

\* The native code of a call runs without interruption.
Fairness == WF_vars(TrySteps \/ Decode \/ Refill)

Spec == Init /\ [][Next]_vars /\ Fairness

-----------------------------------------------------------------------------
\* The event the n-th event of the trace should be decoded to.
Sent(n) == [count |-> n - 1, code |-> trace[n].code, time |-> trace[n].time,
            args |-> trace[n].args]

SentUpTo(n) == [k \in 1 .. n |-> Sent(k)]

\* What a chunk has to leave room for: the rest of one event.  A file has to
\* fit into the ring as a whole.
ChunksFit ==
  /\ \A t \in Streamed : \A n \in 1 .. Len(t), size \in ChunkSizes :
        size + (Ends[t][n] - Ends[t][n - 1]) <= Cap
  /\ \A t \in Files : Len(Bytes[t]) <= Cap

\* What a row of the CSV can say: a name has no newline (10) and no comma (44)
\* in it, and what was sent as a bool is one.
FitsColumns(e) ==
  /\ \A i \in DOMAIN e.args :
       Layout[e.code][i] = "string" => \A k \in DOMAIN e.args[i] : e.args[i][k] \notin {10, 44}
  /\ e.code = HeapAllocate => e.args[4][1] \in {0, 1}
  /\ e.code = HeapFree => e.args[3][1] \in {0, 1}

FilesFitColumns == \A t \in Files : \A n \in DOMAIN t : FitsColumns(t[n])

\* Events of the trace that are complete in its first n bytes.
Completed(n) == Cardinality({k \in 1 .. Len(trace) : Ends[trace][k] <= n})

\* However the connection is cut into chunks, the memory state receives the
\* events that were sent, in the order they were sent, none twice, none
\* skipped, each with the arguments it was sent with.
DeliveredInOrder ==
  /\ Len(delivered) <= Len(trace)
  /\ delivered = SentUpTo(Len(delivered))
  /\ ~converting => registered = Len(delivered)

\* When UnpackStream returns, every event that is complete in the bytes given
\* so far has been passed on: none waits for a later chunk.  And the search
\* meets its undefined behaviour only if the chunk completed no event.
NothingWaits ==
  ~converting /\ phase \in {"idle", "undefined"} => Len(delivered) = Completed(given)

\* Whenever the inner loop ends there is a record to load, and it was saved
\* after the last populate: what RingBuffer!LoadRollback demands of its user.
RollbackIsFresh ==
  phase = "refill" =>
    /\ rollbacks # <<>>
    /\ LET top == rollbacks[Len(rollbacks)]
       IN  top.num_read + top.unread = cur.num_read + cur.unread

\* While it decodes a chunk that entered the ring as a whole, the decoder is
\* at the start of the event it expects next: the search threw away bytes of
\* events it had passed on already and no other.
AtEventBoundary ==
  phase = "decode" /\ pending = <<>> => cur.num_read = Ends[trace][registered]

\* Between calls less than one event's bytes are left over, be it the start of
\* the next event or the last one again; so a chunk that leaves room for one
\* event always fits.
LeftoverIsSmall ==
  phase = "idle" =>
    \/ cur.unread = 0
    \/ \E k \in 1 .. Len(trace) : cur.unread <= Ends[trace][k] - Ends[trace][k - 1]

\* streamEnd() answers true, and the user sees that the connection ended
\* correctly, only when all that was sent before the EndStream event has been
\* passed on.
StreamEndIsLast ==
  stream_end => /\ trace[Len(trace)].code = EndStream
                /\ registered >= Len(trace) - 1

\* Every call returns (or runs into the undefined behaviour).
CallReturns == (phase # "idle") ~> (phase \in {"idle", "undefined"})

\* What the application tells the user when SaveAsCSV has returned: the file
\* was converted, so who reads the CSV finds every event of it, in order, in
\* lines and columns of the numbers and names that were sent.
Converted ==
  converting /\ given > 0 /\ phase = "idle" => ReadBack(csv) = SentUpTo(Len(trace))

=============================================================================
