# Memory Trace, verified

TLA+ models of Memory Trace: a runtime that is linked into a program and
reports what its allocators do, and a tool that receives the report over a
socket or from a file and shows the memory of every heap over time. The models
are checked with TLC on small instances. Every safety property of them is also
proved with TLAPS, for all values of their constants (section 5).

## 1. The system

    traced program                          tool (Electron, Node)
    --------------                          ---------------------
    threads -> MemTrace::Heap...()          server.js  --pipe-->  internal_server.js
                 |  State._lock                 ^                      |
              encoder (two buffers)             |             Decoder::UnpackStream
                 |  TransmitCurrentBuffer       |                      |
              socket ---------------------------+             RingBuffer -> oneStep
              or file --------- buttons.js --- Decoder::SaveAsCSV      |
                 ^                                            MemoryState -> Heap -> Core
                 +--- "pause" / "resume" ---                           |
                                                              chart, heap information

| component | state | operations | with whom |
|---|---|---|---|
| runtime (`runtime/MemTrace.cpp`) | `_active`, `_paused`, `count`, lock, two buffers, transport, socket, file | event functions, Flush, InitFile, InitSocket, Shutdown, ErrorShutdown, HandleMessage | called by all threads; sends to and listens to the tool |
| wire format (`MemTrace.cpp` encoder, `decoder.cc`) | none | EmitUnsigned, EmitString, Begin/EndEvent; decodeValue, decodeString, decodeHeader, oneStep | both sides |
| byte ring (`ringbuffer.cc`) | storage, read and write position, counters, stack of rollback records | populate, readNext, extractString, save/load/remove/clearRollback | used by the decoder only |
| decoder (`decoder.cc`, `decoder_wrapper.cc`) | ring, `registerd_events`, `last_timestamp`, `_stream_end` | UnpackStream, SaveAsCSV, streamEnd, trySteps, oneStep | called by JavaScript, calls the memory state |
| memory state (`memory_state.cc`, `heap.cc`, `core.cc`) | heaps; per heap cores, allocations, `alloc_to_core`, used and managed memory, maxima, samples | addEvent | read by GetFilteredData, GetHeapInformation |
| windows and servers (`main.js`, `server.js`, `internal_server.js`, `messages.js`, `buttons.js`, `status.js`) | sockets, `pipe`, `internal_socket`, `Window.decoder`, `collecting`, `visualization_enabled`, the status message | connection, data, close, error; messages between the windows; Reset, Pause, Resume, Unpack, enable and disable visualization | call the decoder |
| chart (`visualization.js`, GetFilteredData) | the datasets drawn | setUpdate, every half second | reads the memory state |
| demo program (`DemoMain.cpp`) | block allocators: range, free list in the free blocks | construct, Alloc, Free, destruct | calls the runtime |

What makes each of them correct, and what is hard:

- **Runtime.** Events of several threads reach the wire whole, numbered without
  gaps, once; EndStream is last; nobody keeps the lock; calls return. Hard:
  `_active` is read without the lock; one function takes no lock; a send in
  the middle of an event may fail and shut the trace down from inside; the
  pause loop runs inside a Reserve with the lock held.
- **Byte ring.** What is read is what was written, at every position of the
  wrap; a rollback restores exactly what was read since. Hard: full and empty
  rings, runs that end at the end of the storage, rollback after populate.
- **Decoder.** However the bytes are cut, every event is passed on once, in
  order, as soon as it is complete. Hard: an event that is split anywhere, the
  byte-wise search for the next event, the last event that becomes unread
  again after each call, a file larger than the ring.
- **Memory state.** Used and managed memory, cores and live allocations are
  those of the program. Hard: allocations at the border of two cores or over
  two cores, entries left in `alloc_to_core`, unsigned counters, samples with
  equal timestamps.
- **Windows and servers.** What the status says of a connection is true of the
  data; the buttons are safe to press when they may be pressed; the two windows
  agree on what is piped. Hard: messages between the windows and the data
  travel separate ways and overtake each other, connections are cut, lost, come
  too early and beside each other, and all share one decoder.
- **Chart.** The thinned curve is ordered and complete up to the
  distance the user chose; its past stays; every request is answered. Hard:
  long gaps, samples at the border of a step, a trace that goes on.
- **Demo program.** The free list has every free block once; what is reported
  is what happens, in an order the tool can follow. Hard: blocks freed in any
  order, a connection that breaks between two events of one operation.

The hazards, each with its line and the properties about it, are in
`PROJECT.json`.

## 2. Modules

| module | models | notes |
|---|---|---|
| `RingOps` | the ring's arithmetic as operators on (storage, cursor) | shared by ring and decoder |
| `RingBuffer` | the `RingBuffer` object, one action per member function | ghost variables `stream` (bytes accepted) and `out` (bytes returned) |
| `ByteStream` | what the ring promises: accept, consume, mark, go back | no positions, no storage |
| `Codec` | the wire format, both directions, on words of `Word` | decoding works on ring storage, as in the code |
| `Csv` | `getAsCSV` of all fourteen structs of `event.h` | and a reader of such a file, for the property `Converted` |
| `Decoder` | UnpackStream and SaveAsCSV, one loop iteration a step | uses `Codec` and `RingOps` |
| `MemoryState` | one action per event code, any arguments, and GetHeapInformation | counters modulo `Word` |
| `TracedHeaps` | a program that keeps heaps and reports them, stepping with `MemoryState` | variable `truth` is the program's own view |
| `Runtime` | threads in the event functions, Flush, Shutdown, the two Inits | the lock, the buffers, the heap ids, the socket, the tool's messages |
| `Session` | the two windows, their messages, the connections and the user | the decoder is the sequence of events it has taken |
| `Sampler` | GetFilteredData, one loop iteration a step, while samples arrive | a sample is its time |
| `RingBufferProofs`, `DecoderProofs`, `RuntimeProofs`, `SamplerProofs`, `SessionProofs`, `MemoryStateProofs`, `TracedHeapsProofs`, `BlockAllocatorProofs` | theorems about the module of that name | section 5 |
| `BlockAllocator` | the allocators of the demo, a trace of events on its way, and the tool | extends `MemoryState`, implements `TracedHeaps` |

`MC...` modules give the constants values for TLC. `MCDecoderFits` adds to
`MCDecoder` the assumption that its chunks and files fit, which the theorems about
them have as a hypothesis; `decoder_file_tail` is the run where a file does not.

### How state and actions correspond to the code

**Ring.** `cur` holds `read_pos_`, `write_pos_`, `num_read_` and `unread_`, a
record with the fields of `struct rollback`; `rollbacks` is the stack.
`SaveOverRollback` changes nothing, as in the code, where it fills in a local
copy. `LoadRollback` has the guard that nothing was populated since the record
was saved. The class does not test it: it is the contract of the class, and
`RollbackIsFresh` of `Decoder` checks that its only user keeps it.

**Decoder.** A call is native code that nothing interrupts; its loops are steps
because it is a question whether they end. `phase` says which loop the call is
in: `search` (trySteps), `decode` (the inner loop), `refill` (loadRollback and
populate at its end). `undefined` is entered when the search runs out of bytes
and `loadRollback` pops an empty `std::stack`; no property says anything about
what follows. `trace` is what the program sent, and `given` how much of it was
handed over; both are ghosts. Searching byte by byte can be deceived by bytes
inside an event that read as an event with the expected number, or as the
header of EndStream with it, which sets `_stream_end` (`decoder.cc:191`). It can
also start inside the next event when that has arrived in part: the search then
throws its beginning away, and `loadRollback` brings it back, as long as nothing
in it is mistaken for an event. The assumption `UnambiguousAssumption` says that
the traces have no such bytes, and TLC evaluates it on those of the runs.

**Numbers and text.** `Ret` and `Mul` are the variables of decodeValue after so
many bytes, in a word of `Word`; `Number` is the digits without the marker. The
run has a word of 22 bits: a number of four bytes fills it, and loses its
marker at the top, as one of ten bytes does in 64 bits. `csv` is a text of
symbols, and `Converted` reads it back symbol by symbol, as rows of cells. Texts
in the run hold no comma or newline (`FilesFitColumns`, section 3).

**Memory state.** `heaps` maps ids to records with the fields of `Heap`. The
operators are named after the member functions they are (`HeapAddCore` for
`Heap::addCore`). The uninitialised maxima are chosen from `Garbage`. The
dereference of an unknown heap in SetBackingAllocator sets `crashed`. Left out:
names, types, the `num_...` counters, the `last_update_` of heaps and cores.
HeapDestroy casts the id to `int` (`memory_state.cc:193`): `AsInt` keeps the lower
half of the word and extends its sign, so that only ids below `IntLimit` are
found.

**Traced program.** One step of `TracedHeaps` is one step of the program on its
own heaps and the event for it. In `TSpec` it passes the growth to
HeapGrowCore, which is what the tool adds; in `HeaderSpec` it passes the new
size of the core, which is what `MemTrace.h:122` asks for (run `grow_core`).
Between two events the user may look at a heap, at its backing allocators too,
which may be other heaps, created before or later, and destroyed since.
`Busy` are the heaps that have memory; the others back them.
Allocations lie in one core, over two that touch (`heap.cc:95`), or outside of
all cores. Three things the functions offer are left to `MemoryState`, because
the tool does not follow a program that does them (section 3, known
behaviours): shrinking a core, using an address without a core a second time,
allocating over three cores.

**Runtime.** `pc` says where a thread is in its call. An event is two pieces,
`begin` with the counter and `end`, after which the counter is incremented; a
piece is written by a Reserve and a Commit. Threads interleave between any two
steps. Every event takes a heap id behind the lock, as HeapCreate does, so that
the order of ids on the wire can be compared with that of the pieces.
A buffer holds `BufferSize` pieces, and Reserve asks for more than is
committed, as in the code. The lock is recursive (CRITICAL_SECTION). The peer
may take a part of a block, close, reset, refuse, and send messages; a recv of
0 bytes makes HandleMessage read an uninitialised array, which is any message.
It may also stop to read (`stall`), so that send would block until it goes on,
which it need not do. A message received while WSAGetLastError() still holds
WSAEWOULDBLOCK of an earlier call is dropped (`MemTrace.cpp:424`). A call of a
null function, and entering or leaving a destroyed lock, set `crashed`.

Shutdown leaves the lock and destroys it in two steps (`Leave`, `Destroy`;
`MemTrace.cpp:543` and 544). A thread that has seen `_active` and waits may get
the lock in between. It then writes its event behind EndStream, into a buffer
that nobody sends any more; a full buffer or a Flush goes round in send on the
closed socket for ever; and if the lock is destroyed first, entering or leaving
it is undefined. All of this is in the model, and `EndStreamIsLast` and
`CallsReturn` say what is left: what reached the wire ends with EndStream, and
each such thread has written one event that stays.

`Program` is the one assumption about the traced program: other calls than the
first initialisation wait until that is over. `MemTraceInit.h` is written for
that: it initialises in an object constructed before all others. A call that
does not wait finds `_active` set and the lock not initialised
(`MemTrace.cpp:301` and 304), or `_socket` not yet assigned (line 438), so that a
block is dropped in the middle of the stream. That
a resumed trace looks for messages again only at the next full buffer is in
the model as it is in the code.

**Windows.** `sockets` are the connections of `server.js`, each with what it has
sent and whether it is piped; `internal` and `inner` are the socket between
the windows and what is on it; `toServer` and `toChart` are the two message
queues of `main.js`. What a pipe does (writes go through, the end of the source
ends the destination, a write after the end is an error that unpipes) is node's
and external. A connection made before the internal socket exists throws in
`socket.pipe(undefined)`, so that none of its handlers is attached (`broken`).
`status` in `buttons.js` is the constant of `internal_server.js`, a script of
the same page. Connections send the events 1 to `Events`; how bytes become
events is `Decoder`'s matter. A chunk that does not have the event the decoder
expects leads into `undefined`, where the model stops. `disturbed` remembers
that a connection was lost or not alone, or a file was unpacked.

**Chart.** `calling` is true between the call of GetFilteredData and its return,
and nothing else happens then: native code on the thread of the window. The
time is in ticks, and the skip rate is the whole number of ticks between two
samples (the rounding of the `double` is not modelled). GetFilteredData
dereferences `end()` where no sample is at or after the start of the window
(`decoder_wrapper.cc:143`), and decrements `end()` of an empty map (line 140).
Both are undefined behaviour with two outcomes that builds produce: one that
checks iterators stops (`GetFilteredDataAborts`, `aborted`), and in others only an
address is formed, which the loop does not use as it does not run
(`GetFilteredData`). `toIter` is used by nothing else.

**Demo.** One action is a member function of BlockAllocator with the events it
sends, of which any first part may still be sent when the connection breaks;
from then on nothing is. `trace` is everything between the event functions and
addEvent; that it keeps the order and loses nothing in the middle is what
`Runtime` and `Decoder` are about. The client may use the allocators in any
order; TestCustomAllocator is one client.

## 3. Runs

Passing:

| run | question | bounds, and why they are enough |
|---|---|---|
| `ring` | does the ring return what it accepted, in every order of calls? | capacity 3, two byte values, 6 bytes, chunks up to 4, two records: every position wraps, chunks fill and overrun the ring, the ring goes round twice |
| `decoder` | are sessions decoded in order and at once, however cut, do files become rows that read back as the events sent, and does every call end? | two sessions with multi-byte numbers, strings and arguments that look like headers, in chunks of 1 to 12 bytes in every order; files with the border numbers of one to four bytes up to the largest of the word, and three strings in all positions; together every event code; a ring of 27 bytes that wraps at many positions |
| `memory_state` | do totals and parts agree under any events? | one heap, two addresses, numbers modulo 3, so every counter wraps |
| `traced_heaps` | does the tool show the program's heaps, is its curve current, and can the user look at it at any time? | two heaps: one with memory on three addresses, and one created before it, with an id that still fits an `int`, which may back it and be destroyed; two timestamps, one allocation without a core, one backing allocator: up to three cores, touching or apart, allocations in, at the border of and over two cores |
| `runtime` | what reaches the wire, in which order of the heap ids, who leaves with the lock, and do calls return? | three threads, buffers of four pieces (an event and a half fit), four events, one flush or upgrade, two messages or stalls, all failures of the peer (partial, stalled, paused, closed, reset, refused at first or when upgrading); with main, a thread that comes to the lock late and another behind it; threads beside main are symmetric |
| `session` | is what the chart window says of a connection true, is Reset safe, do the windows agree? | two connections of two events in chunks of one or two, three clicks, and everything that may go wrong: cut, lost, overlapping, unpacked in between, earlier than the internal socket. Two connections are needed for one to come back and for two to overlap; three clicks switch off, on, and reset |
| `sampler` | is the thinned curve faithful, and does every call end? | every set of samples in nine ticks, windows from the start and the middle, skip rates of one, two and four ticks: gaps shorter, as long as and longer than each |
| `allocator` | does the tool end up with what the allocators hold? | an allocator of three blocks and one of two blocks of two bytes, two heap ids, two places for malloc, two events on their way, two lost: all sixteen orders of the longer list, an allocator built again at another place, a break at every event |

Violations, each the disagreement of the code with a sentence of the
repository (quoted in `PROJECT.json`, findings):

| run | what TLC finds |
|---|---|
| `decoder_file_tail` | a file larger than the ring loses its last events in the CSV |
| `grow_core` | a program that passes HeapGrowCore the new size, as its header says, makes a core of one byte that grew to two look like three |
| `shrink_tears_stream` | HeapShrinkCore mixes its bytes with those of another event |
| `session_stuck` | a message of the server window that arrives after the end of the data leaves `collecting` set, and Reset refuses for good |

Known behaviours of the code, which the models have as steps and no run is
about:

- a file larger than the ring, with an event that ends exactly where the ring
  is full, is converted for ever (`decoder_wrapper.cc:107`: loadRollback makes
  the event unread again, oneStep refuses it because it is counted, populate
  finds no room); `Files` with `Cap` 21 shows it;
- HeapShrinkCore has no case in addEvent (`memory_state.cc:231`);
- HeapFreeAll leaves used memory, the curve and allocations without a core as
  they were (`memory_state.cc:88`);
- an allocation without a core is never erased (`heap.cc:143`) nor overwritten
  (`heap.cc:113`): a second one at the address is freed with the first size;
- the maxima of a new heap are uninitialised (`heap.h:48`), so "Max used" may be
  a value the heap never reached;
- InitFile leaves the listen function null, and the first full buffer calls it
  (`MemTrace.cpp:175`);
- InitSocket on an active trace connects and installs nothing
  (`MemTrace.cpp:435`); if nobody listens it returns with the lock
  (`MemTrace.cpp:380`), the trace is shut down, and a thread that waits for the
  lock never returns; `OwnerIsInside` says that it can be no other call and that
  no call meets the lock later;
- the loop around send goes round on every error (`MemTrace.cpp:403`), so after
  a reset, or while the other end does not read, the sending thread does not
  return, and "shutting down" (`MemTrace.cpp:410`) is only reached by a send that
  took a part;
- an event of a thread that waited for the lock during Shutdown is written after
  EndStream and never sent, and a Flush of such a thread goes round for ever on
  the closed socket;
- an allocation over two cores is recorded in the first of them only
  (`heap.cc:95`); `Todo.md:11` plans a record in both, and no property asks for
  the one or the other;
- through a gap longer than the skip rate the curve goes on with the sample it
  last showed (`decoder_wrapper.cc:147`), although a newer one, less than a skip
  rate behind that, may have replaced it: the outdated usage is drawn as long as
  the gap lasts;
- GetFilteredData dereferences `end()` when a window begins behind the last
  sample (`decoder_wrapper.cc:143`);
- an id of a heap that does not fit an `int` is not found by HeapDestroy
  (`memory_state.cc:193`), or found as another heap's: the heap never dies, or
  the wrong one does;
- a backing allocator that names a heap the tool does not know crashes it, at
  once (`memory_state.cc:199`) or when the user looks (`decoder_wrapper.cc:276`);
- a comma or newline in a name shifts the columns of the CSV; the thread of an
  event is not in it;
- more samples per second than the clock has ticks give a skip rate of 0, with
  which GetFilteredData never ends (`decoder_wrapper.cc:144`); the end of the
  window is computed and not used, so a curve always goes on to the last
  sample; before the first sample of a window the curve shows the usage of that
  sample, not the one before;
- pause and resume are sent to `external_socket`, which does not exist
  (`server.js:64`);
- "Successfully collected data" is shown after a connection that was cut, too
  (`messages.js:17`); `collecting` then stays set;
- one piped connection per launch: its end ends the internal socket, and later
  ones write after the end; disable and enable look at the first connection
  ever made (`server.js:76`), and enabling an ended one ends the internal socket;
- after a lost connection, beside another one, or after "Unpack to disk"
  (`buttons.js:56`, which uses the decoder of the live data), the decoder
  continues one source with another, and "Connection ended correctly" can be
  shown of the mixture; `EndedCorrectlyIsWhole` leaves these out (`disturbed`);
- a program that connects before the chart window has sent its address is not
  read (`server.js:22`);
- TestCustomAllocator never returns, so that the demo reaches neither Flush nor
  Shutdown.

Deadlock is not checked: all models are bounded and stop at their bounds
(bytes, events, calls), the decoder stops when its trace is used up and a
crashed model stops where it crashed.

Every property of a passing run has a mutant: a definition of the model changed
the way a slip in the code would change it, under which TLC finds the property
violated. Mutants stand before the definitions they are of.

## 4. Fairness

`Decoder`: weak fairness of the steps of a call. A call is a native function
on the JavaScript thread and runs until it returns.

`Runtime`: weak fairness of `Step(th)` for every thread: a thread inside a
call is scheduled. The lock needs no stronger assumption because events are
bounded. Nothing is assumed of the other end, nor of when the program makes
calls. `CallsReturn` therefore excuses a call that from some time on is `Stuck`
for ever: it is itself in one of the loops that only somebody else can end
(send and recv on a connection that is lost, stalled or closed; the pause), or it
waits for the lock of a thread that is, or of main after a refused upgrade. A
call that is stuck now and then, or that waits for a thread which goes on,
is not excused. It accepts the undefined behaviour that is known, the null listen
function of a file and the lock after Shutdown, and no other.

`Sampler`: weak fairness of the loop, which is a native call. Nothing is assumed
of when samples arrive or the chart asks.

## 5. What is proved

Each theorem holds for every value of the constants that the module's
assumptions allow, and for every run of the specification. The invariants are
proved by induction: a strengthening is shown to hold at the start and to be
kept by every action, and to imply the property. The two refinements and the
property of steps (`PastStays`) are proved of each step from a state in which
such an invariant holds.

| module | theorems | for every |
|---|---|---|
| `RingBufferProofs` | `RingTypeCorrect`, `RingWindowIntact`, `RingRollbacksIntact`, `RingImplementsByteStream` | capacity, set of bytes, bound |
| `DecoderProofs` | `NumberRoundTrip`, `EventRoundTrip`, `DecoderInvariant`, `DecoderDelivers`, `DecoderRollsBackFresh`, `DecoderAtBoundary`, `DecoderSeesTheEnd`, `DecoderNothingWaits`, `DecoderLeavesLittle`, `DecoderConverts` | word size from 8 to 64 bits, ring, traces without misleading bytes, cut into chunks of any sizes |
| `RuntimeProofs` | `TypesKept`, `StreamStaysIntact`, `HeapIdsStayInOrder`, `NothingIsLost`, `EndStreamStaysLast`, `OwnerStaysInside` | number of threads, buffer size, behaviour of the peer |
| `MemoryStateProofs` | `TypesKept`, `ManagedStaysSum`, `CurveStaysCurrent` | word size, ids, addresses, sizes, times; any events |
| `TracedHeapsProofs` | `UsedStaysLive`, `CoresStayKnown`, `LiveStaysRecorded`, `PeaksStayAbove`, `NoneStaysUnknown`, `TracedCurveStaysCurrent` | the same, any program that uses the event functions as the tool reads them |
| `SessionProofs` | `TypesKept`, `PipeStaysWithButton`, `ResetStaysSafe`, `CorrectEndsAreWhole` | number of connections, events, clicks |
| `SamplerProofs` | `TypesKept`, `CurveStaysThin`, `LeftOutStaysClose`, `NothingGetsSkipped`, `ThePastStays` | set of samples, frequency, window, density |
| `BlockAllocatorProofs` | `FreeListStaysIntact`, `DemoUsesTraceProperly`, `ToolCatchesUp` | allocators, block sizes and counts, places of memory, events on their way and lost |

**Assumptions.** They are the `ASSUME`s of the modules, which TLC evaluates on
every run: a positive capacity and at least one byte value; a buffer with more room than
Reserve asks for, which asks for one piece at least; densities not above the
frequency (otherwise the skip rate is 0 and the loop of GetFilteredData never
ends, section 3); addresses and sizes below `Word`. `TracedHeaps` asks that the
address behind a block is below `Word`, too: C and C++ guarantee that a pointer
one past the end of an object exists, and `Core::end` is one. `BlockAllocator` asks
the same, and that blocks have at least a byte and allocators a block, that the ids
of heaps fit an `int`, and that
no event comes at time 0: `death_` is 0 as long as a heap lives, and times count
the ticks since `Encoder::Init`, so that only a heap destroyed within the first
tick of a trace would look alive. `Codec` asks that a word is a power of two and a
byte has 256 values, and `Decoder` that its traces are what the event functions
can send (`TracesAssumption`: numbers of a word, the arguments of each code,
EndStream last, fewer events than a word counts) and are not misleading
(`UnambiguousAssumption`, section 2).

Three theorems have hypotheses of their own. `DecoderNothingWaits` and
`DecoderLeavesLittle` have `ChunksFit`: a chunk and one event together, and a
whole file, fit into the ring. The ring has 128 KB (`ringbuffer.h:10`) and node
reads at most 64 KB of a socket at once, so it is true of connections whose
events have up to 64 KB. A chunk that does not fit is taken in parts, and the
call ends when the last part has entered the ring, decoded or not;
`DecoderDelivers` and the others hold of that too. `DecoderConverts` has
`ChunksFit` and `FilesFitColumns`: no name has a comma or a newline in it, which
getAsCSV does not escape, and bools are 0 or 1. Without them the property is
false (section 3). The run `decoder` evaluates both on its instance.

**Byte ring.** The inductive invariant is `Inv`: types, `WindowIntact` and
`RollbacksIntact` together. None is inductive alone. The window needs the
rollback records, for `LoadRollback` makes one of them the cursor; a record
needs the window, for saving makes the cursor a record. `Describes(c, d, s)`
says that cursor `c` on storage `d` describes the stream `s`; the lemmas follow
the two ways a cursor moves, `ConsumeDescribes` and `PopulateDescribes`. The
refinement step uses `Inv` to show that the bytes returned are the next ones of
the stream.

**Decoder.** The first half of `DecoderProofs` is about the format. `Window(d, c, w)`
says that `w` are the unread bytes at `c`; what decodeValue, decodeString,
decodeHeader and oneStep return is shown to depend on `w` only (`ValueAs`,
`ArgsAs`, `HeaderAs`, `StepAs`). The bytes of a number add up to the number
plus `Mul`: the marker is its top bit while `Mul` is in the word, and has been
shifted out, as `Mul` has, when it is not. So the mask takes the marker away and no
digit, and `NumberRoundTrip` holds, of which `EventRoundTrip` is made piece by
piece. What has arrived of an event in part is no event.

The inductive invariant is `DecoderInv`. `Holds`: storage and cursor describe the
stretch of the stream that arrived and is not read (`Describes` of
`RingBufferProofs`, for the decoder's ring), and `pending` the stretch behind it.
`Placed`: at which places the cursor can be, by phase. A call begins where the
next event begins or where the last one does (`Behind`), since the decoder goes
back to it at the end of every call; the search (`Searching`) moves on byte by byte
through the last event, where nothing decodes because it is counted already or by
`UnambiguousAssumption`, and beyond the start of the next one only while that is
incomplete; the record that loadRollback takes is a beginning of an event, and was
saved since the last populate (`Loadable`). None of these is inductive without
the others: that the search stops at the right place needs what oneStep finds at
each place (`AtNext`, `AtLast`, `Between`), and that the record is fresh needs where
the search began. `Delivered` then counts.

`FitInv` adds, for chunks that fit, that nothing is pending and a call ends with the
next event incomplete; `CompletedIs` counts the complete events. `CsvInv` says that
the text written so far reads as the rows of the registered events: `Reads` follows
the reader through separators and cells (`ReadsRow`), `ColumnsExist` through the
fourteen structs, and `RowIsRead` gives the event back.

Two inductions are over data: bytes of a number, and pieces of a sequence. The
library's theorems for them take an operator, so they are done over sets of
numbers: a set without a least counterexample is empty (`LeastNumber`, `Induction`),
and a recursive function is the limit of its iterations (`Recursion`), which gives
its equation.

**Runtime.** Three layers. `Control` is what labels, lock and buffers have to do
with each other: who is behind the lock has it (`Exclusive`), a reserved place
is the next free one when it is written (`Offsets`), before the first
initialisation is over nobody but main is inside (`Starting`), nothing follows a
closed connection (`Ended`). `Stream` says what the bytes are, of the sequence
`Emitted` (the wire, and then what waits in the current buffer) and not of the
wire: only there does a Commit add one piece and a flip nothing. `Numbered`
counts its pieces against `count`, `Given` its heap ids against
`next_heap_id`, but for the one a thread has taken and not yet written.
That nobody is in the middle of an event but the owner of the lock makes the two
corrections at most one. The properties of the wire follow for its being a
beginning of `Emitted`. `Closing` is about the time after
Shutdown has closed the socket: the wire stays as it is, no call begins, and a thread that had waited writes its event, once, into a buffer
that stays where it is. `OwnerStaysInside` needs no restriction of the peer: the
only step that returns with the lock clears `_active` with it.

**Memory state.** `HeapsInvariant` is the types of all heaps, `HeapIsSum` and
`HeapIsCurrent` for each of them: the newest sample is not newer than the last
event, which a later sample at the same time overwrites. Every event is shown
to make one heap or to change one in one of ten ways (`StepCases`, `Becoming`).
The sum over a map with one entry more, less or changed (`TotalPut`,
`TotalErase`) is proved from the definition of the fold, and the arithmetic of
counters that wrap from `SameRemainder`.

**Traced program.** `Paired(h, w)` relates a heap of the tool with the program's:
cores (`Follows`), the core that `alloc_to_core` names (`Places`), what each core
has recorded (`CoreRecords`). It needs that the program's blocks are apart
(`WellFormed`): only then does a sum of sizes fit the address space
(`ApartFits`), so that no counter wraps, and no allocation finds its pointer in
a core already. The cast in HeapDestroy may make the tool end another heap than
the program, or none: a heap keeps its relation either way (`PairedDead`,
`PairedGone`). `CandidateFound` is why at most two cores matter: an allocation
whose bytes are the heap's either fits a core or spans two neighbours, and the
tool's inclusive bounds never choose a core that does not hold its start
(`CandidateHolds`), although they accept one that ends there.

**Windows.** Three invariants, each on the types and on `AddressFirst` (the
address is the first message of all). `Follows` relates the last switch on its
way to the button. `Stopped` is why Reset is safe: with a part of a connection in
the decoder, collecting has stopped only for the end of the internal socket.
`OneByOne` and `FromFirst` say that undisturbed only the first connection is ever
decoded, which makes "ended correctly" true of all of it.

**Chart.** `IsCurve` says of every point what time it has and which sample it
shows, as a function of samples, request and place (`Edge`, `Before`), so that
a curve does not depend on when it was computed but for samples that came later
(`CurvesAgree`); with `AtTheEdge`, that what comes when the call is over was not
passed, this is `PastStays`.

**Demo program.** `AllWhole` is about the allocators alone: the free list is
`Chained`, a sequence of the free blocks without repetitions, each pointing to
the one behind it and the last to null. Alloc takes the first off, Free puts one
in front, and the walk of `FreeListIntact` is shown to go along the sequence.

`DemoInvariant` adds the events on their way (`Tracked`): they lead (`Leads`), one
after the other and each in a world where it is legal (`Legal`), from
`reported` to some world, and to one that `Matches` the allocators as long as
the connection stands. Every operation is shown to send events that lead on from
a matching world to a matching world. A broken connection cuts the sequence,
and any first part of a sequence that leads, leads too. So the next event
handled is legal in `reported`, which is what a step of `TracedHeaps` asks
(`DemoUsesTraceProperly`); with the theorems of `TracedHeapsProofs` about the
instance `truth <- reported`, the tool's heaps are those of `reported`, and with
nothing on its way `reported` matches the allocators (`ToolCatchesUp`). `Deaths`
says that a heap is shown dead when its end was reported. The numbers of blocks
are compared as sums of sizes, `TotalConstant`. The ids of the demo fit an `int`, and
`SmallId` is why the cast in HeapDestroy leaves them as they are.

**Only model-checked.** Liveness (`CallReturns`, `CallsReturn`, `CallsEnd`,
`CollectingEnds`), which rests on fairness and ENABLED, beyond the prover. The
format's assumption `UnambiguousAssumption` is evaluated for the traces of the runs
and not derived: there are traces that break it.

## 6. Not modelled

- `getAsVerbose` and the debug output; `saveToFile`, which writes every event
  into `test.csv` as well.
- In the windows: errors of the internal and the listening socket, the address
  shown at the start, the three seconds for which a warning covers the message,
  trace files that the server window writes.
- In the chart: scales, legend, the follow option, the conversion of bytes.
- A second initialisation after Shutdown in one process; asynchronous file
  writes that fail; the operating system layer (`MemTraceSys.cpp`).
- `MemTraceInit.h`: objects that call InitFile or InitSocket at the start and
  Shutdown at the end, which are calls of `Runtime`.
- `testing/`: older copies of ring, decoder and memory state. Build files and
  data.

## 7. Plan

The project keeps to a dozen runs, so that each answers a question of its own.
What is left:

1. Models: `Runtime`'s stream given to `Decoder` byte by byte; pausing, and what
   a resume needs to be seen; a second initialisation in one process.
2. The format: which traces break `UnambiguousAssumption`, and what the decoder
   passes on of them.
