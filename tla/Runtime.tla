------------------------------- MODULE Runtime -------------------------------
(***************************************************************************)
(* The sending side, runtime/MemTrace.cpp: threads of the traced program   *)
(* call the event functions, Flush and Shutdown; main initialises and may  *)
(* later ask for a socket instead of a file.  The encoder has two buffers, *)
(* sends the current one when a Reserve does not fit, flips them, and then *)
(* looks for a message of the tool.  The lock is a CRITICAL_SECTION: its   *)
(* owner may enter it again.                                               *)
(*                                                                         *)
(* The bytes of an event are two pieces: "begin", which carries the event  *)
(* counter, and "end", after which the counter is incremented.  A piece    *)
(* takes one unit of a buffer; Reserve asks for Reserved units, as the     *)
(* code asks for ten bytes and commits fewer.  Every piece is written in   *)
(* two steps, Reserve and Commit.  The event of the model is HeapCreate,   *)
(* which also takes the next heap id; the others differ in their bytes.    *)
(***************************************************************************)
EXTENDS Integers, Sequences, SequencesExt

CONSTANTS Threads, main,
          BufferSize,    \* kBufferSize, in pieces
          Reserved,      \* what Reserve asks for
          Calls,         \* calls the program makes, a subset of AllCalls
          PeerMay,       \* what the other end of the socket may do
          MaxEvents,     \* bound: events sent, the first and the last included
          MaxOther,      \* bound: calls of Flush, and of InitSocket when active
          MaxMessages    \* bound: messages from the tool

AllCalls == {"event", "shrink core", "flush", "shutdown", "init file", "init socket"}

\* "refuse" and "refuse again": the connection of the first InitSocket, and of one
\* made while the trace is active.  "stall": it does not read for a while.
AllPeerMay == {"pause", "resume", "partial", "stall", "close", "reset", "refuse", "refuse again"}

ASSUME RuntimeAssumption ==
  /\ main \in Threads /\ {"free", "destroyed"} \cap Threads = {}
  /\ BufferSize \in Nat /\ Reserved \in 1 .. (BufferSize - 1)
  /\ Calls \subseteq AllCalls
  /\ PeerMay \subseteq AllPeerMay
  /\ MaxEvents \in Nat /\ MaxOther \in Nat /\ MaxMessages \in Nat

VARIABLES active, paused, count,        \* State._active, State._paused, count
          next_heap_id, heap,           \* State._next_heap_id, and the id each thread took
          transport,                    \* transmit function: "none", "file", "socket"
          socket, boot_file,            \* State._socket, State._boot_file
          lock,                         \* the owner, "free" or "destroyed"
          buffers, write_offset, current_buffer,
          pc, call, part, slot,         \* where each thread is in which call
          wire,                         \* pieces the socket or the file took
          peer,                         \* the other end: "up", "stalled", "closed", "reset"
          inbox,                        \* its messages not yet received
          started, others, messages,   \* main's first init is over; bounds
          crashed                       \* undefined behaviour was reached

state == <<active, paused, count>>
outputs == <<transport, socket, boot_file>>
encoder == <<buffers, write_offset, current_buffer>>
threads == <<pc, call, part, slot>>
ids == <<next_heap_id, heap>>
outside == <<peer, inbox, messages>>
bounds == <<started, others>>
vars == <<state, outputs, lock, encoder, threads, wire, outside, bounds, ids, crashed>>

Piece(th) == [kind |-> call[th], by |-> th, part |-> part[th], n |-> count, heap |-> heap[th]]

\* What a buffer holds where nothing was written yet.
NoPiece == [kind |-> "none", by |-> main, part |-> "end", n |-> 0, heap |-> 0]

NoSlot == [buffer |-> 0, at |-> 0]

\* Static storage: _socket and _boot_file start as 0, which is neither invalid.
Init ==
  /\ active = FALSE /\ paused = FALSE /\ count = 0
  /\ next_heap_id = 0 /\ heap = [th \in Threads |-> 0]
  /\ transport = "none" /\ socket = "zero" /\ boot_file = "zero"
  /\ lock = "destroyed"
  /\ buffers = [b \in {0, 1} |-> [i \in 1 .. BufferSize |-> NoPiece]]
  /\ write_offset = 0 /\ current_buffer = 0
  /\ pc = [th \in Threads |-> "idle"]
  /\ call = [th \in Threads |-> "none"]
  /\ part = [th \in Threads |-> "begin"]
  /\ slot = [th \in Threads |-> NoSlot]
  /\ wire = <<>>
  /\ peer = "up" /\ inbox = <<>> /\ messages = 0
  /\ started = FALSE /\ others = 0
  /\ crashed = FALSE

At(th, label) == pc[th] = label /\ ~crashed
Goto(th, label) == pc' = [pc EXCEPT ![th] = label]
Begin(th, what, label) ==
  /\ At(th, "idle")
  /\ what \in Calls
  /\ Goto(th, label)
  /\ call' = [call EXCEPT ![th] = what]
  /\ part' = [part EXCEPT ![th] = "begin"]
  /\ UNCHANGED slot

Crash(th) == /\ crashed' = TRUE
             /\ UNCHANGED <<state, outputs, lock, encoder, threads, wire, outside, bounds, ids>>

\* Events sent or under way: keeps behaviours within MaxEvents, and one of the
\* events free for EndStream.
Underway == Cardinality({th \in Threads : pc[th] # "idle" /\ call[th] # "flush"})

-----------------------------------------------------------------------------
\* Mutant of CallEvent: the lock is not taken.
CallEventUnlocked(th) ==
  /\ active /\ count + Underway < MaxEvents - 1
  /\ Begin(th, "event", "reserve")
  /\ UNCHANGED <<state, outputs, lock, encoder, wire, outside, bounds, ids, crashed>>

(***************************************************************************)
(* Calls begin.  The event functions, Flush and Shutdown look at _active   *)
(* without the lock; HeapShrinkCore does not look, nor takes the lock.     *)
(***************************************************************************)
CallEvent(th) ==
  /\ active /\ count + Underway < MaxEvents - 1
  /\ Begin(th, "event", "enter")
  /\ UNCHANGED <<state, outputs, lock, encoder, wire, outside, bounds, ids, crashed>>

HeapShrinkCore(th) ==
  /\ count + Underway < MaxEvents - 1
  /\ Begin(th, "shrink core", "reserve")
  /\ UNCHANGED <<state, outputs, lock, encoder, wire, outside, bounds, ids, crashed>>

Flush(th) ==
  /\ active /\ others < MaxOther
  /\ others' = others + 1
  /\ Begin(th, "flush", "enter")
  /\ UNCHANGED <<state, outputs, lock, encoder, wire, outside, started, ids, crashed>>

\* By main, at any time: a thread that has seen _active finds the lock gone.
Shutdown ==
  /\ active
  /\ Begin(main, "shutdown", "enter")
  /\ UNCHANGED <<state, outputs, lock, encoder, wire, outside, bounds, ids, crashed>>

\* InitCommon up to its call of BeginStream.
InitCommon(how) ==
  /\ active' = TRUE
  /\ socket' = "invalid"
  /\ lock' = "free"
  /\ write_offset' = 0
  /\ transport' = how
  /\ UNCHANGED <<paused, count, buffers, current_buffer, wire, outside, others, ids, crashed>>

InitFile ==
  /\ ~started
  /\ Begin(main, "init file", "enter")
  /\ boot_file' = "open"
  /\ InitCommon("file")
  /\ UNCHANGED started

\* The first initialisation with a socket, when the tool can be reached.
InitSocket ==
  /\ ~started
  /\ Begin(main, "init socket", "enter")
  /\ InitCommon("socket")
  /\ UNCHANGED <<boot_file, started>>

\* ErrorShutdown, also the last thing a failed InitSocket does.
ErrorShutdown ==
  /\ boot_file' = "invalid"
  /\ socket' = "invalid"
  /\ active' = FALSE
  /\ UNCHANGED <<paused, count, transport>>

InitSocketFails ==
  /\ ~started /\ At(main, "idle") /\ "init socket" \in Calls /\ "refuse" \in PeerMay
  /\ started' = TRUE
  /\ ErrorShutdown
  /\ UNCHANGED <<lock, encoder, threads, wire, outside, others, ids, crashed>>

\* InitSocket when already active: the lock, the connection, and no more.
InitSocketAgain ==
  /\ active /\ others < MaxOther
  /\ others' = others + 1
  /\ Begin(main, "init socket", "enter")
  /\ UNCHANGED <<state, outputs, lock, encoder, wire, outside, started, ids, crashed>>

-----------------------------------------------------------------------------
\* Behind the lock: where the call goes on, and the heap id an event takes.
Inside(th) ==
  /\ Goto(th, CASE call[th] = "flush" -> "send"
                [] call[th] = "init socket" /\ started -> "connect"
                [] OTHER -> "reserve")
  /\ part' = [part EXCEPT ![th] = IF call[th] = "flush" THEN "flush" ELSE @]
  /\ IF call[th] = "event"
     THEN /\ heap' = [heap EXCEPT ![th] = next_heap_id]
          /\ next_heap_id' = next_heap_id + 1
     ELSE UNCHANGED ids
  /\ UNCHANGED <<state, outputs, encoder, call, slot, wire, outside, bounds, crashed>>

\* Mutant of Enter: the lock does not keep others out.
EnterAnyway(th) ==
  /\ At(th, "enter")
  /\ \/ lock # "destroyed" /\ lock' = th /\ Inside(th)
     \/ lock = "destroyed" /\ Crash(th)

\* Entering the lock; a critical section that was deleted is undefined
\* behaviour to enter.
Enter(th) ==
  /\ At(th, "enter")
  /\ \/ lock \in {"free", th} /\ lock' = th /\ Inside(th)
     \/ lock = "destroyed" /\ Crash(th)

\* connect: success leaves the old transport in place, failure leaves the lock.
Connect(th) ==
  /\ At(th, "connect")
  /\ Goto(th, "leave")
  /\ UNCHANGED <<state, outputs, lock, encoder, call, part, slot, wire, outside,
                 bounds, ids, crashed>>

ConnectFails(th) ==
  /\ At(th, "connect") /\ "refuse again" \in PeerMay
  /\ ErrorShutdown
  /\ Goto(th, "idle")
  /\ UNCHANGED <<lock, encoder, call, part, slot, wire, outside, bounds, ids, crashed>>

Reserve(th) ==
  /\ At(th, "reserve")
  /\ IF Reserved + write_offset > BufferSize
     THEN Goto(th, "send") /\ UNCHANGED slot
     ELSE /\ Goto(th, "commit")
          /\ slot' = [slot EXCEPT ![th] = [buffer |-> current_buffer, at |-> write_offset]]
  /\ UNCHANGED <<state, outputs, lock, encoder, call, part, wire, outside, bounds, ids, crashed>>

Commit(th) ==
  LET b == slot[th].buffer
  IN  /\ At(th, "commit")
      /\ buffers' = [buffers EXCEPT ![b][slot[th].at + 1] = Piece(th)]
      /\ write_offset' = write_offset + 1
      /\ IF part[th] = "begin"
         THEN /\ part' = [part EXCEPT ![th] = "end"]
              /\ Goto(th, "reserve")
              /\ UNCHANGED count
         ELSE /\ count' = count + 1
              /\ Goto(th, CASE call[th] = "shutdown" -> "down"
                            [] call[th] = "shrink core" -> "idle"
                            [] OTHER -> "leave")
              /\ UNCHANGED part
      /\ UNCHANGED <<active, paused, outputs, lock, current_buffer, call, slot, wire,
                     outside, bounds, ids, crashed>>

\* Mutant of Down: Shutdown does not transmit the buffer.
DownUnsent(th) ==
  /\ At(th, "down")
  /\ active' = FALSE
  /\ part' = [part EXCEPT ![th] = "flush"]
  /\ Goto(th, "sync")
  /\ UNCHANGED <<paused, count, outputs, lock, encoder, call, slot, wire, outside,
                 bounds, ids, crashed>>

\* Shutdown: _active is cleared before the last flush.
Down(th) ==
  /\ At(th, "down")
  /\ active' = FALSE
  /\ part' = [part EXCEPT ![th] = "flush"]
  /\ Goto(th, "send")
  /\ UNCHANGED <<paused, count, outputs, lock, encoder, call, slot, wire, outside,
                 bounds, ids, crashed>>

(***************************************************************************)
(* The transmit function.  A socket takes everything, or a part of it,     *)
(* after which the tracing shuts down; while send returns -1 (it would     *)
(* block, the connection is lost, or the socket was closed) the loop goes  *)
(* round.  An invalid socket drops everything.                             *)
(***************************************************************************)
Pending == SubSeq(buffers[current_buffer], 1, write_offset)

\* send takes something: a stalled connection takes nothing but an empty block.
Accepts ==
  /\ socket = "open" /\ peer # "reset"
  /\ peer = "stalled" => write_offset = 0

Taken(th) ==
  \/ transport = "file" /\ wire' = wire \o Pending /\ UNCHANGED outputs
  \/ transport = "socket" /\ socket = "invalid" /\ UNCHANGED <<wire, outputs>>
  \/ /\ transport = "socket" /\ Accepts
     /\ wire' = wire \o Pending
     /\ UNCHANGED outputs

Send(th) ==
  /\ At(th, "send")
  /\ Taken(th)
  /\ Goto(th, "flip")
  /\ UNCHANGED <<state, lock, encoder, call, part, slot, outside, bounds, ids, crashed>>

\* Mutant of SendPartially: the rest of the block is dropped and tracing goes on.
SendPartiallyGoOn(th) ==
  /\ At(th, "send")
  /\ "partial" \in PeerMay
  /\ transport = "socket" /\ Accepts
  /\ \E n \in 0 .. (write_offset - 1) : wire' = wire \o SubSeq(Pending, 1, n)
  /\ Goto(th, "flip")
  /\ UNCHANGED <<state, outputs, lock, encoder, call, part, slot, outside, bounds, ids, crashed>>

SendPartially(th) ==
  /\ At(th, "send")
  /\ "partial" \in PeerMay
  /\ transport = "socket" /\ Accepts
  /\ active => lock \in {"free", th}
  /\ \E n \in 0 .. (write_offset - 1) : wire' = wire \o SubSeq(Pending, 1, n)
  /\ ErrorShutdown
  /\ Goto(th, "flip")
  /\ UNCHANGED <<lock, encoder, call, part, slot, outside, bounds, ids, crashed>>

\* Mutant of Flip: the index of the buffer is incremented and not flipped.
FlipOnward(th) ==
  /\ At(th, "flip")
  /\ write_offset' = 0
  /\ current_buffer' = current_buffer + 1
  /\ Goto(th, "receive")
  /\ UNCHANGED <<state, outputs, lock, buffers, call, part, slot, wire, outside,
                 bounds, ids, crashed>>

Flip(th) ==
  /\ At(th, "flip")
  /\ write_offset' = 0
  /\ current_buffer' = 1 - current_buffer
  /\ Goto(th, "receive")
  /\ UNCHANGED <<state, outputs, lock, buffers, call, part, slot, wire, outside,
                 bounds, ids, crashed>>

-----------------------------------------------------------------------------
(***************************************************************************)
(* RecieveMessage: the listen function, which InitFile leaves null.        *)
(* Afterwards Reserve takes its place, or Flush sends an empty block.  The *)
(* loop around recv ends with data and where there is none yet; it goes    *)
(* round while the connection is lost or the socket was closed.            *)
(***************************************************************************)
Transmitted(th) ==
  IF part[th] = "flush"
  THEN Goto(th, "sync") /\ UNCHANGED slot
  ELSE /\ Goto(th, "commit")
       /\ slot' = [slot EXCEPT ![th] = [buffer |-> current_buffer, at |-> write_offset]]

\* A message that arrived; recv takes all there is and HandleMessage compares
\* the first string in it.  Pause loops until the message is a "resume".
Handle(th, message) ==
  CASE message = "pause" -> paused' = TRUE /\ Goto(th, "pause") /\ UNCHANGED slot
    [] message = "resume" -> paused' = FALSE /\ Transmitted(th)
    [] OTHER -> /\ UNCHANGED paused
                /\ IF pc[th] = "pause" /\ paused THEN UNCHANGED <<pc, slot>>
                                                 ELSE Transmitted(th)

Listen(th) ==
  /\ At(th, "receive") \/ At(th, "pause")
  /\ transport = "socket"
  /\ \/ /\ socket = "open" /\ peer # "reset" /\ inbox # <<>>
        /\ \/ Handle(th, Head(inbox))
           \/ Handle(th, "none")   \* WSAGetLastError is still that of an earlier call
        /\ inbox' = <<>>
     \/ /\ \/ socket = "invalid"
           \/ socket = "open" /\ peer \in {"up", "stalled"} /\ inbox = <<>>
        /\ Handle(th, "none")
        /\ UNCHANGED inbox
     \/ \* recv returns 0: HandleMessage compares an uninitialised array
        /\ socket = "open" /\ peer = "closed" /\ inbox = <<>>
        /\ \E garbage \in {"pause", "resume", "none"} : Handle(th, garbage)
        /\ UNCHANGED inbox
  /\ UNCHANGED <<active, count, outputs, lock, encoder, call, part, wire, peer,
                 messages, bounds, ids, crashed>>

\* A call of a null function: the listen function of a file, and the transmit
\* function where no initialisation has succeeded.
NullFunction(th) ==
  /\ \/ At(th, "receive") /\ transport = "file"
     \/ At(th, "send") /\ transport = "none"
  /\ Crash(th)

\* Flush: (*_transmit_function)(NULL, 0), then Shutdown closes the socket.
Sync(th) ==
  /\ At(th, "sync")
  /\ transport = "socket" => socket = "invalid" \/ Accepts
  /\ socket' = IF call[th] = "shutdown" /\ socket = "open" THEN "closed" ELSE socket
  /\ Goto(th, "leave")
  /\ UNCHANGED <<state, transport, boot_file, lock, encoder, call, part, slot, wire,
                 outside, bounds, ids, crashed>>

\* The call returns, Shutdown but for its last step; the first InitSocket installs
\* its socket only now.
Return(th) ==
  /\ started' = TRUE
  /\ socket' = IF call[th] = "init socket" /\ ~started THEN "open" ELSE socket
  /\ Goto(th, IF call[th] = "shutdown" THEN "destroy" ELSE "idle")
  /\ heap' = [heap EXCEPT ![th] = 0]
  /\ UNCHANGED <<state, transport, boot_file, encoder, call, part, slot, wire,
                 outside, others, next_heap_id, crashed>>

\* Mutant of Leave: the lock is kept.
LeaveLocked(th) == At(th, "leave") /\ Return(th) /\ UNCHANGED lock

\* Leaving the lock; one that was deleted in the meantime is undefined behaviour
\* to leave.
Leave(th) ==
  /\ At(th, "leave")
  /\ \/ lock = th /\ lock' = "free" /\ Return(th)
     \/ lock = "destroyed" /\ Crash(th)

\* The end of Shutdown.  Whoever waited may have the lock by now, and the others
\* still wait for it.
Destroy(th) ==
  /\ At(th, "destroy")
  /\ lock' = "destroyed"
  /\ Goto(th, "idle")
  /\ UNCHANGED <<state, outputs, encoder, call, part, slot, wire, outside, bounds, ids, crashed>>

-----------------------------------------------------------------------------
\* The other end of the socket.
PeerWrites(message) ==
  /\ message \in PeerMay
  /\ socket = "open" /\ peer \in {"up", "stalled"} /\ messages < MaxMessages
  /\ inbox' = Append(inbox, message)
  /\ messages' = messages + 1
  /\ UNCHANGED <<state, outputs, lock, encoder, threads, wire, peer, bounds, ids, crashed>>

\* It stops to read, until send would block, and goes on.
PeerStalls ==
  /\ "stall" \in PeerMay /\ socket = "open"
  /\ \/ peer = "up" /\ peer' = "stalled" /\ messages < MaxMessages /\ messages' = messages + 1
     \/ peer = "stalled" /\ peer' = "up" /\ UNCHANGED messages
  /\ UNCHANGED <<state, outputs, lock, encoder, threads, wire, inbox, bounds, ids, crashed>>

PeerGoes ==
  /\ socket = "open"
  /\ \/ "close" \in PeerMay /\ peer \in {"up", "stalled"} /\ peer' = "closed"
     \/ "reset" \in PeerMay /\ peer # "reset" /\ peer' = "reset"
  /\ UNCHANGED <<state, outputs, lock, encoder, threads, wire, inbox, messages,
                 bounds, ids, crashed>>

Step(th) ==
  \/ Enter(th) \/ Connect(th) \/ ConnectFails(th)
  \/ Reserve(th) \/ Commit(th) \/ Down(th)
  \/ Send(th) \/ SendPartially(th) \/ Flip(th)
  \/ Listen(th) \/ NullFunction(th) \/ Sync(th) \/ Leave(th) \/ Destroy(th)

\* The traced program waits with its calls until the first initialisation is over.
Program(th) == started /\ (CallEvent(th) \/ Flush(th))

Next ==
  \/ InitFile \/ InitSocket \/ InitSocketFails \/ InitSocketAgain \/ Shutdown
  \/ \E th \in Threads : Program(th) \/ Step(th)
  \/ \E message \in {"pause", "resume"} : PeerWrites(message)
  \/ PeerStalls \/ PeerGoes

\* Every thread inside a call is scheduled.  Nothing is assumed of the other end.
Fairness == \A th \in Threads : WF_vars(Step(th))

Spec == Init /\ [][Next]_vars /\ Fairness

\* The same for a program that also shrinks cores, which is done unlocked.
NextUnlocked == Next \/ \E th \in Threads : started /\ HeapShrinkCore(th)

SpecUnlocked == Init /\ [][NextUnlocked]_vars /\ Fairness

-----------------------------------------------------------------------------
Labels == {"idle", "enter", "connect", "reserve", "commit", "down", "send", "flip",
           "receive", "pause", "sync", "leave", "destroy"}

Pieces == [kind : AllCalls \cup {"none"}, by : Threads, part : {"begin", "end"},
           n : Nat, heap : Nat]

\* Types; a place in a buffer is inside it.
TypeOK ==
  /\ active \in BOOLEAN /\ paused \in BOOLEAN /\ started \in BOOLEAN /\ crashed \in BOOLEAN
  /\ count \in Nat /\ next_heap_id \in Nat /\ others \in Nat /\ messages \in Nat
  /\ transport \in {"none", "file", "socket"}
  /\ socket \in {"zero", "invalid", "open", "closed"}
  /\ boot_file \in {"zero", "invalid", "open"}
  /\ lock \in Threads \cup {"free", "destroyed"}
  /\ write_offset \in 0 .. BufferSize /\ current_buffer \in {0, 1}
  /\ buffers \in [{0, 1} -> [1 .. BufferSize -> Pieces]]
  /\ wire \in Seq(Pieces)
  /\ pc \in [Threads -> Labels]
  /\ heap \in [Threads -> 0 .. next_heap_id]
  /\ call \in [Threads -> AllCalls \cup {"none"}]
  /\ part \in [Threads -> {"begin", "end", "flush"}]
  /\ slot \in [Threads -> [buffer : {0, 1}, at : 0 .. (BufferSize - 1)]]
  /\ peer \in {"up", "stalled", "closed", "reset"}

\* Pieces that are whole events, numbered from 0 without a gap, each by one
\* thread; the last event may be unfinished.
Whole(pieces) ==
  \A i \in 1 .. Len(pieces) :
    /\ pieces[i].n = (i - 1) \div 2
    /\ IF i % 2 = 1
       THEN pieces[i].part = "begin"
       ELSE pieces[i] = [pieces[i - 1] EXCEPT !.part = "end"]

\* Whatever the threads do, and wherever a send fails, what leaves the program
\* is a beginning of a well-formed stream: events neither torn nor mixed nor
\* repeated, with the numbers the decoder insists on.
StreamIntact == Whole(wire)

\* A piece that begins the event of a new heap.
Creates(piece) == piece.kind = "event" /\ piece.part = "begin"

Created(pieces) == {i \in DOMAIN pieces : Creates(pieces[i])}

\* However threads race to create heaps, the ids on the wire are 0, 1, 2, ... in
\* that order: the tool drops a second heap with an id it has already.
InOrder(pieces) ==
  \A i \in Created(pieces) :
    pieces[i].heap = Cardinality({j \in Created(pieces) : j < i})

HeapIdsInOrder == InOrder(wire)

InEvent(th) ==
  part[th] = "end" /\ pc[th] \in {"reserve", "send", "flip", "receive", "pause", "commit"}

\* All pieces emitted: what was sent and what waits in the buffer that is sent
\* next.  Between a send and its flip the buffer is not emptied yet.
Waiting == IF \E th \in Threads : pc[th] = "flip" THEN <<>> ELSE Pending

Emitted == wire \o Waiting

\* As long as the output is good, every piece emitted is sent or in the buffer
\* that is sent next, once.
NothingLost ==
  transport = "file" \/ socket \in {"open", "closed"} =>
    /\ Whole(Emitted)
    /\ Len(Emitted) = 2 * count + Cardinality({th \in Threads : InEvent(th)})

\* When Shutdown has closed a good connection, the tool has been sent all events up
\* to EndStream and nothing behind it: what it takes for a correct end.  A thread
\* that waited for the lock may still write its event, one and no more, into a
\* buffer that is never sent.
EndStreamIsLast ==
  socket = "closed" =>
    /\ wire # <<>> /\ Last(wire).kind = "shutdown" /\ Last(wire).part = "end"
    /\ \A i \in 1 .. write_offset :
         /\ Pending[i].by # main
         /\ \A j \in 1 .. (i - 1) :
              Pending[j].by = Pending[i].by => Pending[j].part # Pending[i].part

\* Who returns with the lock (a refused upgrade does) has shut the trace down:
\* only threads that wait already are stuck, and no call meets the lock later.
OwnerIsInside == lock \in Threads => pc[lock] # "idle" \/ (lock = main /\ ~active)

\* A loop that goes round until the other end, or nobody, does something: send and
\* recv on a connection that is lost, stalled or closed, and the pause.
Loops(th) ==
  \/ /\ transport = "socket" /\ socket # "invalid"
     /\ \/ pc[th] \in {"send", "sync"} /\ ~Accepts
        \/ pc[th] \in {"receive", "pause"} /\ (socket = "closed" \/ peer = "reset")
  \/ pc[th] = "pause" /\ paused

\* Or it waits for one that loops, or for main which left with the lock.
Stuck(th) ==
  \/ Loops(th)
  \/ /\ pc[th] = "enter" /\ lock \in Threads
     /\ Loops(lock) \/ (pc[lock] = "idle" /\ ~active)

\* Undefined behaviour that is known: the null listen function of a file, and the
\* lock after Shutdown.
KnownCrash == crashed /\ (transport = "file" \/ lock = "destroyed")

\* Every call of the traced program returns, whatever the other end does, unless
\* from some time on it is stuck in one of these loops for ever.
CallsReturn ==
  \A th \in Threads :
    []<>~Stuck(th) => (pc[th] # "idle" ~> pc[th] = "idle" \/ KnownCrash)

=============================================================================
