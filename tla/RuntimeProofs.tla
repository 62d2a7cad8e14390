---------------------------- MODULE RuntimeProofs ----------------------------
(***************************************************************************)
(* Proofs about Runtime.tla for every number of threads, every size of the *)
(* buffers and every behaviour of the other end, of programs that do not   *)
(* shrink cores (Spec).                                                    *)
(*                                                                         *)
(* The argument has three layers.  Control says where the threads are: at  *)
(* most one is behind the lock, and what a label says of the buffer in     *)
(* use.  Stream says what was emitted so far, and needs Control because    *)
(* only one thread at a time adds to it.  Closing says what is left to     *)
(* happen when Shutdown has closed the socket, and needs both.             *)
(***************************************************************************)
EXTENDS Runtime, SequenceTheorems, FiniteSetTheorems, TLAPS

USE RuntimeAssumption

-----------------------------------------------------------------------------
(***************************************************************************)
(* Control.                                                                *)
(***************************************************************************)
\* The types, by who looks at them.
ThreadTypes ==
  /\ pc \in [Threads -> Labels]
  /\ call \in [Threads -> AllCalls \cup {"none"}]
  /\ part \in [Threads -> {"begin", "end", "flush"}]
  /\ slot \in [Threads -> [buffer : {0, 1}, at : 0 .. (BufferSize - 1)]]

BufferTypes ==
  /\ buffers \in [{0, 1} -> [1 .. BufferSize -> Pieces]]
  /\ write_offset \in 0 .. BufferSize /\ current_buffer \in {0, 1}
  /\ wire \in Seq(Pieces)

CounterTypes ==
  /\ count \in Nat /\ next_heap_id \in Nat /\ others \in Nat /\ messages \in Nat
  /\ heap \in [Threads -> 0 .. next_heap_id]

FlagTypes ==
  /\ active \in BOOLEAN /\ paused \in BOOLEAN /\ started \in BOOLEAN /\ crashed \in BOOLEAN

OutputTypes ==
  /\ transport \in {"none", "file", "socket"}
  /\ socket \in {"zero", "invalid", "open", "closed"}
  /\ boot_file \in {"zero", "invalid", "open"}
  /\ lock \in Threads \cup {"free", "destroyed"}
  /\ peer \in {"up", "stalled", "closed", "reset"}

LEMMA TypesSplit ==
  TypeOK <=> ThreadTypes /\ BufferTypes /\ CounterTypes /\ FlagTypes /\ OutputTypes
BY DEF TypeOK, ThreadTypes, BufferTypes, CounterTypes, FlagTypes, OutputTypes

Inner == Labels \ {"idle", "enter", "destroy"}

\* Who is behind the lock has it, or had it when Shutdown destroyed it; so at most
\* one thread is behind it.
Exclusive ==
  /\ \A th \in Threads : pc[th] \in Inner => lock \in {th, "destroyed"}
  /\ \A th, other \in Threads : pc[th] \in Inner /\ pc[other] \in Inner => th = other

\* Nobody but main initialises and shuts down.
MainDoes == \A th \in Threads \ {main} : call[th] \in {"none", "event", "flush"}

\* Before the first initialisation is over only main is inside, nothing was
\* sent, and its two pieces fit in the empty buffer.
Starting ==
  ~started =>
    /\ \A th \in Threads \ {main} : pc[th] = "idle"
    /\ pc[main] \in {"idle", "enter", "reserve", "commit", "leave"}
    /\ pc[main] # "idle" => call[main] \in {"init file", "init socket"}
    /\ pc[main] # "idle" /\ call[main] = "init socket" => transport = "socket"
    /\ pc[main] = "idle" => ~active
    /\ pc[main] \in {"idle", "enter"} => count = 0 /\ next_heap_id = 0 /\ write_offset = 0
    /\ pc[main] \in {"reserve", "commit"} =>
         write_offset = IF part[main] = "begin" THEN 0 ELSE 1
    /\ wire = <<>> /\ socket \in {"zero", "invalid"}

\* What a label says of the call.
Places ==
  \A th \in Threads :
    /\ pc[th] # "idle" => call[th] \in {"event", "flush", "shutdown", "init file", "init socket"}
    /\ pc[th] = "enter" => part[th] = "begin"
    /\ pc[th] \in {"reserve", "commit"} => part[th] \in {"begin", "end"}
    /\ pc[th] = "connect" => started /\ part[th] = "begin" /\ call[th] = "init socket"
    /\ pc[th] \in {"down", "destroy"} => call[th] = "shutdown"
    /\ pc[th] = "sync" => part[th] = "flush"

\* What a label says of the buffer in use: a place once reserved is the next one
\* when it is written.
Offsets ==
  \A th \in Threads :
    /\ pc[th] \in {"receive", "pause", "sync"} => write_offset = 0
    /\ pc[th] = "leave" /\ part[th] = "flush" => write_offset = 0
    /\ pc[th] = "commit" => /\ write_offset < BufferSize
                            /\ slot[th].buffer = current_buffer /\ slot[th].at = write_offset

Control ==
  /\ ThreadTypes /\ BufferTypes /\ CounterTypes /\ FlagTypes /\ OutputTypes
  /\ Exclusive /\ MainDoes /\ Starting /\ Places /\ Offsets

LEMMA FrontIs ==
  ASSUME NEW b \in [1 .. BufferSize -> Pieces], NEW n \in 0 .. BufferSize
  PROVE  /\ SubSeq(b, 1, n) \in Seq(Pieces) /\ Len(SubSeq(b, 1, n)) = n
         /\ \A i \in 1 .. n : SubSeq(b, 1, n)[i] = b[i]
<1>1. b \in Seq(Pieces) /\ Len(b) = BufferSize
  OBVIOUS
<1> QED
  BY <1>1, SubSeqProperties

LEMMA PendingIs ==
  ASSUME BufferTypes
  PROVE  /\ Pending \in Seq(Pieces) /\ Len(Pending) = write_offset
         /\ \A i \in 1 .. write_offset : Pending[i] = buffers[current_buffer][i]
<1>1. buffers[current_buffer] \in [1 .. BufferSize -> Pieces] /\ write_offset \in 0 .. BufferSize
  BY DEF BufferTypes
<1> QED
  BY <1>1, FrontIs DEF Pending

\* What Listen does: the thread stays, or goes on to where the call was.
LEMMA ListenMoves ==
  ASSUME NEW th \in Threads, Listen(th)
  PROVE  /\ pc[th] \in {"receive", "pause"}
         /\ \/ pc' = pc /\ slot' = slot
            \/ pc' = [pc EXCEPT ![th] = "pause"] /\ slot' = slot
            \/ pc' = [pc EXCEPT ![th] = "sync"] /\ slot' = slot /\ part[th] = "flush"
            \/ /\ pc' = [pc EXCEPT ![th] = "commit"] /\ part[th] # "flush"
               /\ slot' = [slot EXCEPT ![th] = [buffer |-> current_buffer, at |-> write_offset]]
         /\ UNCHANGED <<active, count, outputs, lock, encoder, call, part, wire, peer,
                        messages, bounds, ids, crashed>>
<1>1. \A message : Handle(th, message) =>
        \/ pc' = pc /\ slot' = slot
        \/ Goto(th, "pause") /\ slot' = slot
        \/ Transmitted(th)
  BY DEF Handle
<1>2. \E message : Handle(th, message)
  BY DEF Listen
<1>3. Transmitted(th) =>
        \/ pc' = [pc EXCEPT ![th] = "sync"] /\ slot' = slot /\ part[th] = "flush"
        \/ /\ pc' = [pc EXCEPT ![th] = "commit"] /\ part[th] # "flush"
           /\ slot' = [slot EXCEPT ![th] = [buffer |-> current_buffer, at |-> write_offset]]
  BY DEF Transmitted, Goto
<1>4. pc[th] \in {"receive", "pause"}
  BY DEF Listen, At
<1>5. UNCHANGED <<active, count, outputs, lock, encoder, call, part, wire, peer,
                  messages, bounds, ids, crashed>>
  BY DEF Listen
<1> QED
  BY <1>1, <1>2, <1>3, <1>4, <1>5 DEF Goto

\* Initially.
LEMMA ControlInit == Init => Control
<1> SUFFICES ASSUME Init
             PROVE  Control
  OBVIOUS
<1> USE DEF Init
<1>1. ThreadTypes
  <2>1. pc \in [Threads -> Labels]
    BY DEF Labels
  <2>2. call \in [Threads -> AllCalls \cup {"none"}]
    OBVIOUS
  <2>3. part \in [Threads -> {"begin", "end", "flush"}]
    OBVIOUS
  <2>4. slot \in [Threads -> [buffer : {0, 1}, at : 0 .. (BufferSize - 1)]]
    BY DEF NoSlot
  <2> QED
    BY <2>1, <2>2, <2>3, <2>4 DEF ThreadTypes
<1>2. BufferTypes
  <2>1. buffers \in [{0, 1} -> [1 .. BufferSize -> Pieces]]
    BY DEF Pieces, NoPiece, AllCalls
  <2>2. write_offset \in 0 .. BufferSize /\ current_buffer \in {0, 1}
    OBVIOUS
  <2>3. wire \in Seq(Pieces)
    OBVIOUS
  <2> QED
    BY <2>1, <2>2, <2>3 DEF BufferTypes
<1>3. CounterTypes /\ FlagTypes /\ OutputTypes
  <2>1. CounterTypes
    BY DEF CounterTypes
  <2>2. FlagTypes
    BY DEF FlagTypes
  <2>3. OutputTypes
    BY DEF OutputTypes
  <2> QED
    BY <2>1, <2>2, <2>3
<1>4. Exclusive /\ MainDoes /\ Places /\ Offsets
  BY DEF Exclusive, MainDoes, Places, Offsets, Inner
<1>5. Starting
  BY DEF Starting
<1> QED
  BY <1>1, <1>2, <1>3, <1>4, <1>5 DEF Control

\* A thread that stays, or goes out, keeps Exclusive.
LEMMA StaysExclusive ==
  ASSUME Exclusive, NEW th \in Threads, lock' = lock, pc' \in [Threads -> Labels],
         \A other \in Threads \ {th} : pc'[other] = pc[other],
         pc'[th] \in Inner => pc[th] \in Inner
  PROVE  Exclusive'
<1>1. \A other \in Threads : pc'[other] \in Inner => pc[other] \in Inner
  OBVIOUS
<1> QED
  BY <1>1 DEF Exclusive

LEMMA ControlNext == Control /\ [Next]_vars => Control'
<1> SUFFICES ASSUME Control, [Next]_vars
             PROVE  Control'
  OBVIOUS
<1> USE DEF Control, state, outputs, encoder, threads, ids, outside, bounds
<1>1. ASSUME InitFile
      PROVE  Control'
  <2>1. ThreadTypes'
    BY <1>1 DEF InitFile, InitCommon, Begin, At, Goto, ThreadTypes, Labels, AllCalls, BufferTypes
  <2>2. BufferTypes'
    <3>1. write_offset' = 0
      BY <1>1 DEF InitFile, InitCommon
    <3>2. write_offset' \in 0 .. BufferSize
      BY <3>1
    <3>3. UNCHANGED <<buffers, current_buffer, wire>>
      BY <1>1 DEF InitFile, InitCommon, Begin, At, Goto
    <3> QED
      BY <3>2, <3>3 DEF BufferTypes
  <2>3. CounterTypes'
    BY <1>1 DEF InitFile, InitCommon, Begin, At, Goto, CounterTypes
  <2>4. FlagTypes'
    BY <1>1 DEF InitFile, InitCommon, Begin, At, Goto, FlagTypes
  <2>5. OutputTypes'
    BY <1>1 DEF InitFile, InitCommon, Begin, At, Goto, OutputTypes
  <2>6. Exclusive'
    BY <1>1 DEF InitFile, InitCommon, Begin, At, Goto, ThreadTypes, Exclusive, Starting, Inner, Labels
  <2>7. MainDoes'
    BY <1>1 DEF InitFile, InitCommon, Begin, At, Goto, ThreadTypes, MainDoes
  <2>8. Starting'
    BY <1>1 DEF InitFile, InitCommon, Begin, At, Goto, ThreadTypes, Starting
  <2>9. Places'
    BY <1>1 DEF InitFile, InitCommon, Begin, At, Goto, ThreadTypes, Places
  <2>10. Offsets'
    BY <1>1 DEF InitFile, InitCommon, Begin, At, Goto, ThreadTypes, Offsets, Starting
  <2> QED
    BY <2>1, <2>2, <2>3, <2>4, <2>5, <2>6, <2>7, <2>8, <2>9, <2>10
<1>2. ASSUME InitSocket
      PROVE  Control'
  <2>1. ThreadTypes'
    BY <1>2 DEF InitSocket, InitCommon, Begin, At, Goto, ThreadTypes, Labels, AllCalls, BufferTypes
  <2>2. BufferTypes'
    <3>1. write_offset' = 0
      BY <1>2 DEF InitSocket, InitCommon
    <3>2. write_offset' \in 0 .. BufferSize
      BY <3>1
    <3>3. UNCHANGED <<buffers, current_buffer, wire>>
      BY <1>2 DEF InitSocket, InitCommon, Begin, At, Goto
    <3> QED
      BY <3>2, <3>3 DEF BufferTypes
  <2>3. CounterTypes'
    BY <1>2 DEF InitSocket, InitCommon, Begin, At, Goto, CounterTypes
  <2>4. FlagTypes'
    BY <1>2 DEF InitSocket, InitCommon, Begin, At, Goto, FlagTypes
  <2>5. OutputTypes'
    BY <1>2 DEF InitSocket, InitCommon, Begin, At, Goto, OutputTypes
  <2>6. Exclusive'
    BY <1>2 DEF InitSocket, InitCommon, Begin, At, Goto, ThreadTypes, Exclusive, Starting, Inner, Labels
  <2>7. MainDoes'
    BY <1>2 DEF InitSocket, InitCommon, Begin, At, Goto, ThreadTypes, MainDoes
  <2>8. Starting'
    BY <1>2 DEF InitSocket, InitCommon, Begin, At, Goto, ThreadTypes, Starting
  <2>9. Places'
    BY <1>2 DEF InitSocket, InitCommon, Begin, At, Goto, ThreadTypes, Places
  <2>10. Offsets'
    BY <1>2 DEF InitSocket, InitCommon, Begin, At, Goto, ThreadTypes, Offsets, Starting
  <2> QED
    BY <2>1, <2>2, <2>3, <2>4, <2>5, <2>6, <2>7, <2>8, <2>9, <2>10
<1>3. ASSUME InitSocketFails
      PROVE  Control'
  <2>1. ThreadTypes'
    BY <1>3 DEF InitSocketFails, ErrorShutdown, At, ThreadTypes, Labels, AllCalls, BufferTypes
  <2>2. BufferTypes'
    BY <1>3 DEF InitSocketFails, ErrorShutdown, At, BufferTypes, ThreadTypes, CounterTypes, Pieces
  <2>3. CounterTypes'
    BY <1>3 DEF InitSocketFails, ErrorShutdown, At, CounterTypes
  <2>4. FlagTypes'
    BY <1>3 DEF InitSocketFails, ErrorShutdown, At, FlagTypes
  <2>5. OutputTypes'
    BY <1>3 DEF InitSocketFails, ErrorShutdown, At, OutputTypes
  <2>6. Exclusive'
    BY <1>3 DEF InitSocketFails, ErrorShutdown, At, ThreadTypes, Exclusive, Inner, Labels
  <2>7. MainDoes'
    BY <1>3 DEF InitSocketFails, ErrorShutdown, At, ThreadTypes, MainDoes
  <2>8. Starting'
    BY <1>3 DEF InitSocketFails, ErrorShutdown, At, ThreadTypes, Starting
  <2>9. Places'
    BY <1>3 DEF InitSocketFails, ErrorShutdown, At, ThreadTypes, Places
  <2>10. Offsets'
    BY <1>3 DEF InitSocketFails, ErrorShutdown, At, ThreadTypes, Offsets, Exclusive, Inner, Labels
  <2> QED
    BY <2>1, <2>2, <2>3, <2>4, <2>5, <2>6, <2>7, <2>8, <2>9, <2>10
<1>4. ASSUME InitSocketAgain
      PROVE  Control'
  <2>1. ThreadTypes'
    BY <1>4 DEF InitSocketAgain, Begin, At, Goto, ThreadTypes, Labels, AllCalls, BufferTypes
  <2>2. BufferTypes'
    BY <1>4 DEF InitSocketAgain, Begin, At, Goto, BufferTypes, ThreadTypes, CounterTypes, Pieces
  <2>3. CounterTypes'
    <3>1. others' = others + 1
      BY <1>4 DEF InitSocketAgain
    <3>2. others' \in Nat
      BY <3>1 DEF CounterTypes
    <3>3. UNCHANGED <<count, next_heap_id, heap, messages>>
      BY <1>4 DEF InitSocketAgain, Begin, At, Goto
    <3> QED
      BY <3>2, <3>3 DEF CounterTypes
  <2>4. FlagTypes'
    BY <1>4 DEF InitSocketAgain, Begin, At, Goto, FlagTypes
  <2>5. OutputTypes'
    BY <1>4 DEF InitSocketAgain, Begin, At, Goto, OutputTypes
  <2>6. Exclusive'
    BY <1>4 DEF InitSocketAgain, Begin, At, Goto, ThreadTypes, Exclusive, Inner, Labels
  <2>7. MainDoes'
    BY <1>4 DEF InitSocketAgain, Begin, At, Goto, ThreadTypes, MainDoes
  <2>8. Starting'
    BY <1>4 DEF InitSocketAgain, Begin, At, Goto, ThreadTypes, Starting
  <2>9. Places'
    BY <1>4 DEF InitSocketAgain, Begin, At, Goto, ThreadTypes, Places
  <2>10. Offsets'
    BY <1>4 DEF InitSocketAgain, Begin, At, Goto, ThreadTypes, Offsets, Exclusive, Inner, Labels
  <2> QED
    BY <2>1, <2>2, <2>3, <2>4, <2>5, <2>6, <2>7, <2>8, <2>9, <2>10
<1>5. ASSUME Shutdown
      PROVE  Control'
  <2>1. ThreadTypes'
    BY <1>5 DEF Shutdown, Begin, At, Goto, ThreadTypes, Labels, AllCalls, BufferTypes
  <2>2. BufferTypes'
    BY <1>5 DEF Shutdown, Begin, At, Goto, BufferTypes, ThreadTypes, CounterTypes, Pieces
  <2>3. CounterTypes'
    BY <1>5 DEF Shutdown, Begin, At, Goto, CounterTypes
  <2>4. FlagTypes'
    BY <1>5 DEF Shutdown, Begin, At, Goto, FlagTypes
  <2>5. OutputTypes'
    BY <1>5 DEF Shutdown, Begin, At, Goto, OutputTypes
  <2>6. Exclusive'
    BY <1>5 DEF Shutdown, Begin, At, Goto, ThreadTypes, Exclusive, Inner, Labels
  <2>7. MainDoes'
    BY <1>5 DEF Shutdown, Begin, At, Goto, ThreadTypes, MainDoes
  <2>8. Starting'
    BY <1>5 DEF Shutdown, Begin, At, Goto, ThreadTypes, Starting
  <2>9. Places'
    BY <1>5 DEF Shutdown, Begin, At, Goto, ThreadTypes, Places
  <2>10. Offsets'
    BY <1>5 DEF Shutdown, Begin, At, Goto, ThreadTypes, Offsets, Exclusive, Inner, Labels
  <2> QED
    BY <2>1, <2>2, <2>3, <2>4, <2>5, <2>6, <2>7, <2>8, <2>9, <2>10
<1>6. ASSUME NEW th \in Threads, started, CallEvent(th)
      PROVE  Control'
  <2>1. ThreadTypes'
    BY <1>6 DEF CallEvent, Begin, At, Goto, ThreadTypes, Labels, AllCalls, BufferTypes
  <2>2. BufferTypes'
    BY <1>6 DEF CallEvent, Begin, At, Goto, BufferTypes, ThreadTypes, CounterTypes, Pieces
  <2>3. CounterTypes'
    BY <1>6 DEF CallEvent, Begin, At, Goto, CounterTypes
  <2>4. FlagTypes'
    BY <1>6 DEF CallEvent, Begin, At, Goto, FlagTypes
  <2>5. OutputTypes'
    BY <1>6 DEF CallEvent, Begin, At, Goto, OutputTypes
  <2>6. Exclusive'
    BY <1>6 DEF CallEvent, Begin, At, Goto, ThreadTypes, Exclusive, Inner, Labels
  <2>7. MainDoes'
    BY <1>6 DEF CallEvent, Begin, At, Goto, ThreadTypes, MainDoes
  <2>8. Starting'
    BY <1>6 DEF CallEvent, Begin, At, Goto, ThreadTypes, Starting
  <2>9. Places'
    BY <1>6 DEF CallEvent, Begin, At, Goto, ThreadTypes, Places
  <2>10. Offsets'
    BY <1>6 DEF CallEvent, Begin, At, Goto, ThreadTypes, Offsets, Exclusive, Inner, Labels
  <2> QED
    BY <2>1, <2>2, <2>3, <2>4, <2>5, <2>6, <2>7, <2>8, <2>9, <2>10
<1>7. ASSUME NEW th \in Threads, started, Flush(th)
      PROVE  Control'
  <2>1. ThreadTypes'
    BY <1>7 DEF Flush, Begin, At, Goto, ThreadTypes, Labels, AllCalls, BufferTypes
  <2>2. BufferTypes'
    BY <1>7 DEF Flush, Begin, At, Goto, BufferTypes, ThreadTypes, CounterTypes, Pieces
  <2>3. CounterTypes'
    <3>1. others' \in Nat
      BY <1>7 DEF Flush, Begin, At, Goto, CounterTypes
    <3>2. UNCHANGED <<count, next_heap_id, heap, messages>>
      BY <1>7 DEF Flush, Begin, At, Goto
    <3> QED
      BY <3>1, <3>2 DEF CounterTypes
  <2>4. FlagTypes'
    BY <1>7 DEF Flush, Begin, At, Goto, FlagTypes
  <2>5. OutputTypes'
    BY <1>7 DEF Flush, Begin, At, Goto, OutputTypes
  <2>6. Exclusive'
    BY <1>7 DEF Flush, Begin, At, Goto, ThreadTypes, Exclusive, Inner, Labels
  <2>7. MainDoes'
    BY <1>7 DEF Flush, Begin, At, Goto, ThreadTypes, MainDoes
  <2>8. Starting'
    BY <1>7 DEF Flush, Begin, At, Goto, ThreadTypes, Starting
  <2>9. Places'
    BY <1>7 DEF Flush, Begin, At, Goto, ThreadTypes, Places
  <2>10. Offsets'
    BY <1>7 DEF Flush, Begin, At, Goto, ThreadTypes, Offsets, Exclusive, Inner, Labels
  <2> QED
    BY <2>1, <2>2, <2>3, <2>4, <2>5, <2>6, <2>7, <2>8, <2>9, <2>10
<1>8. ASSUME NEW th \in Threads, Enter(th)
      PROVE  Control'
  <2>1. ThreadTypes'
    BY <1>8 DEF Enter, Inside, Crash, At, Goto, ThreadTypes, Labels, AllCalls, BufferTypes
  <2>2. BufferTypes'
    BY <1>8 DEF Enter, Inside, Crash, At, Goto, BufferTypes, ThreadTypes, CounterTypes, Pieces
  <2>3. CounterTypes'
    <3>1. \/ next_heap_id' = next_heap_id /\ heap' = heap
          \/ next_heap_id' = next_heap_id + 1 /\ heap' = [heap EXCEPT ![th] = next_heap_id]
      BY <1>8 DEF Enter, Inside, Crash
    <3>2. next_heap_id' \in Nat
      BY <3>1 DEF CounterTypes
    <3>3. heap' \in [Threads -> 0 .. next_heap_id']
      <4>1. next_heap_id \in 0 .. next_heap_id' /\ 0 .. next_heap_id \subseteq 0 .. next_heap_id'
        BY <3>1 DEF CounterTypes
      <4> QED
        BY <3>1, <4>1 DEF CounterTypes
    <3>4. UNCHANGED <<count, others, messages>>
      BY <1>8 DEF Enter, Inside, Crash
    <3> QED
      BY <3>2, <3>3, <3>4 DEF CounterTypes
  <2>4. FlagTypes'
    BY <1>8 DEF Enter, Inside, Crash, At, Goto, FlagTypes
  <2>5. OutputTypes'
    BY <1>8 DEF Enter, Inside, Crash, At, Goto, OutputTypes
  <2>6. Exclusive'
    <3>1. \/ pc' = pc /\ lock' = lock /\ call' = call /\ part' = part
          \/ /\ pc[th] = "enter" /\ lock \in {"free", th} /\ lock' = th
             /\ \E label \in {"send", "connect", "reserve"} : pc' = [pc EXCEPT ![th] = label]
      BY <1>8 DEF Enter, Inside, Crash, Goto, At

    <3>2. \A other \in Threads : pc[other] \in Inner => lock \in {other, "destroyed"}
      BY DEF Exclusive
    <3>3. lock \in {"free", th} => \A other \in Threads \ {th} : pc[other] \notin Inner
      BY <3>2
    <3>4. \A other \in Threads \ {th} : pc'[other] = pc[other]
      BY <3>1 DEF ThreadTypes
    <3> QED
      BY <3>1, <3>2, <3>3, <3>4 DEF Exclusive
  <2>7. MainDoes'
    BY <1>8 DEF Enter, Inside, Crash, At, Goto, ThreadTypes, MainDoes
  <2>8. Starting'
    <3>1. \/ pc' = pc /\ part' = part
          \/ /\ th = main /\ call[main] \in {"init file", "init socket"} /\ pc[main] = "enter"
             /\ pc' = [pc EXCEPT ![th] = "reserve"] /\ part' = part
          \/ started
      <4>1. \/ pc' = pc /\ part' = part
            \/ /\ pc[th] = "enter"
               /\ pc' = [pc EXCEPT ![th] = CASE call[th] = "flush" -> "send"
                [] call[th] = "init socket" /\ started -> "connect"
                [] OTHER -> "reserve"]
               /\ part' = [part EXCEPT ![th] = IF call[th] = "flush" THEN "flush" ELSE @]
        BY <1>8 DEF Enter, Inside, Crash, Goto, At
      <4>2. ~started /\ pc[th] = "enter" => th = main /\ call[main] \in {"init file", "init socket"}
        BY DEF Starting
      <4> QED
        BY <4>1, <4>2 DEF ThreadTypes
    <3>2. UNCHANGED <<started, call, count, write_offset, wire, socket, transport, active>>
      BY <1>8 DEF Enter, Inside, Crash
    <3>3. pc[main] = "enter" => part[main] = "begin"
      BY DEF Places
    <3>4. CASE started
      BY <3>2, <3>4 DEF Starting
    <3>5. CASE ~started /\ pc' = pc /\ part' = part
      <4>1. next_heap_id' = next_heap_id
        BY <1>8, <3>5 DEF Enter, Inside, Crash, Goto, At, Starting, ThreadTypes
      <4> QED
        BY <3>2, <3>5, <4>1 DEF Starting
    <3>6. CASE /\ ~started /\ th = main /\ pc[main] = "enter"
               /\ pc' = [pc EXCEPT ![th] = "reserve"] /\ part' = part
      <4>1. /\ \A other \in Threads \ {main} : pc'[other] = "idle"
            /\ pc'[main] = "reserve"
        BY <3>6 DEF Starting, ThreadTypes
      <4>2. write_offset = 0 /\ part[main] = "begin" /\ wire = <<>> /\ socket \in {"zero", "invalid"}
        BY <3>6, <3>3 DEF Starting
      <4>3. /\ call[main] \in {"init file", "init socket"}
            /\ call[main] = "init socket" => transport = "socket"
        BY <3>6 DEF Starting
      <4> QED
        BY <3>2, <3>6, <4>1, <4>2, <4>3 DEF Starting
    <3> QED
      BY <3>1, <3>4, <3>5, <3>6
  <2>9. Places'
    <3>1. \/ pc' = pc /\ part' = part
          \/ /\ pc[th] = "enter"
             /\ pc' = [pc EXCEPT ![th] = CASE call[th] = "flush" -> "send"
              [] call[th] = "init socket" /\ started -> "connect"
              [] OTHER -> "reserve"]
             /\ part' = [part EXCEPT ![th] = IF call[th] = "flush" THEN "flush" ELSE @]
      BY <1>8 DEF Enter, Inside, Crash, Goto, At
    <3>2. UNCHANGED <<started, call>>
      BY <1>8 DEF Enter, Inside, Crash
    <3> QED
      BY <3>1, <3>2 DEF Places, ThreadTypes
  <2>10. Offsets'
    BY <1>8 DEF Enter, Inside, Crash, At, Goto, ThreadTypes, Offsets, Exclusive, Inner, Labels
  <2> QED
    BY <2>1, <2>2, <2>3, <2>4, <2>5, <2>6, <2>7, <2>8, <2>9, <2>10
<1>9. ASSUME NEW th \in Threads, Connect(th)
      PROVE  Control'
  <2>1. ThreadTypes'
    BY <1>9 DEF Connect, At, Goto, ThreadTypes, Labels, AllCalls, BufferTypes
  <2>2. BufferTypes'
    BY <1>9 DEF Connect, At, Goto, BufferTypes, ThreadTypes, CounterTypes, Pieces
  <2>3. CounterTypes'
    BY <1>9 DEF Connect, At, Goto, CounterTypes
  <2>4. FlagTypes'
    BY <1>9 DEF Connect, At, Goto, FlagTypes
  <2>5. OutputTypes'
    BY <1>9 DEF Connect, At, Goto, OutputTypes
  <2>6. Exclusive'
    BY <1>9 DEF Connect, At, Goto, ThreadTypes, Exclusive, Inner, Labels
  <2>7. MainDoes'
    BY <1>9 DEF Connect, At, Goto, ThreadTypes, MainDoes
  <2>8. Starting'
    BY <1>9 DEF Connect, At, Goto, Starting, Places
  <2>9. Places'
    BY <1>9 DEF Connect, At, Goto, ThreadTypes, Places
  <2>10. Offsets'
    BY <1>9 DEF Connect, At, Goto, ThreadTypes, Offsets, Places
  <2> QED
    BY <2>1, <2>2, <2>3, <2>4, <2>5, <2>6, <2>7, <2>8, <2>9, <2>10
<1>10. ASSUME NEW th \in Threads, ConnectFails(th)
      PROVE  Control'
  <2>1. ThreadTypes'
    BY <1>10 DEF ConnectFails, ErrorShutdown, At, Goto, ThreadTypes, Labels, AllCalls, BufferTypes
  <2>2. BufferTypes'
    BY <1>10 DEF ConnectFails, ErrorShutdown, At, Goto, BufferTypes, ThreadTypes, CounterTypes, Pieces
  <2>3. CounterTypes'
    BY <1>10 DEF ConnectFails, ErrorShutdown, At, Goto, CounterTypes
  <2>4. FlagTypes'
    BY <1>10 DEF ConnectFails, ErrorShutdown, At, Goto, FlagTypes
  <2>5. OutputTypes'
    BY <1>10 DEF ConnectFails, ErrorShutdown, At, Goto, OutputTypes
  <2>6. Exclusive'
    <3>1. pc' = [pc EXCEPT ![th] = "idle"] /\ lock' = lock
      BY <1>10 DEF ConnectFails, Goto
    <3> QED
      BY <2>1, <3>1, StaysExclusive DEF ThreadTypes, Inner
  <2>7. MainDoes'
    BY <1>10 DEF ConnectFails, ErrorShutdown, At, Goto, ThreadTypes, MainDoes
  <2>8. Starting'
    BY <1>10 DEF ConnectFails, ErrorShutdown, At, Goto, ThreadTypes, Starting
  <2>9. Places'
    BY <1>10 DEF ConnectFails, ErrorShutdown, At, Goto, ThreadTypes, Places
  <2>10. Offsets'
    BY <1>10 DEF ConnectFails, ErrorShutdown, At, Goto, ThreadTypes, Offsets, Exclusive, Inner, Labels
  <2> QED
    BY <2>1, <2>2, <2>3, <2>4, <2>5, <2>6, <2>7, <2>8, <2>9, <2>10
<1>11. ASSUME NEW th \in Threads, Reserve(th)
      PROVE  Control'
  <2>1. ThreadTypes'
    <3>1. pc' \in [Threads -> Labels]
      BY <1>11 DEF Reserve, At, Goto, ThreadTypes, Labels
    <3>2. \/ slot' = slot
          \/ /\ slot' = [slot EXCEPT ![th] = [buffer |-> current_buffer, at |-> write_offset]]
             /\ ~(Reserved + write_offset > BufferSize)
      BY <1>11 DEF Reserve
    <3>3. ~(Reserved + write_offset > BufferSize) => write_offset \in 0 .. (BufferSize - 1)
      BY DEF BufferTypes
    <3>4. slot' \in [Threads -> [buffer : {0, 1}, at : 0 .. (BufferSize - 1)]]
      BY <3>2, <3>3 DEF ThreadTypes, BufferTypes
    <3>5. UNCHANGED <<call, part>>
      BY <1>11 DEF Reserve, At, Goto
    <3> QED
      BY <3>1, <3>4, <3>5 DEF ThreadTypes
  <2>2. BufferTypes'
    BY <1>11 DEF Reserve, At, Goto, BufferTypes, ThreadTypes, CounterTypes, Pieces
  <2>3. CounterTypes'
    BY <1>11 DEF Reserve, At, Goto, CounterTypes
  <2>4. FlagTypes'
    BY <1>11 DEF Reserve, At, Goto, FlagTypes
  <2>5. OutputTypes'
    BY <1>11 DEF Reserve, At, Goto, OutputTypes
  <2>6. Exclusive'
    BY <1>11 DEF Reserve, At, Goto, ThreadTypes, Exclusive, Inner, Labels
  <2>7. MainDoes'
    BY <1>11 DEF Reserve, At, Goto, ThreadTypes, MainDoes
  <2>8. Starting'
    <3>1. ~started => th = main /\ write_offset \in {0, 1}
      BY <1>11 DEF Reserve, At, Goto, Starting
    <3>2. ~started => pc'[main] = "commit"
      BY <1>11, <3>1 DEF Reserve, At, Goto, ThreadTypes
    <3> QED
      BY <1>11, <3>1, <3>2 DEF Reserve, At, Goto, Starting, ThreadTypes
  <2>9. Places'
    BY <1>11 DEF Reserve, At, Goto, ThreadTypes, Places
  <2>10. Offsets'
    BY <1>11 DEF Reserve, At, Goto, ThreadTypes, BufferTypes, Offsets
  <2> QED
    BY <2>1, <2>2, <2>3, <2>4, <2>5, <2>6, <2>7, <2>8, <2>9, <2>10
<1>12. ASSUME NEW th \in Threads, Commit(th)
      PROVE  Control'
  <2>1. ThreadTypes'
    BY <1>12 DEF Commit, Piece, At, Goto, ThreadTypes, Labels, AllCalls, BufferTypes
  <2>2. BufferTypes'
    <3>1. Piece(th) \in Pieces
      <4>1. pc[th] = "commit"
        BY <1>12 DEF Commit, At
      <4>2. part[th] \in {"begin", "end"}
        BY <4>1 DEF Places
      <4>3. call[th] \in AllCalls \cup {"none"}
        BY DEF ThreadTypes
      <4>4. count \in Nat /\ heap[th] \in Nat
        BY DEF CounterTypes
      <4> QED
        BY <4>2, <4>3, <4>4 DEF Piece, Pieces
    <3>2. slot[th].buffer \in {0, 1} /\ slot[th].at + 1 \in 1 .. BufferSize
      BY DEF ThreadTypes
    <3>3. buffers' \in [{0, 1} -> [1 .. BufferSize -> Pieces]]
      BY <1>12, <3>1, <3>2 DEF Commit, BufferTypes
    <3>4. write_offset' = write_offset + 1 /\ pc[th] = "commit"
      BY <1>12 DEF Commit, At
    <3>5. write_offset < BufferSize
      BY <3>4 DEF Offsets
    <3>6. write_offset' \in 0 .. BufferSize
      BY <3>4, <3>5 DEF BufferTypes
    <3>7. UNCHANGED <<wire, current_buffer>>
      BY <1>12 DEF Commit, Piece, At, Goto
    <3> QED
      BY <3>3, <3>6, <3>7 DEF BufferTypes
  <2>3. CounterTypes'
    <3>1. count' = count \/ count' = count + 1
      BY <1>12 DEF Commit
    <3>2. count' \in Nat
      BY <3>1 DEF CounterTypes
    <3>3. UNCHANGED <<next_heap_id, heap, others, messages>>
      BY <1>12 DEF Commit, Piece, At, Goto
    <3> QED
      BY <3>2, <3>3 DEF CounterTypes
  <2>4. FlagTypes'
    BY <1>12 DEF Commit, Piece, At, Goto, FlagTypes
  <2>5. OutputTypes'
    BY <1>12 DEF Commit, Piece, At, Goto, OutputTypes
  <2>6. Exclusive'
    <3>1. pc[th] \in Inner /\ lock' = lock
      BY <1>12 DEF Commit, At, Inner, Labels
    <3>2. \A other \in Threads \ {th} : pc'[other] = pc[other]
      BY <1>12 DEF Commit, Goto, ThreadTypes
    <3> QED
      BY <2>1, <3>1, <3>2, StaysExclusive DEF ThreadTypes
  <2>7. MainDoes'
    BY <1>12 DEF Commit, Piece, At, Goto, ThreadTypes, MainDoes
  <2>8. Starting'
    <3>1. /\ pc[th] = "commit" /\ write_offset' = write_offset + 1
          /\ UNCHANGED <<started, call, next_heap_id, wire, socket, transport>>
      BY <1>12 DEF Commit, At
    <3>2. \/ part[th] = "begin" /\ part' = [part EXCEPT ![th] = "end"] /\ pc' = [pc EXCEPT ![th] = "reserve"]
          \/ /\ part[th] # "begin"
             /\ pc' = [pc EXCEPT ![th] = CASE call[th] = "shutdown" -> "down"
                            [] call[th] = "shrink core" -> "idle"
                            [] OTHER -> "leave"]
      BY <1>12 DEF Commit, Goto
    <3>3. SUFFICES ASSUME ~started
                   PROVE  Starting'
      BY <3>1 DEF Starting
    <3>4. th = main /\ call[main] \in {"init file", "init socket"}
      BY <3>1, <3>3 DEF Starting
    <3>5. \/ /\ part[main] = "begin" /\ part'[main] = "end" /\ pc'[main] = "reserve"
          \/ pc'[main] = "leave"
      BY <3>2, <3>4 DEF ThreadTypes
    <3>6. \A other \in Threads \ {main} : pc'[other] = "idle"
      BY <3>2, <3>3, <3>4 DEF Starting, ThreadTypes
    <3>7. part[main] = "begin" => write_offset = 0
      BY <3>1, <3>3, <3>4 DEF Starting
    <3>8. wire = <<>> /\ socket \in {"zero", "invalid"}
      BY <3>3 DEF Starting
    <3> QED
      <4>1. pc'[main] \in {"reserve", "commit"} => write_offset' = IF part'[main] = "begin" THEN 0 ELSE 1
        BY <3>1, <3>5, <3>7
      <4>2. /\ ~started'
            /\ pc'[main] \in {"reserve", "leave"} /\ call'[main] \in {"init file", "init socket"}
            /\ wire' = <<>> /\ socket' \in {"zero", "invalid"}
        BY <3>1, <3>3, <3>4, <3>5, <3>8
      <4>3. call'[main] = "init socket" => transport' = "socket"
        BY <3>1, <3>3, <3>4 DEF Starting
      <4> QED
        BY <3>6, <4>1, <4>2, <4>3 DEF Starting
  <2>9. Places'
    BY <1>12 DEF Commit, Piece, At, Goto, ThreadTypes, Places
  <2>10. Offsets'
    <3>1. pc[th] \in Inner
      BY <1>12 DEF Inner, Labels, Commit, At
    <3>2. \A other \in Threads \ {th} : pc[other] \notin Inner
      BY <3>1 DEF Exclusive
    <3>3. \A other \in Threads \ {th} : pc'[other] = pc[other]
      BY <1>12 DEF Commit, Piece, At, Goto, ThreadTypes
    <3>4. \A other \in Threads \ {th} : pc'[other] \notin {"receive", "pause", "sync", "leave", "commit"}
      BY <3>2, <3>3 DEF Inner, Labels

    <3>5. pc'[th] \in {"reserve", "down", "idle"} \/ (pc'[th] = "leave" /\ part'[th] # "flush")
      <4>1. part[th] # "flush"
        BY <1>12 DEF Commit, At, Places
      <4> QED
        BY <1>12, <4>1 DEF Commit, Goto, ThreadTypes
    <3> QED
      BY <3>4, <3>5 DEF Offsets
  <2> QED
    BY <2>1, <2>2, <2>3, <2>4, <2>5, <2>6, <2>7, <2>8, <2>9, <2>10
<1>13. ASSUME NEW th \in Threads, Down(th)
      PROVE  Control'
  <2>1. ThreadTypes'
    BY <1>13 DEF Down, At, Goto, ThreadTypes, Labels, AllCalls, BufferTypes
  <2>2. BufferTypes'
    BY <1>13 DEF Down, At, Goto, BufferTypes, ThreadTypes, CounterTypes, Pieces
  <2>3. CounterTypes'
    BY <1>13 DEF Down, At, Goto, CounterTypes
  <2>4. FlagTypes'
    BY <1>13 DEF Down, At, Goto, FlagTypes
  <2>5. OutputTypes'
    BY <1>13 DEF Down, At, Goto, OutputTypes
  <2>6. Exclusive'
    BY <1>13 DEF Down, At, Goto, ThreadTypes, Exclusive, Inner, Labels
  <2>7. MainDoes'
    BY <1>13 DEF Down, At, Goto, ThreadTypes, MainDoes
  <2>8. Starting'
    BY <1>13 DEF Down, At, Goto, ThreadTypes, Starting
  <2>9. Places'
    BY <1>13 DEF Down, At, Goto, ThreadTypes, Places
  <2>10. Offsets'
    BY <1>13 DEF Down, At, Goto, ThreadTypes, Offsets, Exclusive, Inner, Labels
  <2> QED
    BY <2>1, <2>2, <2>3, <2>4, <2>5, <2>6, <2>7, <2>8, <2>9, <2>10
<1>14. ASSUME NEW th \in Threads, Send(th)
      PROVE  Control'
  <2>1. ThreadTypes'
    BY <1>14 DEF Send, Taken, Pending, At, Goto, ThreadTypes, Labels, AllCalls, BufferTypes
  <2>2. BufferTypes'
    <3>1. wire' = wire \/ wire' = wire \o Pending
      BY <1>14 DEF Send, Taken
    <3>2. wire' \in Seq(Pieces)
      <4>1. wire \in Seq(Pieces) /\ Pending \in Seq(Pieces)
        BY PendingIs DEF BufferTypes
      <4>2. wire \o Pending \in Seq(Pieces)
        BY <4>1, ConcatProperties
      <4> QED
        BY <3>1, <4>1, <4>2
    <3>3. UNCHANGED <<buffers, current_buffer, write_offset>>
      BY <1>14 DEF Send
    <3> QED
      BY <3>2, <3>3 DEF BufferTypes
  <2>3. CounterTypes'
    BY <1>14 DEF Send, Taken, Pending, At, Goto, CounterTypes
  <2>4. FlagTypes'
    BY <1>14 DEF Send, Taken, Pending, At, Goto, FlagTypes
  <2>5. OutputTypes'
    BY <1>14 DEF Send, Taken, Pending, At, Goto, OutputTypes
  <2>6. Exclusive'
    BY <1>14 DEF Send, Taken, Pending, At, Goto, ThreadTypes, Exclusive, Inner, Labels
  <2>7. MainDoes'
    BY <1>14 DEF Send, Taken, Pending, At, Goto, ThreadTypes, MainDoes
  <2>8. Starting'
    BY <1>14 DEF Send, Taken, Accepts, At, Goto, ThreadTypes, Starting
  <2>9. Places'
    BY <1>14 DEF Send, Taken, Pending, At, Goto, ThreadTypes, Places
  <2>10. Offsets'
    BY <1>14 DEF Send, Taken, Pending, At, Goto, ThreadTypes, Offsets, Exclusive, Inner, Labels
  <2> QED
    BY <2>1, <2>2, <2>3, <2>4, <2>5, <2>6, <2>7, <2>8, <2>9, <2>10
<1>15. ASSUME NEW th \in Threads, SendPartially(th)
      PROVE  Control'
  <2>1. ThreadTypes'
    BY <1>15 DEF SendPartially, ErrorShutdown, Pending, At, Goto, ThreadTypes, Labels, AllCalls, BufferTypes
  <2>2. BufferTypes'
    <3>1. \A n \in 0 .. (write_offset - 1) : SubSeq(Pending, 1, n) \in Seq(Pieces)
      BY PendingIs, SubSeqProperties DEF BufferTypes
    <3>2. \E n \in 0 .. (write_offset - 1) : wire' = wire \o SubSeq(Pending, 1, n)
      BY <1>15 DEF SendPartially
    <3>3. wire' \in Seq(Pieces)
      <4>1. wire \in Seq(Pieces)
        BY DEF BufferTypes
      <4> QED
        BY <3>1, <3>2, <4>1, ConcatProperties
    <3>4. UNCHANGED <<buffers, current_buffer, write_offset>>
      BY <1>15 DEF SendPartially
    <3> QED
      BY <3>3, <3>4 DEF BufferTypes
  <2>3. CounterTypes'
    BY <1>15 DEF SendPartially, ErrorShutdown, Pending, At, Goto, CounterTypes
  <2>4. FlagTypes'
    BY <1>15 DEF SendPartially, ErrorShutdown, Pending, At, Goto, FlagTypes
  <2>5. OutputTypes'
    BY <1>15 DEF SendPartially, ErrorShutdown, Pending, At, Goto, OutputTypes
  <2>6. Exclusive'
    BY <1>15 DEF SendPartially, ErrorShutdown, Pending, At, Goto, ThreadTypes, Exclusive, Inner, Labels
  <2>7. MainDoes'
    BY <1>15 DEF SendPartially, ErrorShutdown, Pending, At, Goto, ThreadTypes, MainDoes
  <2>8. Starting'
    BY <1>15 DEF SendPartially, ErrorShutdown, Accepts, At, Goto, ThreadTypes, Starting
  <2>9. Places'
    BY <1>15 DEF SendPartially, ErrorShutdown, Pending, At, Goto, ThreadTypes, Places
  <2>10. Offsets'
    BY <1>15 DEF SendPartially, ErrorShutdown, Pending, At, Goto, ThreadTypes, Offsets, Exclusive, Inner, Labels
  <2> QED
    BY <2>1, <2>2, <2>3, <2>4, <2>5, <2>6, <2>7, <2>8, <2>9, <2>10
<1>16. ASSUME NEW th \in Threads, Flip(th)
      PROVE  Control'
  <2>1. ThreadTypes'
    BY <1>16 DEF Flip, At, Goto, ThreadTypes, Labels, AllCalls, BufferTypes
  <2>2. BufferTypes'
    <3>1. write_offset' \in 0 .. BufferSize /\ current_buffer' \in {0, 1}
      BY <1>16 DEF Flip, At, Goto, BufferTypes
    <3>2. UNCHANGED <<buffers, wire>>
      BY <1>16 DEF Flip, At, Goto
    <3> QED
      BY <3>1, <3>2 DEF BufferTypes
  <2>3. CounterTypes'
    BY <1>16 DEF Flip, At, Goto, CounterTypes
  <2>4. FlagTypes'
    BY <1>16 DEF Flip, At, Goto, FlagTypes
  <2>5. OutputTypes'
    BY <1>16 DEF Flip, At, Goto, OutputTypes
  <2>6. Exclusive'
    BY <1>16 DEF Flip, At, Goto, ThreadTypes, Exclusive, Inner, Labels
  <2>7. MainDoes'
    BY <1>16 DEF Flip, At, Goto, ThreadTypes, MainDoes
  <2>8. Starting'
    BY <1>16 DEF Flip, At, Goto, ThreadTypes, Starting
  <2>9. Places'
    BY <1>16 DEF Flip, At, Goto, ThreadTypes, Places
  <2>10. Offsets'
    BY <1>16 DEF Flip, At, Goto, ThreadTypes, Offsets, Exclusive, Inner, Labels
  <2> QED
    BY <2>1, <2>2, <2>3, <2>4, <2>5, <2>6, <2>7, <2>8, <2>9, <2>10
<1>17. ASSUME NEW th \in Threads, Listen(th)
      PROVE  Control'
  <2>1. ThreadTypes'
    <3>1. write_offset = 0
      BY <1>17, ListenMoves DEF Offsets
    <3>2. pc' \in [Threads -> Labels]
      BY <1>17, ListenMoves DEF ThreadTypes, Labels
    <3>3. \/ slot' = slot
          \/ slot' = [slot EXCEPT ![th] = [buffer |-> current_buffer, at |-> write_offset]]
      BY <1>17, ListenMoves
    <3>4. [buffer |-> current_buffer, at |-> write_offset] \in [buffer : {0, 1}, at : 0 .. (BufferSize - 1)]
      BY <3>1 DEF BufferTypes
    <3>5. slot' \in [Threads -> [buffer : {0, 1}, at : 0 .. (BufferSize - 1)]]
      BY <3>3, <3>4 DEF ThreadTypes
    <3>6. UNCHANGED <<call, part>>
      BY <1>17, ListenMoves
    <3> QED
      BY <3>2, <3>5, <3>6 DEF ThreadTypes
  <2>2. BufferTypes'
    BY <1>17, ListenMoves DEF BufferTypes, ThreadTypes, CounterTypes, Pieces
  <2>3. CounterTypes'
    BY <1>17, ListenMoves DEF CounterTypes
  <2>4. FlagTypes'
    BY <1>17 DEF Listen, Handle, Transmitted, At, Goto, FlagTypes
  <2>5. OutputTypes'
    BY <1>17, ListenMoves DEF OutputTypes
  <2>6. Exclusive'
    BY <1>17, ListenMoves DEF ThreadTypes, Exclusive, Inner, Labels
  <2>7. MainDoes'
    BY <1>17, ListenMoves DEF ThreadTypes, MainDoes
  <2>8. Starting'
    BY <1>17, ListenMoves DEF Starting, ThreadTypes
  <2>9. Places'
    <3>1. pc[th] \in {"receive", "pause"} /\ UNCHANGED <<call, part, started>>
      BY <1>17, ListenMoves DEF bounds
    <3>2. \/ pc' = pc
          \/ pc' = [pc EXCEPT ![th] = "pause"]
          \/ pc' = [pc EXCEPT ![th] = "sync"] /\ part[th] = "flush"
          \/ pc' = [pc EXCEPT ![th] = "commit"] /\ part[th] # "flush"
      BY <1>17, ListenMoves
    <3>3. part[th] \in {"begin", "end", "flush"}
      BY DEF ThreadTypes
    <3> QED
      BY <3>1, <3>2, <3>3 DEF Places, ThreadTypes
  <2>10. Offsets'
    <3>1. /\ pc[th] \in {"receive", "pause"} /\ UNCHANGED <<write_offset, current_buffer, part>>
      BY <1>17, ListenMoves
    <3>2. write_offset = 0 /\ 0 < BufferSize
      BY <3>1 DEF Offsets
    <3>3. \/ pc' = pc /\ slot' = slot
          \/ \E label \in {"pause", "sync"} : pc' = [pc EXCEPT ![th] = label] /\ slot' = slot
          \/ /\ pc' = [pc EXCEPT ![th] = "commit"]
             /\ slot' = [slot EXCEPT ![th] = [buffer |-> current_buffer, at |-> write_offset]]
      BY <1>17, ListenMoves
    <3>4. \A other \in Threads \ {th} : pc'[other] = pc[other] /\ slot'[other] = slot[other]
      BY <3>3 DEF ThreadTypes
    <3>5. pc'[th] = "commit" => slot'[th].buffer = current_buffer /\ slot'[th].at = write_offset
      BY <3>1, <3>3 DEF ThreadTypes
    <3> QED
      BY <3>1, <3>2, <3>4, <3>5 DEF Offsets
  <2> QED
    BY <2>1, <2>2, <2>3, <2>4, <2>5, <2>6, <2>7, <2>8, <2>9, <2>10
<1>18. ASSUME NEW th \in Threads, NullFunction(th)
      PROVE  Control'
  <2>1. ThreadTypes'
    BY <1>18 DEF NullFunction, Crash, At, ThreadTypes, Labels, AllCalls, BufferTypes
  <2>2. BufferTypes'
    BY <1>18 DEF NullFunction, Crash, At, BufferTypes, ThreadTypes, CounterTypes, Pieces
  <2>3. CounterTypes'
    BY <1>18 DEF NullFunction, Crash, At, CounterTypes
  <2>4. FlagTypes'
    BY <1>18 DEF NullFunction, Crash, At, FlagTypes
  <2>5. OutputTypes'
    BY <1>18 DEF NullFunction, Crash, At, OutputTypes
  <2>6. Exclusive'
    BY <1>18 DEF NullFunction, Crash, At, ThreadTypes, Exclusive, Inner, Labels
  <2>7. MainDoes'
    BY <1>18 DEF NullFunction, Crash, At, ThreadTypes, MainDoes
  <2>8. Starting'
    BY <1>18 DEF NullFunction, Crash, At, ThreadTypes, Starting
  <2>9. Places'
    BY <1>18 DEF NullFunction, Crash, At, ThreadTypes, Places
  <2>10. Offsets'
    BY <1>18 DEF NullFunction, Crash, At, ThreadTypes, Offsets, Exclusive, Inner, Labels
  <2> QED
    BY <2>1, <2>2, <2>3, <2>4, <2>5, <2>6, <2>7, <2>8, <2>9, <2>10
<1>19. ASSUME NEW th \in Threads, Sync(th)
      PROVE  Control'
  <2>1. ThreadTypes'
    BY <1>19 DEF Sync, At, Goto, ThreadTypes, Labels, AllCalls, BufferTypes
  <2>2. BufferTypes'
    BY <1>19 DEF Sync, At, Goto, BufferTypes, ThreadTypes, CounterTypes, Pieces
  <2>3. CounterTypes'
    BY <1>19 DEF Sync, At, Goto, CounterTypes
  <2>4. FlagTypes'
    BY <1>19 DEF Sync, At, Goto, FlagTypes
  <2>5. OutputTypes'
    BY <1>19 DEF Sync, At, Goto, OutputTypes
  <2>6. Exclusive'
    BY <1>19 DEF Sync, At, Goto, ThreadTypes, Exclusive, Inner, Labels
  <2>7. MainDoes'
    BY <1>19 DEF Sync, At, Goto, ThreadTypes, MainDoes
  <2>8. Starting'
    BY <1>19 DEF Sync, At, Goto, ThreadTypes, Starting
  <2>9. Places'
    BY <1>19 DEF Sync, At, Goto, ThreadTypes, Places
  <2>10. Offsets'
    BY <1>19 DEF Sync, At, Goto, ThreadTypes, Offsets, Exclusive, Inner, Labels
  <2> QED
    BY <2>1, <2>2, <2>3, <2>4, <2>5, <2>6, <2>7, <2>8, <2>9, <2>10
<1>20. ASSUME NEW th \in Threads, Leave(th)
      PROVE  Control'
  <2>1. ThreadTypes'
    BY <1>20 DEF Leave, Return, Crash, At, Goto, ThreadTypes, Labels, AllCalls, BufferTypes
  <2>2. BufferTypes'
    BY <1>20 DEF Leave, Return, Crash, At, Goto, BufferTypes, ThreadTypes, CounterTypes, Pieces
  <2>3. CounterTypes'
    <3>1. heap' = heap \/ heap' = [heap EXCEPT ![th] = 0]
      BY <1>20 DEF Leave, Return, Crash
    <3>2. UNCHANGED <<count, next_heap_id, others, messages>>
      BY <1>20 DEF Leave, Return, Crash
    <3>3. heap' \in [Threads -> 0 .. next_heap_id']
      BY <3>1, <3>2 DEF CounterTypes
    <3> QED
      BY <3>2, <3>3 DEF CounterTypes
  <2>4. FlagTypes'
    BY <1>20 DEF Leave, Return, Crash, At, Goto, FlagTypes
  <2>5. OutputTypes'
    BY <1>20 DEF Leave, Return, Crash, At, Goto, OutputTypes
  <2>6. Exclusive'
    <3>1. CASE Crash(th)
      BY <3>1 DEF Crash, Exclusive
    <3>2. CASE lock = th /\ lock' = "free" /\ Return(th)
      <4>1. pc[th] \in Inner
        BY <1>20 DEF Leave, At, Inner, Labels
      <4>2. \A other \in Threads : pc[other] \in Inner => other = th
        BY <4>1 DEF Exclusive
      <4>3. /\ \A other \in Threads \ {th} : pc'[other] = pc[other]
            /\ pc'[th] \in {"idle", "destroy"}
        BY <3>2 DEF Return, Goto, ThreadTypes
      <4>4. \A other \in Threads : pc'[other] \notin Inner
        BY <4>2, <4>3 DEF Inner
      <4> QED
        BY <4>4 DEF Exclusive
    <3> QED
      BY <1>20, <3>1, <3>2 DEF Leave
  <2>7. MainDoes'
    BY <1>20 DEF Leave, Return, Crash, At, Goto, ThreadTypes, MainDoes
  <2>8. Starting'
    <3>1. CASE Crash(th)
      BY <3>1 DEF Crash, Starting
    <3>2. CASE Return(th)
      BY <3>2 DEF Return, Starting
    <3> QED
      BY <1>20, <3>1, <3>2 DEF Leave
  <2>9. Places'
    <3>1. CASE Crash(th)
      BY <3>1 DEF Crash, Places
    <3>2. CASE Return(th)
      <4>1. pc' = [pc EXCEPT ![th] = IF call[th] = "shutdown" THEN "destroy" ELSE "idle"]
        BY <3>2 DEF Return, Goto
      <4>2. UNCHANGED <<call, part>> /\ started'
        BY <3>2 DEF Return
      <4> QED
        BY <4>1, <4>2 DEF Places, ThreadTypes
    <3> QED
      BY <1>20, <3>1, <3>2 DEF Leave
  <2>10. Offsets'
    BY <1>20 DEF Leave, Return, Crash, At, Goto, ThreadTypes, Offsets, Exclusive, Inner, Labels
  <2> QED
    BY <2>1, <2>2, <2>3, <2>4, <2>5, <2>6, <2>7, <2>8, <2>9, <2>10
<1>21. ASSUME NEW message \in {"pause", "resume"}, PeerWrites(message)
      PROVE  Control'
  <2>1. ThreadTypes'
    BY <1>21 DEF PeerWrites, ThreadTypes
  <2>2. BufferTypes'
    BY <1>21 DEF PeerWrites, BufferTypes
  <2>3. CounterTypes'
    <3>1. messages' = messages + 1 /\ UNCHANGED <<count, next_heap_id, heap, others>>
      BY <1>21 DEF PeerWrites
    <3>2. messages' \in Nat
      BY <3>1 DEF CounterTypes
    <3> QED
      BY <3>1, <3>2 DEF CounterTypes
  <2>4. FlagTypes'
    BY <1>21 DEF PeerWrites, FlagTypes
  <2>5. OutputTypes'
    BY <1>21 DEF PeerWrites, OutputTypes
  <2>6. Exclusive'
    BY <1>21 DEF PeerWrites, Exclusive
  <2>7. MainDoes'
    BY <1>21 DEF PeerWrites, MainDoes
  <2>8. Starting'
    BY <1>21 DEF PeerWrites, Starting
  <2>9. Places'
    BY <1>21 DEF PeerWrites, Places
  <2>10. Offsets'
    BY <1>21 DEF PeerWrites, Offsets
  <2> QED
    BY <2>1, <2>2, <2>3, <2>4, <2>5, <2>6, <2>7, <2>8, <2>9, <2>10
<1>22. CASE PeerGoes
  <2>1. ThreadTypes'
    BY <1>22 DEF PeerGoes, ThreadTypes
  <2>2. BufferTypes'
    BY <1>22 DEF PeerGoes, BufferTypes
  <2>3. CounterTypes'
    BY <1>22 DEF PeerGoes, CounterTypes
  <2>4. FlagTypes'
    BY <1>22 DEF PeerGoes, FlagTypes
  <2>5. OutputTypes'
    BY <1>22 DEF PeerGoes, OutputTypes
  <2>6. Exclusive'
    BY <1>22 DEF PeerGoes, Exclusive
  <2>7. MainDoes'
    BY <1>22 DEF PeerGoes, MainDoes
  <2>8. Starting'
    BY <1>22 DEF PeerGoes, Starting
  <2>9. Places'
    BY <1>22 DEF PeerGoes, Places
  <2>10. Offsets'
    BY <1>22 DEF PeerGoes, Offsets
  <2> QED
    BY <2>1, <2>2, <2>3, <2>4, <2>5, <2>6, <2>7, <2>8, <2>9, <2>10
<1>23. CASE UNCHANGED vars
  <2>1. ThreadTypes'
    BY <1>23 DEF vars, ThreadTypes
  <2>2. BufferTypes'
    BY <1>23 DEF vars, BufferTypes
  <2>3. CounterTypes'
    BY <1>23 DEF vars, CounterTypes
  <2>4. FlagTypes'
    BY <1>23 DEF vars, FlagTypes
  <2>5. OutputTypes'
    BY <1>23 DEF vars, OutputTypes
  <2>6. Exclusive'
    BY <1>23 DEF vars, Exclusive
  <2>7. MainDoes'
    BY <1>23 DEF vars, MainDoes
  <2>8. Starting'
    BY <1>23 DEF vars, Starting
  <2>9. Places'
    BY <1>23 DEF vars, Places
  <2>10. Offsets'
    BY <1>23 DEF vars, Offsets
  <2> QED
    BY <2>1, <2>2, <2>3, <2>4, <2>5, <2>6, <2>7, <2>8, <2>9, <2>10
<1>24. ASSUME NEW th \in Threads, Destroy(th)
      PROVE  Control'
  <2>1. ThreadTypes'
    BY <1>24 DEF Destroy, At, Goto, ThreadTypes, Labels
  <2>2. BufferTypes'
    BY <1>24 DEF Destroy, At, Goto, BufferTypes
  <2>3. CounterTypes'
    BY <1>24 DEF Destroy, At, Goto, CounterTypes
  <2>4. FlagTypes'
    BY <1>24 DEF Destroy, At, Goto, FlagTypes
  <2>5. OutputTypes'
    BY <1>24 DEF Destroy, At, Goto, OutputTypes
  <2>6. Exclusive'
    BY <1>24 DEF Destroy, At, Goto, Exclusive, ThreadTypes, Inner, Labels
  <2>7. MainDoes'
    BY <1>24 DEF Destroy, At, Goto, MainDoes, ThreadTypes
  <2>8. Starting'
    BY <1>24 DEF Destroy, At, Goto, Starting, ThreadTypes
  <2>9. Places'
    BY <1>24 DEF Destroy, At, Goto, Places, ThreadTypes
  <2>10. Offsets'
    BY <1>24 DEF Destroy, At, Goto, Offsets, ThreadTypes
  <2> QED
    BY <2>1, <2>2, <2>3, <2>4, <2>5, <2>6, <2>7, <2>8, <2>9, <2>10
<1>25. CASE PeerStalls
  <2>1. ThreadTypes'
    BY <1>25 DEF PeerStalls, ThreadTypes
  <2>2. BufferTypes'
    BY <1>25 DEF PeerStalls, BufferTypes
  <2>3. CounterTypes'
    <3>1. messages' = messages \/ messages' = messages + 1
      BY <1>25 DEF PeerStalls
    <3>2. UNCHANGED <<count, next_heap_id, heap, others>>
      BY <1>25 DEF PeerStalls
    <3>3. messages' \in Nat
      BY <3>1 DEF CounterTypes
    <3> QED
      BY <3>2, <3>3 DEF CounterTypes
  <2>4. FlagTypes'
    BY <1>25 DEF PeerStalls, FlagTypes
  <2>5. OutputTypes'
    BY <1>25 DEF PeerStalls, OutputTypes
  <2>6. Exclusive'
    BY <1>25 DEF PeerStalls, Exclusive
  <2>7. MainDoes'
    BY <1>25 DEF PeerStalls, MainDoes
  <2>8. Starting'
    BY <1>25 DEF PeerStalls, Starting
  <2>9. Places'
    BY <1>25 DEF PeerStalls, Places
  <2>10. Offsets'
    BY <1>25 DEF PeerStalls, Offsets
  <2> QED
    BY <2>1, <2>2, <2>3, <2>4, <2>5, <2>6, <2>7, <2>8, <2>9, <2>10
<1> QED
  BY <1>1, <1>2, <1>3, <1>4, <1>5, <1>6, <1>7, <1>8, <1>9, <1>10, <1>11, <1>12, <1>13, <1>14, <1>15,
     <1>16, <1>17, <1>18, <1>19, <1>20, <1>21, <1>22, <1>23, <1>24, <1>25 DEF Next, Step, Program

(***************************************************************************)
(* Sequences of pieces: beginnings of good ones are good, and what one     *)
(* more piece does.                                                        *)
(***************************************************************************)
LEMMA Beginning ==
  ASSUME NEW s \in Seq(Pieces), NEW k \in 0 .. Len(s)
  PROVE  /\ SubSeq(s, 1, k) \in Seq(Pieces) /\ Len(SubSeq(s, 1, k)) = k
         /\ \A i \in 1 .. k : SubSeq(s, 1, k)[i] = s[i]
BY SubSeqProperties

\* What Whole says of one place.
Fits(pieces, i) ==
  /\ pieces[i].n = (i - 1) \div 2
  /\ IF i % 2 = 1
     THEN pieces[i].part = "begin"
     ELSE pieces[i] = [pieces[i - 1] EXCEPT !.part = "end"]

LEMMA WholeFits == \A s : Whole(s) <=> \A i \in 1 .. Len(s) : Fits(s, i)
BY DEF Whole, Fits

LEMMA SameFits ==
  ASSUME NEW s, NEW t, NEW n \in Nat, \A j \in 1 .. n : t[j] = s[j],
         NEW i \in 1 .. n, Fits(s, i)
  PROVE  Fits(t, i)
<1>1. t[i] = s[i] /\ (i % 2 # 1 => t[i - 1] = s[i - 1])
  OBVIOUS
<1> QED
  BY <1>1 DEF Fits

LEMMA WholeBeginning ==
  ASSUME NEW s \in Seq(Pieces), NEW k \in 0 .. Len(s), Whole(s)
  PROVE  Whole(SubSeq(s, 1, k))
<1> DEFINE t == SubSeq(s, 1, k)
<1>1. Len(t) = k /\ \A i \in 1 .. k : t[i] = s[i]
  BY Beginning
<1>2. \A i \in 1 .. k : Fits(s, i)
  BY WholeFits
<1> HIDE DEF t
<1>3. \A i \in 1 .. k : Fits(t, i)
  BY <1>1, <1>2, SameFits
<1>4. Whole(t)
  BY <1>1, <1>3, WholeFits
<1> QED
  BY <1>4 DEF t

LEMMA InOrderBeginning ==
  ASSUME NEW s \in Seq(Pieces), NEW k \in 0 .. Len(s), InOrder(s)
  PROVE  InOrder(SubSeq(s, 1, k))
<1> DEFINE t == SubSeq(s, 1, k)
<1>1. Created(t) = {i \in Created(s) : i <= k}
  BY Beginning DEF Created
<1>2. ASSUME NEW i \in Created(t)
      PROVE  t[i].heap = Cardinality({j \in Created(t) : j < i})
  <2>1. i \in Created(s) /\ i <= k /\ i \in 1 .. k
    BY <1>1 DEF Created
  <2>2. {j \in Created(t) : j < i} = {j \in Created(s) : j < i}
    BY <1>1, <2>1 DEF Created
  <2>3. t[i] = s[i]
    BY <2>1, Beginning
  <2> QED
    BY <2>1, <2>2, <2>3 DEF InOrder
<1> QED
  BY <1>2 DEF InOrder

LEMMA OneMore ==
  ASSUME NEW s \in Seq(Pieces), NEW p \in Pieces
  PROVE  /\ Append(s, p) \in Seq(Pieces) /\ Len(Append(s, p)) = Len(s) + 1
         /\ \A i \in 1 .. Len(s) : Append(s, p)[i] = s[i]
         /\ Append(s, p)[Len(s) + 1] = p
BY AppendProperties

LEMMA WholeBegin ==
  ASSUME NEW s \in Seq(Pieces), Whole(s), NEW n \in Nat, Len(s) = 2 * n,
         NEW p \in Pieces, p.part = "begin", p.n = n
  PROVE  Whole(Append(s, p))
<1> DEFINE t == Append(s, p)
<1>1. Len(t) = Len(s) + 1 /\ t[Len(s) + 1] = p /\ \A i \in 1 .. Len(s) : t[i] = s[i]
  BY OneMore
<1> HIDE DEF t
<1>2. \A i \in 1 .. Len(s) : Fits(t, i)
  <2>1. Len(s) \in Nat /\ \A i \in 1 .. Len(s) : Fits(s, i)
    BY WholeFits
  <2> QED
    BY <1>1, <2>1, SameFits
<1>3. Fits(t, Len(s) + 1)
  <2>1. (Len(s) + 1) % 2 = 1 /\ ((Len(s) + 1) - 1) \div 2 = n
    OBVIOUS
  <2> QED
    BY <1>1, <2>1 DEF Fits
<1>4. \A i \in 1 .. (Len(s) + 1) : i \in 1 .. Len(s) \/ i = Len(s) + 1
  OBVIOUS
<1>5. Whole(t)
  BY <1>1, <1>2, <1>3, <1>4, WholeFits
<1> QED
  BY <1>5 DEF t

LEMMA WholeEnd ==
  ASSUME NEW s \in Seq(Pieces), Whole(s), NEW n \in Nat, Len(s) = 2 * n + 1,
         NEW p \in Pieces, p.part = "end", p.n = n, s[Len(s)] = [p EXCEPT !.part = "begin"]
  PROVE  Whole(Append(s, p))
<1> DEFINE t == Append(s, p)
<1>1. Len(t) = Len(s) + 1 /\ t[Len(s) + 1] = p /\ \A i \in 1 .. Len(s) : t[i] = s[i]
  BY OneMore
<1> HIDE DEF t
<1>2. \A i \in 1 .. Len(s) : Fits(t, i)
  <2>1. Len(s) \in Nat /\ \A i \in 1 .. Len(s) : Fits(s, i)
    BY WholeFits
  <2> QED
    BY <1>1, <2>1, SameFits
<1>3. Fits(t, Len(s) + 1)
  <2>1. (Len(s) + 1) % 2 # 1 /\ ((Len(s) + 1) - 1) \div 2 = n
    OBVIOUS
  <2>2. [s[Len(s)] EXCEPT !.part = "end"] = p
    BY DEF Pieces
  <2>3. t[(Len(s) + 1) - 1] = s[Len(s)]
    BY <1>1
  <2> QED
    BY <1>1, <2>1, <2>2, <2>3 DEF Fits
<1>4. \A i \in 1 .. (Len(s) + 1) : i \in 1 .. Len(s) \/ i = Len(s) + 1
  OBVIOUS
<1>5. Whole(t)
  BY <1>1, <1>2, <1>3, <1>4, WholeFits
<1> QED
  BY <1>5 DEF t

LEMMA CreatedFinite ==
  ASSUME NEW s \in Seq(Pieces)
  PROVE  /\ Created(s) \subseteq 1 .. Len(s) /\ IsFiniteSet(Created(s))
         /\ Cardinality(Created(s)) \in Nat
<1>1. Created(s) \subseteq 1 .. Len(s)
  BY DEF Created
<1>2. IsFiniteSet(1 .. Len(s))
  BY FS_Interval
<1>3. IsFiniteSet(Created(s))
  BY <1>1, <1>2, FS_Subset
<1> QED
  BY <1>1, <1>3, FS_CardinalityType

LEMMA CreatedMore ==
  ASSUME NEW s \in Seq(Pieces), NEW p \in Pieces
  PROVE  /\ Creates(p) =>
              /\ Cardinality(Created(Append(s, p))) = Cardinality(Created(s)) + 1
              /\ InOrder(s) /\ p.heap = Cardinality(Created(s)) => InOrder(Append(s, p))
         /\ ~Creates(p) =>
              /\ Created(Append(s, p)) = Created(s)
              /\ InOrder(s) => InOrder(Append(s, p))
<1> DEFINE t == Append(s, p)
<1>0. Created(s) \subseteq 1 .. Len(s) /\ Len(s) + 1 \notin Created(s)
  BY CreatedFinite
<1>1. Created(t) = IF Creates(p) THEN Created(s) \cup {Len(s) + 1} ELSE Created(s)
  BY OneMore DEF Created
<1>2. \A i \in Created(s) : {j \in Created(t) : j < i} = {j \in Created(s) : j < i} /\ t[i] = s[i]
  BY <1>0, <1>1, OneMore
<1>3. CASE ~Creates(p)
  BY <1>1, <1>2, <1>3 DEF InOrder
<1>4. CASE Creates(p)
  <2>1. Cardinality(Created(t)) = Cardinality(Created(s)) + 1
    BY <1>0, <1>1, <1>4, CreatedFinite, FS_AddElement
  <2>2. {j \in Created(t) : j < Len(s) + 1} = Created(s)
    BY <1>0, <1>1
  <2>3. ASSUME InOrder(s), p.heap = Cardinality(Created(s))
        PROVE  InOrder(t)
    <3>1. \A i \in Created(s) : t[i].heap = Cardinality({j \in Created(t) : j < i})
      BY <1>2, <2>3 DEF InOrder
    <3>2. t[Len(s) + 1].heap = Cardinality({j \in Created(t) : j < Len(s) + 1})
      BY <2>2, <2>3, OneMore
    <3> QED
      BY <1>1, <1>4, <3>1, <3>2 DEF InOrder
  <2> QED
    BY <1>4, <2>1, <2>3
<1> QED
  BY <1>3, <1>4

-----------------------------------------------------------------------------
(***************************************************************************)
(* Stream.  As long as the output is good, what was emitted is all events  *)
(* that were finished and the first piece of the one under way; the heap   *)
(* ids in it are all that were given, but for one just taken; and after    *)
(* Shutdown has written its event nothing is added.                        *)
(***************************************************************************)
Good == ~started \/ transport = "file" \/ socket \in {"open", "closed"}

\* Between the lock and the last piece.
Writing(th) == pc[th] \in {"reserve", "send", "flip", "receive", "pause", "commit"}

\* With a heap id that is not emitted yet.
Taking(th) == call[th] = "event" /\ part[th] = "begin" /\ Writing(th)

\* Shutdown has written EndStream.
Finishing ==
  /\ call[main] = "shutdown"
  /\ \/ pc[main] = "down"
     \/ part[main] = "flush" /\ pc[main] \in {"send", "flip", "receive", "pause", "sync", "leave"}

Numbered ==
  Good =>
    /\ Whole(Emitted)
    /\ Len(Emitted) = 2 * count + (IF \E th \in Threads : InEvent(th) THEN 1 ELSE 0)
    /\ \A th \in Threads :
         InEvent(th) => Emitted[Len(Emitted)] = [Piece(th) EXCEPT !.part = "begin"]

Given ==
  Good =>
    /\ InOrder(Emitted)
    /\ next_heap_id =
         Cardinality(Created(Emitted)) + (IF \E th \in Threads : Taking(th) THEN 1 ELSE 0)
    /\ \A th \in Threads : Taking(th) => heap[th] = Cardinality(Created(Emitted))

Finished ==
  Good /\ Finishing =>
    /\ Len(Emitted) > 0
    /\ Emitted[Len(Emitted)].kind = "shutdown" /\ Emitted[Len(Emitted)].part = "end"

Stream == StreamIntact /\ HeapIdsInOrder /\ Numbered /\ Given /\ Finished

LEMMA PartOfConcat ==
  ASSUME NEW s \in Seq(Pieces), NEW t \in Seq(Pieces), NEW n \in 0 .. Len(t)
  PROVE  s \o SubSeq(t, 1, n) = SubSeq(s \o t, 1, Len(s) + n)
<1> DEFINE u == SubSeq(t, 1, n)
<1>1. u \in Seq(Pieces) /\ Len(u) = n /\ \A i \in 1 .. n : u[i] = t[i]
  BY Beginning
<1> HIDE DEF u
<1>2. /\ s \o t \in Seq(Pieces) /\ Len(s) + n \in 0 .. Len(s \o t)
      /\ \A i \in 1 .. (Len(s) + n) :
           (s \o t)[i] = IF i <= Len(s) THEN s[i] ELSE t[i - Len(s)]
  BY ConcatProperties
<1>3. /\ s \o u \in Seq(Pieces) /\ Len(s \o u) = Len(s) + n
      /\ \A i \in 1 .. (Len(s) + n) :
           (s \o u)[i] = IF i <= Len(s) THEN s[i] ELSE u[i - Len(s)]
  BY <1>1, ConcatProperties
<1> DEFINE v == SubSeq(s \o t, 1, Len(s) + n)
<1>4. /\ v \in Seq(Pieces) /\ Len(v) = Len(s) + n
      /\ \A i \in 1 .. (Len(s) + n) : v[i] = (s \o t)[i]
  BY <1>2, Beginning
<1> HIDE DEF v
<1>5. \A i \in 1 .. (Len(s) + n) : (s \o u)[i] = v[i]
  <2> TAKE i \in 1 .. (Len(s) + n)
  <2>1. CASE i <= Len(s)
    BY <1>2, <1>3, <1>4, <2>1
  <2>2. CASE ~(i <= Len(s))
    <3>1. i - Len(s) \in 1 .. n
      BY <2>2
    <3>2. u[i - Len(s)] = t[i - Len(s)]
      BY <1>1, <3>1
    <3> QED
      BY <1>2, <1>3, <1>4, <2>2, <3>2
  <2> QED
    BY <2>1, <2>2
<1>6. s \o u = v
  BY <1>3, <1>4, <1>5, SeqEqual
<1> QED
  BY <1>6 DEF u, v

LEMMA EmittedIs ==
  ASSUME BufferTypes
  PROVE  /\ Emitted \in Seq(Pieces) /\ Waiting \in Seq(Pieces)
         /\ Len(Emitted) = Len(wire) + Len(Waiting)
         /\ wire = SubSeq(Emitted, 1, Len(wire)) /\ Len(wire) \in 0 .. Len(Emitted)
<1>1. wire \in Seq(Pieces) /\ Waiting \in Seq(Pieces)
  BY PendingIs DEF Waiting, BufferTypes
<1>2. /\ Emitted \in Seq(Pieces) /\ Len(Emitted) = Len(wire) + Len(Waiting)
      /\ \A i \in 1 .. Len(wire) : Emitted[i] = wire[i]
  BY <1>1, ConcatProperties DEF Emitted
<1>3. Len(wire) \in 0 .. Len(Emitted)
  BY <1>1, <1>2
<1>4. wire = SubSeq(Emitted, 1, Len(wire))
  BY <1>1, <1>2, <1>3, SubSeqProperties, SeqEqual
<1> QED
  BY <1>1, <1>2, <1>3, <1>4

\* What every step but a Commit leaves.
Steady ==
  /\ Good' => Good
  /\ Good' => Emitted' = Emitted
  /\ wire' = wire \/ (Good /\ \E k \in 0 .. Len(Emitted) : wire' = SubSeq(Emitted, 1, k))
  /\ count' = count
  /\ \A th \in Threads : (InEvent(th)' <=> InEvent(th)) /\ (InEvent(th) => Piece(th)' = Piece(th))
  /\ Finishing' => Finishing
  /\ \/ /\ next_heap_id' = next_heap_id
        /\ \A th \in Threads :
             (Taking(th)' <=> Taking(th)) /\ (Taking(th) => heap'[th] = heap[th])
     \/ \E th \in Threads :
          /\ next_heap_id' = next_heap_id + 1 /\ heap'[th] = next_heap_id
          /\ Taking(th)' /\ ~Taking(th)
          /\ \A other \in Threads \ {th} : ~Taking(other) /\ ~Taking(other)'

LEMMA OthersSteady ==
  Control /\ [Next]_vars => Steady \/ \E th \in Threads : Commit(th)
<1> SUFFICES ASSUME Control, [Next]_vars
             PROVE  Steady \/ \E th \in Threads : Commit(th)
  OBVIOUS
<1> USE DEF Control, state, outputs, encoder, threads, ids, outside, bounds
<1>1. ASSUME InitFile
      PROVE  Steady
  <2>1. Good' => Good
    BY <1>1 DEF InitFile, InitCommon, Begin, At, Goto, Good
  <2>2. Good' => Emitted' = Emitted
    <3>1. \A other \in Threads : pc'[other] # "flip" /\ pc[other] # "flip"
      BY <1>1 DEF InitFile, InitCommon, Begin, At, Goto, ThreadTypes, Starting
    <3>2. wire' = wire /\ write_offset' = 0 /\ write_offset = 0
      BY <1>1 DEF InitFile, InitCommon, Begin, At, Goto, Starting
    <3>3. Pending = <<>> /\ Pending' = <<>>
      BY <3>2 DEF Pending
    <3> QED
      BY <3>1, <3>2, <3>3 DEF Emitted, Waiting
  <2>3. wire' = wire \/ (Good /\ \E k \in 0 .. Len(Emitted) : wire' = SubSeq(Emitted, 1, k))
    BY <1>1 DEF InitFile, InitCommon, Begin, At, Goto
  <2>4. count' = count
    BY <1>1 DEF InitFile, InitCommon, Begin, At, Goto
  <2>5. \A other \in Threads :
          (InEvent(other)' <=> InEvent(other)) /\ (InEvent(other) => Piece(other)' = Piece(other))
    BY <1>1 DEF InitFile, InitCommon, Begin, At, Goto, InEvent, Piece, ThreadTypes, CounterTypes
  <2>6. Finishing' => Finishing
    BY <1>1 DEF InitFile, InitCommon, Begin, At, Goto, Finishing, ThreadTypes
  <2>7. /\ next_heap_id' = next_heap_id
        /\ \A other \in Threads :
             (Taking(other)' <=> Taking(other)) /\ (Taking(other) => heap'[other] = heap[other])
    BY <1>1 DEF InitFile, InitCommon, Begin, At, Goto, Taking, Writing, ThreadTypes, CounterTypes
  <2> QED
    BY <2>1, <2>2, <2>3, <2>4, <2>5, <2>6, <2>7 DEF Steady
<1>2. ASSUME InitSocket
      PROVE  Steady
  <2>1. Good' => Good
    BY <1>2 DEF InitSocket, InitCommon, Begin, At, Goto, Good
  <2>2. Good' => Emitted' = Emitted
    <3>1. \A other \in Threads : pc'[other] # "flip" /\ pc[other] # "flip"
      BY <1>2 DEF InitSocket, InitCommon, Begin, At, Goto, ThreadTypes, Starting
    <3>2. wire' = wire /\ write_offset' = 0 /\ write_offset = 0
      BY <1>2 DEF InitSocket, InitCommon, Begin, At, Goto, Starting
    <3>3. Pending = <<>> /\ Pending' = <<>>
      BY <3>2 DEF Pending
    <3> QED
      BY <3>1, <3>2, <3>3 DEF Emitted, Waiting
  <2>3. wire' = wire \/ (Good /\ \E k \in 0 .. Len(Emitted) : wire' = SubSeq(Emitted, 1, k))
    BY <1>2 DEF InitSocket, InitCommon, Begin, At, Goto
  <2>4. count' = count
    BY <1>2 DEF InitSocket, InitCommon, Begin, At, Goto
  <2>5. \A other \in Threads :
          (InEvent(other)' <=> InEvent(other)) /\ (InEvent(other) => Piece(other)' = Piece(other))
    BY <1>2 DEF InitSocket, InitCommon, Begin, At, Goto, InEvent, Piece, ThreadTypes, CounterTypes
  <2>6. Finishing' => Finishing
    BY <1>2 DEF InitSocket, InitCommon, Begin, At, Goto, Finishing, ThreadTypes
  <2>7. /\ next_heap_id' = next_heap_id
        /\ \A other \in Threads :
             (Taking(other)' <=> Taking(other)) /\ (Taking(other) => heap'[other] = heap[other])
    BY <1>2 DEF InitSocket, InitCommon, Begin, At, Goto, Taking, Writing, ThreadTypes, CounterTypes
  <2> QED
    BY <2>1, <2>2, <2>3, <2>4, <2>5, <2>6, <2>7 DEF Steady
<1>3. ASSUME InitSocketFails
      PROVE  Steady
  <2>1. Good' => Good
    BY <1>3 DEF InitSocketFails, ErrorShutdown, At, Good
  <2>2. Good' => Emitted' = Emitted
    <3>1. \A other \in Threads : pc'[other] = "flip" <=> pc[other] = "flip"
      BY <1>3 DEF InitSocketFails, ErrorShutdown, At, ThreadTypes
    <3>2. UNCHANGED <<wire, buffers, write_offset, current_buffer>>
      BY <1>3 DEF InitSocketFails, ErrorShutdown, At
    <3> QED
      BY <3>1, <3>2 DEF Emitted, Waiting, Pending
  <2>3. wire' = wire \/ (Good /\ \E k \in 0 .. Len(Emitted) : wire' = SubSeq(Emitted, 1, k))
    BY <1>3 DEF InitSocketFails, ErrorShutdown, At
  <2>4. count' = count
    BY <1>3 DEF InitSocketFails, ErrorShutdown, At
  <2>5. \A other \in Threads :
          (InEvent(other)' <=> InEvent(other)) /\ (InEvent(other) => Piece(other)' = Piece(other))
    BY <1>3 DEF InitSocketFails, ErrorShutdown, At, InEvent, Piece, ThreadTypes, CounterTypes
  <2>6. Finishing' => Finishing
    BY <1>3 DEF InitSocketFails, ErrorShutdown, At, Finishing, ThreadTypes
  <2>7. /\ next_heap_id' = next_heap_id
        /\ \A other \in Threads :
             (Taking(other)' <=> Taking(other)) /\ (Taking(other) => heap'[other] = heap[other])
    BY <1>3 DEF InitSocketFails, ErrorShutdown, At, Taking, Writing, ThreadTypes, CounterTypes
  <2> QED
    BY <2>1, <2>2, <2>3, <2>4, <2>5, <2>6, <2>7 DEF Steady
<1>4. ASSUME InitSocketAgain
      PROVE  Steady
  <2>1. Good' => Good
    BY <1>4 DEF InitSocketAgain, Begin, At, Goto, Good
  <2>2. Good' => Emitted' = Emitted
    <3>1. \A other \in Threads : pc'[other] = "flip" <=> pc[other] = "flip"
      BY <1>4 DEF InitSocketAgain, Begin, At, Goto, ThreadTypes
    <3>2. UNCHANGED <<wire, buffers, write_offset, current_buffer>>
      BY <1>4 DEF InitSocketAgain, Begin, At, Goto
    <3> QED
      BY <3>1, <3>2 DEF Emitted, Waiting, Pending
  <2>3. wire' = wire \/ (Good /\ \E k \in 0 .. Len(Emitted) : wire' = SubSeq(Emitted, 1, k))
    BY <1>4 DEF InitSocketAgain, Begin, At, Goto
  <2>4. count' = count
    BY <1>4 DEF InitSocketAgain, Begin, At, Goto
  <2>5. \A other \in Threads :
          (InEvent(other)' <=> InEvent(other)) /\ (InEvent(other) => Piece(other)' = Piece(other))
    BY <1>4 DEF InitSocketAgain, Begin, At, Goto, InEvent, Piece, ThreadTypes, CounterTypes
  <2>6. Finishing' => Finishing
    BY <1>4 DEF InitSocketAgain, Begin, At, Goto, Finishing, ThreadTypes
  <2>7. /\ next_heap_id' = next_heap_id
        /\ \A other \in Threads :
             (Taking(other)' <=> Taking(other)) /\ (Taking(other) => heap'[other] = heap[other])
    BY <1>4 DEF InitSocketAgain, Begin, At, Goto, Taking, Writing, ThreadTypes, CounterTypes
  <2> QED
    BY <2>1, <2>2, <2>3, <2>4, <2>5, <2>6, <2>7 DEF Steady
<1>5. ASSUME Shutdown
      PROVE  Steady
  <2>1. Good' => Good
    BY <1>5 DEF Shutdown, Begin, At, Goto, Good
  <2>2. Good' => Emitted' = Emitted
    <3>1. \A other \in Threads : pc'[other] = "flip" <=> pc[other] = "flip"
      BY <1>5 DEF Shutdown, Begin, At, Goto, ThreadTypes
    <3>2. UNCHANGED <<wire, buffers, write_offset, current_buffer>>
      BY <1>5 DEF Shutdown, Begin, At, Goto
    <3> QED
      BY <3>1, <3>2 DEF Emitted, Waiting, Pending
  <2>3. wire' = wire \/ (Good /\ \E k \in 0 .. Len(Emitted) : wire' = SubSeq(Emitted, 1, k))
    BY <1>5 DEF Shutdown, Begin, At, Goto
  <2>4. count' = count
    BY <1>5 DEF Shutdown, Begin, At, Goto
  <2>5. \A other \in Threads :
          (InEvent(other)' <=> InEvent(other)) /\ (InEvent(other) => Piece(other)' = Piece(other))
    BY <1>5 DEF Shutdown, Begin, At, Goto, InEvent, Piece, ThreadTypes, CounterTypes
  <2>6. Finishing' => Finishing
    BY <1>5 DEF Shutdown, Begin, At, Goto, Finishing, ThreadTypes
  <2>7. /\ next_heap_id' = next_heap_id
        /\ \A other \in Threads :
             (Taking(other)' <=> Taking(other)) /\ (Taking(other) => heap'[other] = heap[other])
    BY <1>5 DEF Shutdown, Begin, At, Goto, Taking, Writing, ThreadTypes, CounterTypes
  <2> QED
    BY <2>1, <2>2, <2>3, <2>4, <2>5, <2>6, <2>7 DEF Steady
<1>6. ASSUME NEW th \in Threads, started, CallEvent(th)
      PROVE  Steady
  <2>1. Good' => Good
    BY <1>6 DEF CallEvent, Begin, At, Goto, Good
  <2>2. Good' => Emitted' = Emitted
    <3>1. \A other \in Threads : pc'[other] = "flip" <=> pc[other] = "flip"
      BY <1>6 DEF CallEvent, Begin, At, Goto, ThreadTypes
    <3>2. UNCHANGED <<wire, buffers, write_offset, current_buffer>>
      BY <1>6 DEF CallEvent, Begin, At, Goto
    <3> QED
      BY <3>1, <3>2 DEF Emitted, Waiting, Pending
  <2>3. wire' = wire \/ (Good /\ \E k \in 0 .. Len(Emitted) : wire' = SubSeq(Emitted, 1, k))
    BY <1>6 DEF CallEvent, Begin, At, Goto
  <2>4. count' = count
    BY <1>6 DEF CallEvent, Begin, At, Goto
  <2>5. \A other \in Threads :
          (InEvent(other)' <=> InEvent(other)) /\ (InEvent(other) => Piece(other)' = Piece(other))
    BY <1>6 DEF CallEvent, Begin, At, Goto, InEvent, Piece, ThreadTypes, CounterTypes
  <2>6. Finishing' => Finishing
    BY <1>6 DEF CallEvent, Begin, At, Goto, Finishing, ThreadTypes
  <2>7. /\ next_heap_id' = next_heap_id
        /\ \A other \in Threads :
             (Taking(other)' <=> Taking(other)) /\ (Taking(other) => heap'[other] = heap[other])
    BY <1>6 DEF CallEvent, Begin, At, Goto, Taking, Writing, ThreadTypes, CounterTypes
  <2> QED
    BY <2>1, <2>2, <2>3, <2>4, <2>5, <2>6, <2>7 DEF Steady
<1>7. ASSUME NEW th \in Threads, started, Flush(th)
      PROVE  Steady
  <2>1. Good' => Good
    BY <1>7 DEF Flush, Begin, At, Goto, Good
  <2>2. Good' => Emitted' = Emitted
    <3>1. \A other \in Threads : pc'[other] = "flip" <=> pc[other] = "flip"
      BY <1>7 DEF Flush, Begin, At, Goto, ThreadTypes
    <3>2. UNCHANGED <<wire, buffers, write_offset, current_buffer>>
      BY <1>7 DEF Flush, Begin, At, Goto
    <3> QED
      BY <3>1, <3>2 DEF Emitted, Waiting, Pending
  <2>3. wire' = wire \/ (Good /\ \E k \in 0 .. Len(Emitted) : wire' = SubSeq(Emitted, 1, k))
    BY <1>7 DEF Flush, Begin, At, Goto
  <2>4. count' = count
    BY <1>7 DEF Flush, Begin, At, Goto
  <2>5. \A other \in Threads :
          (InEvent(other)' <=> InEvent(other)) /\ (InEvent(other) => Piece(other)' = Piece(other))
    BY <1>7 DEF Flush, Begin, At, Goto, InEvent, Piece, ThreadTypes, CounterTypes
  <2>6. Finishing' => Finishing
    BY <1>7 DEF Flush, Begin, At, Goto, Finishing, ThreadTypes
  <2>7. /\ next_heap_id' = next_heap_id
        /\ \A other \in Threads :
             (Taking(other)' <=> Taking(other)) /\ (Taking(other) => heap'[other] = heap[other])
    BY <1>7 DEF Flush, Begin, At, Goto, Taking, Writing, ThreadTypes, CounterTypes
  <2> QED
    BY <2>1, <2>2, <2>3, <2>4, <2>5, <2>6, <2>7 DEF Steady
<1>8. ASSUME NEW th \in Threads, Enter(th)
      PROVE  Steady
  <2>1. Good' => Good
    BY <1>8 DEF Enter, Inside, Crash, At, Goto, Good
  <2>2. Good' => Emitted' = Emitted
    <3>1. \A other \in Threads : pc'[other] = "flip" <=> pc[other] = "flip"
      BY <1>8 DEF Enter, Inside, Crash, At, Goto, ThreadTypes
    <3>2. UNCHANGED <<wire, buffers, write_offset, current_buffer>>
      BY <1>8 DEF Enter, Inside, Crash, At, Goto
    <3> QED
      BY <3>1, <3>2 DEF Emitted, Waiting, Pending
  <2>3. wire' = wire \/ (Good /\ \E k \in 0 .. Len(Emitted) : wire' = SubSeq(Emitted, 1, k))
    BY <1>8 DEF Enter, Inside, Crash, At, Goto
  <2>4. count' = count
    BY <1>8 DEF Enter, Inside, Crash, At, Goto
  <2>5. \A other \in Threads :
          (InEvent(other)' <=> InEvent(other)) /\ (InEvent(other) => Piece(other)' = Piece(other))
    <3>1. CASE UNCHANGED <<pc, call, part, heap, count>>
      BY <3>1 DEF InEvent, Piece
    <3>2. CASE Inside(th) /\ pc[th] = "enter"
      <4>1. /\ UNCHANGED <<call, count>>
            /\ \A other \in Threads \ {th} :
                 pc'[other] = pc[other] /\ part'[other] = part[other] /\ heap'[other] = heap[other]
        BY <3>2 DEF Inside, Goto, ThreadTypes, CounterTypes
      <4>2. ~InEvent(th) /\ ~InEvent(th)'
        BY <3>2 DEF Inside, Goto, ThreadTypes, Places, InEvent
      <4> QED
        BY <4>1, <4>2 DEF InEvent, Piece
    <3> QED
      BY <1>8, <3>1, <3>2 DEF Enter, Crash, At
  <2>6. Finishing' => Finishing
    BY <1>8 DEF Enter, Inside, Crash, At, Goto, Finishing, ThreadTypes
  <2>7. \/ /\ next_heap_id' = next_heap_id
           /\ \A other \in Threads :
                (Taking(other)' <=> Taking(other)) /\ (Taking(other) => heap'[other] = heap[other])
        \/ \E other \in Threads :
             /\ next_heap_id' = next_heap_id + 1 /\ heap'[other] = next_heap_id
             /\ Taking(other)' /\ ~Taking(other)
             /\ \A third \in Threads \ {other} : ~Taking(third) /\ ~Taking(third)'
    <3>1. CASE UNCHANGED <<pc, call, part, heap, next_heap_id>>
      BY <3>1 DEF Taking, Writing
    <3>2. CASE Inside(th) /\ pc[th] = "enter" /\ lock \in {"free", th} /\ call[th] # "event"
      <4>1. UNCHANGED <<call, heap, next_heap_id>> /\ \A other \in Threads \ {th} : pc'[other] = pc[other] /\ part'[other] = part[other]
        BY <3>2 DEF Inside, Goto, ThreadTypes
      <4> QED
        BY <3>2, <4>1 DEF Taking, Writing
    <3>3. CASE Inside(th) /\ pc[th] = "enter" /\ lock \in {"free", th} /\ call[th] = "event"
      <4>1. \A other \in Threads \ {th} : pc'[other] = pc[other]
        BY <3>3 DEF Inside, Goto, ThreadTypes
      <4>2. \A other \in Threads \ {th} : ~Writing(other) /\ ~Writing(other)'
        BY <3>3, <4>1 DEF Exclusive, Inner, Labels, Writing
      <4>3. part[th] = "begin" /\ part'[th] = "begin" /\ pc'[th] = "reserve" /\ call'[th] = "event"
        BY <3>3 DEF Inside, Goto, ThreadTypes, Places
      <4>4. next_heap_id' = next_heap_id + 1 /\ heap'[th] = next_heap_id
        BY <3>3 DEF Inside, CounterTypes
      <4> QED
        BY <3>3, <4>2, <4>3, <4>4 DEF Taking, Writing
    <3> QED
      BY <1>8, <3>1, <3>2, <3>3 DEF Enter, Crash, At
  <2> QED
    BY <2>1, <2>2, <2>3, <2>4, <2>5, <2>6, <2>7 DEF Steady
<1>9. ASSUME NEW th \in Threads, Connect(th)
      PROVE  Steady
  <2>1. Good' => Good
    BY <1>9 DEF Connect, At, Goto, Good
  <2>2. Good' => Emitted' = Emitted
    <3>1. \A other \in Threads : pc'[other] = "flip" <=> pc[other] = "flip"
      BY <1>9 DEF Connect, At, Goto, ThreadTypes
    <3>2. UNCHANGED <<wire, buffers, write_offset, current_buffer>>
      BY <1>9 DEF Connect, At, Goto
    <3> QED
      BY <3>1, <3>2 DEF Emitted, Waiting, Pending
  <2>3. wire' = wire \/ (Good /\ \E k \in 0 .. Len(Emitted) : wire' = SubSeq(Emitted, 1, k))
    BY <1>9 DEF Connect, At, Goto
  <2>4. count' = count
    BY <1>9 DEF Connect, At, Goto
  <2>5. \A other \in Threads :
          (InEvent(other)' <=> InEvent(other)) /\ (InEvent(other) => Piece(other)' = Piece(other))
    BY <1>9 DEF Connect, At, Goto, InEvent, Piece, ThreadTypes, CounterTypes
  <2>6. Finishing' => Finishing
    BY <1>9 DEF Connect, At, Goto, Finishing, Places, ThreadTypes
  <2>7. /\ next_heap_id' = next_heap_id
        /\ \A other \in Threads :
             (Taking(other)' <=> Taking(other)) /\ (Taking(other) => heap'[other] = heap[other])
    BY <1>9 DEF Connect, At, Goto, Taking, Writing, ThreadTypes, CounterTypes
  <2> QED
    BY <2>1, <2>2, <2>3, <2>4, <2>5, <2>6, <2>7 DEF Steady
<1>10. ASSUME NEW th \in Threads, ConnectFails(th)
      PROVE  Steady
  <2>1. Good' => Good
    BY <1>10 DEF ConnectFails, ErrorShutdown, At, Goto, Good
  <2>2. Good' => Emitted' = Emitted
    <3>1. \A other \in Threads : pc'[other] = "flip" <=> pc[other] = "flip"
      BY <1>10 DEF ConnectFails, ErrorShutdown, At, Goto, ThreadTypes
    <3>2. UNCHANGED <<wire, buffers, write_offset, current_buffer>>
      BY <1>10 DEF ConnectFails, ErrorShutdown, At, Goto
    <3> QED
      BY <3>1, <3>2 DEF Emitted, Waiting, Pending
  <2>3. wire' = wire \/ (Good /\ \E k \in 0 .. Len(Emitted) : wire' = SubSeq(Emitted, 1, k))
    BY <1>10 DEF ConnectFails, ErrorShutdown, At, Goto
  <2>4. count' = count
    BY <1>10 DEF ConnectFails, ErrorShutdown, At, Goto
  <2>5. \A other \in Threads :
          (InEvent(other)' <=> InEvent(other)) /\ (InEvent(other) => Piece(other)' = Piece(other))
    BY <1>10 DEF ConnectFails, ErrorShutdown, At, Goto, InEvent, Piece, ThreadTypes, CounterTypes
  <2>6. Finishing' => Finishing
    BY <1>10 DEF ConnectFails, ErrorShutdown, At, Goto, Finishing, ThreadTypes
  <2>7. /\ next_heap_id' = next_heap_id
        /\ \A other \in Threads :
             (Taking(other)' <=> Taking(other)) /\ (Taking(other) => heap'[other] = heap[other])
    BY <1>10 DEF ConnectFails, ErrorShutdown, At, Goto, Taking, Writing, ThreadTypes, CounterTypes
  <2> QED
    BY <2>1, <2>2, <2>3, <2>4, <2>5, <2>6, <2>7 DEF Steady
<1>11. ASSUME NEW th \in Threads, Reserve(th)
      PROVE  Steady
  <2>1. Good' => Good
    BY <1>11 DEF Reserve, At, Goto, Good
  <2>2. Good' => Emitted' = Emitted
    <3>1. \A other \in Threads : pc'[other] = "flip" <=> pc[other] = "flip"
      BY <1>11 DEF Reserve, At, Goto, ThreadTypes
    <3>2. UNCHANGED <<wire, buffers, write_offset, current_buffer>>
      BY <1>11 DEF Reserve, At, Goto
    <3> QED
      BY <3>1, <3>2 DEF Emitted, Waiting, Pending
  <2>3. wire' = wire \/ (Good /\ \E k \in 0 .. Len(Emitted) : wire' = SubSeq(Emitted, 1, k))
    BY <1>11 DEF Reserve, At, Goto
  <2>4. count' = count
    BY <1>11 DEF Reserve, At, Goto
  <2>5. \A other \in Threads :
          (InEvent(other)' <=> InEvent(other)) /\ (InEvent(other) => Piece(other)' = Piece(other))
    BY <1>11 DEF Reserve, At, Goto, InEvent, Piece, ThreadTypes, CounterTypes
  <2>6. Finishing' => Finishing
    BY <1>11 DEF Reserve, At, Goto, Finishing, Places, ThreadTypes
  <2>7. /\ next_heap_id' = next_heap_id
        /\ \A other \in Threads :
             (Taking(other)' <=> Taking(other)) /\ (Taking(other) => heap'[other] = heap[other])
    BY <1>11 DEF Reserve, At, Goto, Taking, Writing, ThreadTypes, CounterTypes
  <2> QED
    BY <2>1, <2>2, <2>3, <2>4, <2>5, <2>6, <2>7 DEF Steady
<1>12. ASSUME NEW th \in Threads, Down(th)
      PROVE  Steady
  <2>1. Good' => Good
    BY <1>12 DEF Down, At, Goto, Good
  <2>2. Good' => Emitted' = Emitted
    <3>1. \A other \in Threads : pc'[other] = "flip" <=> pc[other] = "flip"
      BY <1>12 DEF Down, At, Goto, ThreadTypes
    <3>2. UNCHANGED <<wire, buffers, write_offset, current_buffer>>
      BY <1>12 DEF Down, At, Goto
    <3> QED
      BY <3>1, <3>2 DEF Emitted, Waiting, Pending
  <2>3. wire' = wire \/ (Good /\ \E k \in 0 .. Len(Emitted) : wire' = SubSeq(Emitted, 1, k))
    BY <1>12 DEF Down, At, Goto
  <2>4. count' = count
    BY <1>12 DEF Down, At, Goto
  <2>5. \A other \in Threads :
          (InEvent(other)' <=> InEvent(other)) /\ (InEvent(other) => Piece(other)' = Piece(other))
    BY <1>12 DEF Down, At, Goto, InEvent, Piece, ThreadTypes, CounterTypes
  <2>6. Finishing' => Finishing
    BY <1>12 DEF Down, At, Goto, Finishing, ThreadTypes
  <2>7. /\ next_heap_id' = next_heap_id
        /\ \A other \in Threads :
             (Taking(other)' <=> Taking(other)) /\ (Taking(other) => heap'[other] = heap[other])
    BY <1>12 DEF Down, At, Goto, Taking, Writing, ThreadTypes, CounterTypes
  <2> QED
    BY <2>1, <2>2, <2>3, <2>4, <2>5, <2>6, <2>7 DEF Steady
<1>13. ASSUME NEW th \in Threads, Send(th)
      PROVE  Steady
  <2>1. Good' => Good
    BY <1>13 DEF Send, Taken, Pending, At, Goto, Good
  <2>2. Good' => Emitted' = Emitted
    <3>1. pc[th] = "send" /\ \A other \in Threads : pc[other] # "flip"
      BY <1>13 DEF Send, At, Exclusive, Inner, Labels
    <3>2. pc'[th] = "flip"
      BY <1>13 DEF Send, Goto, ThreadTypes
    <3>3. Good' => wire' = wire \o Pending
      BY <1>13 DEF Send, Taken, Accepts, Good, Starting, At
    <3>4. Emitted = wire \o Pending /\ Waiting' = <<>>
      BY <3>1, <3>2 DEF Emitted, Waiting
    <3>5. wire \o Pending \in Seq(Pieces)
      BY PendingIs, ConcatProperties DEF BufferTypes
    <3>6. Emitted' = wire' \o <<>>
      BY <3>4 DEF Emitted
    <3> QED
      BY <3>3, <3>4, <3>5, <3>6, ConcatEmptySeq
  <2>3. wire' = wire \/ (Good /\ \E k \in 0 .. Len(Emitted) : wire' = SubSeq(Emitted, 1, k))
    <3>1. \A other \in Threads : pc[other] # "flip"
      BY <1>13 DEF Send, At, Exclusive, Inner, Labels
    <3>2. wire' = wire \/ (Good /\ wire' = wire \o Pending)
      BY <1>13 DEF Send, Taken, Accepts, Good
    <3>3. wire \o Pending = SubSeq(Emitted, 1, Len(Emitted)) /\ Len(Emitted) \in 0 .. Len(Emitted)
      BY <3>1, EmittedIs, Beginning, SeqEqual DEF Emitted, Waiting
    <3> QED
      BY <3>2, <3>3
  <2>4. count' = count
    BY <1>13 DEF Send, Taken, Pending, At, Goto
  <2>5. \A other \in Threads :
          (InEvent(other)' <=> InEvent(other)) /\ (InEvent(other) => Piece(other)' = Piece(other))
    BY <1>13 DEF Send, Taken, Pending, At, Goto, InEvent, Piece, ThreadTypes, CounterTypes
  <2>6. Finishing' => Finishing
    BY <1>13 DEF Send, Taken, Pending, At, Goto, Finishing, ThreadTypes
  <2>7. /\ next_heap_id' = next_heap_id
        /\ \A other \in Threads :
             (Taking(other)' <=> Taking(other)) /\ (Taking(other) => heap'[other] = heap[other])
    BY <1>13 DEF Send, Taken, Pending, At, Goto, Taking, Writing, ThreadTypes, CounterTypes
  <2> QED
    BY <2>1, <2>2, <2>3, <2>4, <2>5, <2>6, <2>7 DEF Steady
<1>14. ASSUME NEW th \in Threads, SendPartially(th)
      PROVE  Steady
  <2>1. Good' => Good
    BY <1>14 DEF SendPartially, ErrorShutdown, Accepts, At, Goto, Good
  <2>2. Good' => Emitted' = Emitted
    BY <1>14 DEF SendPartially, ErrorShutdown, Good, Starting, At
  <2>3. wire' = wire \/ (Good /\ \E k \in 0 .. Len(Emitted) : wire' = SubSeq(Emitted, 1, k))
    <3>1. \A other \in Threads : pc[other] # "flip"
      BY <1>14 DEF SendPartially, At, Exclusive, Inner, Labels
    <3>2. Emitted = wire \o Pending
      BY <3>1 DEF Emitted, Waiting
    <3>3. PICK n \in 0 .. (write_offset - 1) : wire' = wire \o SubSeq(Pending, 1, n)
      BY <1>14 DEF SendPartially
    <3>4. Good
      BY <1>14 DEF SendPartially, Accepts, Good
    <3>5. wire \o SubSeq(Pending, 1, n) = SubSeq(Emitted, 1, Len(wire) + n)
      <4>1. wire \in Seq(Pieces) /\ Pending \in Seq(Pieces) /\ n \in 0 .. Len(Pending)
        BY PendingIs DEF BufferTypes
      <4> QED
        BY <3>2, <4>1, PartOfConcat
    <3>6. Len(wire) + n \in 0 .. Len(Emitted)
      BY <3>2, PendingIs, ConcatProperties DEF BufferTypes
    <3> QED
      BY <3>3, <3>4, <3>5, <3>6
  <2>4. count' = count
    BY <1>14 DEF SendPartially, ErrorShutdown, Pending, At, Goto
  <2>5. \A other \in Threads :
          (InEvent(other)' <=> InEvent(other)) /\ (InEvent(other) => Piece(other)' = Piece(other))
    BY <1>14 DEF SendPartially, ErrorShutdown, Pending, At, Goto, InEvent, Piece, ThreadTypes, CounterTypes
  <2>6. Finishing' => Finishing
    BY <1>14 DEF SendPartially, ErrorShutdown, Pending, At, Goto, Finishing, ThreadTypes
  <2>7. /\ next_heap_id' = next_heap_id
        /\ \A other \in Threads :
             (Taking(other)' <=> Taking(other)) /\ (Taking(other) => heap'[other] = heap[other])
    BY <1>14 DEF SendPartially, ErrorShutdown, Pending, At, Goto, Taking, Writing, ThreadTypes, CounterTypes
  <2> QED
    BY <2>1, <2>2, <2>3, <2>4, <2>5, <2>6, <2>7 DEF Steady
<1>15. ASSUME NEW th \in Threads, Flip(th)
      PROVE  Steady
  <2>1. Good' => Good
    BY <1>15 DEF Flip, At, Goto, Good
  <2>2. Good' => Emitted' = Emitted
    <3>1. pc[th] = "flip" /\ \A other \in Threads \ {th} : pc[other] # "flip"
      BY <1>15 DEF Flip, At, Exclusive, Inner, Labels
    <3>2. \A other \in Threads : pc'[other] # "flip"
      BY <1>15, <3>1 DEF Flip, Goto, ThreadTypes
    <3>3. wire' = wire /\ write_offset' = 0
      BY <1>15 DEF Flip
    <3>4. Waiting = <<>> /\ Pending' = <<>>
      BY <3>1, <3>3 DEF Waiting, Pending
    <3> QED
      BY <3>2, <3>3, <3>4 DEF Emitted, Waiting
  <2>3. wire' = wire \/ (Good /\ \E k \in 0 .. Len(Emitted) : wire' = SubSeq(Emitted, 1, k))
    BY <1>15 DEF Flip, At, Goto
  <2>4. count' = count
    BY <1>15 DEF Flip, At, Goto
  <2>5. \A other \in Threads :
          (InEvent(other)' <=> InEvent(other)) /\ (InEvent(other) => Piece(other)' = Piece(other))
    BY <1>15 DEF Flip, At, Goto, InEvent, Piece, ThreadTypes, CounterTypes
  <2>6. Finishing' => Finishing
    BY <1>15 DEF Flip, At, Goto, Finishing, ThreadTypes
  <2>7. /\ next_heap_id' = next_heap_id
        /\ \A other \in Threads :
             (Taking(other)' <=> Taking(other)) /\ (Taking(other) => heap'[other] = heap[other])
    BY <1>15 DEF Flip, At, Goto, Taking, Writing, ThreadTypes, CounterTypes
  <2> QED
    BY <2>1, <2>2, <2>3, <2>4, <2>5, <2>6, <2>7 DEF Steady
<1>16. ASSUME NEW th \in Threads, Listen(th)
      PROVE  Steady
  <2>1. Good' => Good
    BY <1>16, ListenMoves DEF Good
  <2>2. Good' => Emitted' = Emitted
    <3>1. \A other \in Threads : pc'[other] = "flip" <=> pc[other] = "flip"
      BY <1>16, ListenMoves DEF ThreadTypes
    <3>2. UNCHANGED <<wire, buffers, write_offset, current_buffer>>
      BY <1>16, ListenMoves
    <3> QED
      BY <3>1, <3>2 DEF Emitted, Waiting, Pending
  <2>3. wire' = wire \/ (Good /\ \E k \in 0 .. Len(Emitted) : wire' = SubSeq(Emitted, 1, k))
    BY <1>16, ListenMoves
  <2>4. count' = count
    BY <1>16, ListenMoves
  <2>5. \A other \in Threads :
          (InEvent(other)' <=> InEvent(other)) /\ (InEvent(other) => Piece(other)' = Piece(other))
    BY <1>16, ListenMoves DEF InEvent, Piece, ThreadTypes, CounterTypes
  <2>6. Finishing' => Finishing
    BY <1>16, ListenMoves DEF Finishing, ThreadTypes
  <2>7. /\ next_heap_id' = next_heap_id
        /\ \A other \in Threads :
             (Taking(other)' <=> Taking(other)) /\ (Taking(other) => heap'[other] = heap[other])
    BY <1>16, ListenMoves DEF Taking, Writing, ThreadTypes, CounterTypes
  <2> QED
    BY <2>1, <2>2, <2>3, <2>4, <2>5, <2>6, <2>7 DEF Steady
<1>17. ASSUME NEW th \in Threads, NullFunction(th)
      PROVE  Steady
  <2>1. Good' => Good
    BY <1>17 DEF NullFunction, Crash, At, Good
  <2>2. Good' => Emitted' = Emitted
    <3>1. \A other \in Threads : pc'[other] = "flip" <=> pc[other] = "flip"
      BY <1>17 DEF NullFunction, Crash, At, ThreadTypes
    <3>2. UNCHANGED <<wire, buffers, write_offset, current_buffer>>
      BY <1>17 DEF NullFunction, Crash, At
    <3> QED
      BY <3>1, <3>2 DEF Emitted, Waiting, Pending
  <2>3. wire' = wire \/ (Good /\ \E k \in 0 .. Len(Emitted) : wire' = SubSeq(Emitted, 1, k))
    BY <1>17 DEF NullFunction, Crash, At
  <2>4. count' = count
    BY <1>17 DEF NullFunction, Crash, At
  <2>5. \A other \in Threads :
          (InEvent(other)' <=> InEvent(other)) /\ (InEvent(other) => Piece(other)' = Piece(other))
    BY <1>17 DEF NullFunction, Crash, At, InEvent, Piece, ThreadTypes, CounterTypes
  <2>6. Finishing' => Finishing
    BY <1>17 DEF NullFunction, Crash, At, Finishing, ThreadTypes
  <2>7. /\ next_heap_id' = next_heap_id
        /\ \A other \in Threads :
             (Taking(other)' <=> Taking(other)) /\ (Taking(other) => heap'[other] = heap[other])
    BY <1>17 DEF NullFunction, Crash, At, Taking, Writing, ThreadTypes, CounterTypes
  <2> QED
    BY <2>1, <2>2, <2>3, <2>4, <2>5, <2>6, <2>7 DEF Steady
<1>18. ASSUME NEW th \in Threads, Sync(th)
      PROVE  Steady
  <2>1. Good' => Good
    BY <1>18 DEF Sync, At, Goto, Good
  <2>2. Good' => Emitted' = Emitted
    <3>1. \A other \in Threads : pc'[other] = "flip" <=> pc[other] = "flip"
      BY <1>18 DEF Sync, At, Goto, ThreadTypes
    <3>2. UNCHANGED <<wire, buffers, write_offset, current_buffer>>
      BY <1>18 DEF Sync, At, Goto
    <3> QED
      BY <3>1, <3>2 DEF Emitted, Waiting, Pending
  <2>3. wire' = wire \/ (Good /\ \E k \in 0 .. Len(Emitted) : wire' = SubSeq(Emitted, 1, k))
    BY <1>18 DEF Sync, At, Goto
  <2>4. count' = count
    BY <1>18 DEF Sync, At, Goto
  <2>5. \A other \in Threads :
          (InEvent(other)' <=> InEvent(other)) /\ (InEvent(other) => Piece(other)' = Piece(other))
    BY <1>18 DEF Sync, At, Goto, InEvent, Piece, ThreadTypes, CounterTypes
  <2>6. Finishing' => Finishing
    BY <1>18 DEF Sync, At, Goto, Finishing, Places, MainDoes, ThreadTypes
  <2>7. /\ next_heap_id' = next_heap_id
        /\ \A other \in Threads :
             (Taking(other)' <=> Taking(other)) /\ (Taking(other) => heap'[other] = heap[other])
    BY <1>18 DEF Sync, At, Goto, Taking, Writing, ThreadTypes, CounterTypes
  <2> QED
    BY <2>1, <2>2, <2>3, <2>4, <2>5, <2>6, <2>7 DEF Steady
<1>19. ASSUME NEW th \in Threads, Leave(th)
      PROVE  Steady
  <2>1. Good' => Good
    BY <1>19 DEF Leave, Return, Crash, At, Goto, Good
  <2>2. Good' => Emitted' = Emitted
    <3>1. \A other \in Threads : pc'[other] = "flip" <=> pc[other] = "flip"
      BY <1>19 DEF Leave, Return, Crash, At, Goto, ThreadTypes
    <3>2. UNCHANGED <<wire, buffers, write_offset, current_buffer>>
      BY <1>19 DEF Leave, Return, Crash, At, Goto
    <3> QED
      BY <3>1, <3>2 DEF Emitted, Waiting, Pending
  <2>3. wire' = wire \/ (Good /\ \E k \in 0 .. Len(Emitted) : wire' = SubSeq(Emitted, 1, k))
    BY <1>19 DEF Leave, Return, Crash, At, Goto
  <2>4. count' = count
    BY <1>19 DEF Leave, Return, Crash, At, Goto
  <2>5. \A other \in Threads :
          (InEvent(other)' <=> InEvent(other)) /\ (InEvent(other) => Piece(other)' = Piece(other))
    BY <1>19 DEF Leave, Return, Crash, At, Goto, InEvent, Piece, ThreadTypes, CounterTypes
  <2>6. Finishing' => Finishing
    BY <1>19 DEF Leave, Return, Crash, At, Goto, Finishing, ThreadTypes
  <2>7. /\ next_heap_id' = next_heap_id
        /\ \A other \in Threads :
             (Taking(other)' <=> Taking(other)) /\ (Taking(other) => heap'[other] = heap[other])
    BY <1>19 DEF Leave, Return, Crash, At, Goto, Taking, Writing, ThreadTypes, CounterTypes
  <2> QED
    BY <2>1, <2>2, <2>3, <2>4, <2>5, <2>6, <2>7 DEF Steady
<1>20. ASSUME NEW message \in {"pause", "resume"}, PeerWrites(message)
      PROVE  Steady
  <2>1. Good' => Good
    BY <1>20 DEF PeerWrites, Good
  <2>2. Good' => Emitted' = Emitted
    <3>1. \A other \in Threads : pc'[other] = "flip" <=> pc[other] = "flip"
      BY <1>20 DEF PeerWrites, ThreadTypes
    <3>2. UNCHANGED <<wire, buffers, write_offset, current_buffer>>
      BY <1>20 DEF PeerWrites
    <3> QED
      BY <3>1, <3>2 DEF Emitted, Waiting, Pending
  <2>3. wire' = wire \/ (Good /\ \E k \in 0 .. Len(Emitted) : wire' = SubSeq(Emitted, 1, k))
    BY <1>20 DEF PeerWrites
  <2>4. count' = count
    BY <1>20 DEF PeerWrites
  <2>5. \A other \in Threads :
          (InEvent(other)' <=> InEvent(other)) /\ (InEvent(other) => Piece(other)' = Piece(other))
    BY <1>20 DEF PeerWrites, InEvent, Piece, ThreadTypes, CounterTypes
  <2>6. Finishing' => Finishing
    BY <1>20 DEF PeerWrites, Finishing, ThreadTypes
  <2>7. /\ next_heap_id' = next_heap_id
        /\ \A other \in Threads :
             (Taking(other)' <=> Taking(other)) /\ (Taking(other) => heap'[other] = heap[other])
    BY <1>20 DEF PeerWrites, Taking, Writing, ThreadTypes, CounterTypes
  <2> QED
    BY <2>1, <2>2, <2>3, <2>4, <2>5, <2>6, <2>7 DEF Steady
<1>21. ASSUME PeerGoes
      PROVE  Steady
  <2>1. Good' => Good
    BY <1>21 DEF PeerGoes, Good
  <2>2. Good' => Emitted' = Emitted
    <3>1. \A other \in Threads : pc'[other] = "flip" <=> pc[other] = "flip"
      BY <1>21 DEF PeerGoes, ThreadTypes
    <3>2. UNCHANGED <<wire, buffers, write_offset, current_buffer>>
      BY <1>21 DEF PeerGoes
    <3> QED
      BY <3>1, <3>2 DEF Emitted, Waiting, Pending
  <2>3. wire' = wire \/ (Good /\ \E k \in 0 .. Len(Emitted) : wire' = SubSeq(Emitted, 1, k))
    BY <1>21 DEF PeerGoes
  <2>4. count' = count
    BY <1>21 DEF PeerGoes
  <2>5. \A other \in Threads :
          (InEvent(other)' <=> InEvent(other)) /\ (InEvent(other) => Piece(other)' = Piece(other))
    BY <1>21 DEF PeerGoes, InEvent, Piece, ThreadTypes, CounterTypes
  <2>6. Finishing' => Finishing
    BY <1>21 DEF PeerGoes, Finishing, ThreadTypes
  <2>7. /\ next_heap_id' = next_heap_id
        /\ \A other \in Threads :
             (Taking(other)' <=> Taking(other)) /\ (Taking(other) => heap'[other] = heap[other])
    BY <1>21 DEF PeerGoes, Taking, Writing, ThreadTypes, CounterTypes
  <2> QED
    BY <2>1, <2>2, <2>3, <2>4, <2>5, <2>6, <2>7 DEF Steady
<1>22. ASSUME UNCHANGED vars
      PROVE  Steady
  <2>1. Good' => Good
    BY <1>22 DEF vars, Good
  <2>2. Good' => Emitted' = Emitted
    <3>1. \A other \in Threads : pc'[other] = "flip" <=> pc[other] = "flip"
      BY <1>22 DEF vars, ThreadTypes
    <3>2. UNCHANGED <<wire, buffers, write_offset, current_buffer>>
      BY <1>22 DEF vars
    <3> QED
      BY <3>1, <3>2 DEF Emitted, Waiting, Pending
  <2>3. wire' = wire \/ (Good /\ \E k \in 0 .. Len(Emitted) : wire' = SubSeq(Emitted, 1, k))
    BY <1>22 DEF vars
  <2>4. count' = count
    BY <1>22 DEF vars
  <2>5. \A other \in Threads :
          (InEvent(other)' <=> InEvent(other)) /\ (InEvent(other) => Piece(other)' = Piece(other))
    BY <1>22 DEF vars, InEvent, Piece, ThreadTypes, CounterTypes
  <2>6. Finishing' => Finishing
    BY <1>22 DEF vars, Finishing, ThreadTypes
  <2>7. /\ next_heap_id' = next_heap_id
        /\ \A other \in Threads :
             (Taking(other)' <=> Taking(other)) /\ (Taking(other) => heap'[other] = heap[other])
    BY <1>22 DEF vars, Taking, Writing, ThreadTypes, CounterTypes
  <2> QED
    BY <2>1, <2>2, <2>3, <2>4, <2>5, <2>6, <2>7 DEF Steady
<1>23. ASSUME NEW th \in Threads, Destroy(th)
      PROVE  Steady
  <2>1. Good' => Good
    BY <1>23 DEF Destroy, At, Goto, Good
  <2>2. Good' => Emitted' = Emitted
    <3>1. \A other \in Threads : pc'[other] = "flip" <=> pc[other] = "flip"
      BY <1>23 DEF Destroy, At, Goto, ThreadTypes
    <3>2. UNCHANGED <<wire, buffers, write_offset, current_buffer>>
      BY <1>23 DEF Destroy, At, Goto
    <3> QED
      BY <3>1, <3>2 DEF Emitted, Waiting, Pending
  <2>3. wire' = wire \/ (Good /\ \E k \in 0 .. Len(Emitted) : wire' = SubSeq(Emitted, 1, k))
    BY <1>23 DEF Destroy, At, Goto
  <2>4. count' = count
    BY <1>23 DEF Destroy, At, Goto
  <2>5. \A other \in Threads :
          (InEvent(other)' <=> InEvent(other)) /\ (InEvent(other) => Piece(other)' = Piece(other))
    BY <1>23 DEF Destroy, At, Goto, InEvent, Piece, ThreadTypes
  <2>6. Finishing' => Finishing
    BY <1>23 DEF Destroy, At, Goto, Finishing, ThreadTypes
  <2>7. /\ next_heap_id' = next_heap_id
        /\ \A other \in Threads :
             (Taking(other)' <=> Taking(other)) /\ (Taking(other) => heap'[other] = heap[other])
    BY <1>23 DEF Destroy, At, Goto, Taking, Writing, ThreadTypes
  <2> QED
    BY <2>1, <2>2, <2>3, <2>4, <2>5, <2>6, <2>7 DEF Steady
<1>24. ASSUME PeerStalls
      PROVE  Steady
  <2>1. Good' => Good
    BY <1>24 DEF PeerStalls, Good
  <2>2. Good' => Emitted' = Emitted
    <3>1. \A other \in Threads : pc'[other] = "flip" <=> pc[other] = "flip"
      BY <1>24 DEF PeerStalls, ThreadTypes
    <3>2. UNCHANGED <<wire, buffers, write_offset, current_buffer>>
      BY <1>24 DEF PeerStalls
    <3> QED
      BY <3>1, <3>2 DEF Emitted, Waiting, Pending
  <2>3. wire' = wire \/ (Good /\ \E k \in 0 .. Len(Emitted) : wire' = SubSeq(Emitted, 1, k))
    BY <1>24 DEF PeerStalls
  <2>4. count' = count
    BY <1>24 DEF PeerStalls
  <2>5. \A other \in Threads :
          (InEvent(other)' <=> InEvent(other)) /\ (InEvent(other) => Piece(other)' = Piece(other))
    BY <1>24 DEF PeerStalls, InEvent, Piece, ThreadTypes
  <2>6. Finishing' => Finishing
    BY <1>24 DEF PeerStalls, Finishing, ThreadTypes
  <2>7. /\ next_heap_id' = next_heap_id
        /\ \A other \in Threads :
             (Taking(other)' <=> Taking(other)) /\ (Taking(other) => heap'[other] = heap[other])
    BY <1>24 DEF PeerStalls, Taking, Writing, ThreadTypes
  <2> QED
    BY <2>1, <2>2, <2>3, <2>4, <2>5, <2>6, <2>7 DEF Steady
<1> QED
  BY <1>1, <1>2, <1>3, <1>4, <1>5, <1>6, <1>7, <1>8, <1>9, <1>10, <1>11, <1>12, <1>13, <1>14, <1>15,
     <1>16, <1>17, <1>18, <1>19, <1>20, <1>21, <1>22, <1>23, <1>24 DEF Next, Step, Program

\* What a Commit adds.
LEMMA CommitMoves ==
  ASSUME Control, NEW th \in Threads, Commit(th)
  PROVE  /\ Emitted' = Append(Emitted, Piece(th)) /\ Piece(th) \in Pieces
         /\ UNCHANGED <<wire, next_heap_id, heap, call, socket, started, transport>>
         /\ pc[th] = "commit"
         /\ \A other \in Threads \ {th} : ~(pc[other] \in Inner) /\ ~(pc'[other] \in Inner)
         /\ \/ /\ part[th] = "begin" /\ part'[th] = "end" /\ pc'[th] = "reserve"
               /\ count' = count
            \/ /\ part[th] = "end" /\ part'[th] = "end"
               /\ pc'[th] = (IF call[th] = "shutdown" THEN "down" ELSE "leave")
               /\ count' = count + 1
<1> USE DEF Control
<1>1. pc[th] = "commit" /\ pc[th] \in Inner
  BY DEF Commit, At, Inner, Labels
<1>2. UNCHANGED <<wire, next_heap_id, heap, call, socket, started, transport>>
  BY DEF Commit, outputs, ids, bounds
<1>3. part[th] \in {"begin", "end"} /\ call[th] \in AllCalls \ {"shrink core"}
  BY <1>1 DEF Places, ThreadTypes, AllCalls
<1>4. Piece(th) \in Pieces
  <2>1. count \in Nat /\ heap[th] \in Nat
    BY DEF CounterTypes
  <2> QED
    BY <1>3, <2>1 DEF Piece, Pieces
<1>5. \A other \in Threads \ {th} : ~(pc[other] \in Inner) /\ ~(pc'[other] \in Inner)
  <2>1. \A other \in Threads \ {th} : pc'[other] = pc[other]
    BY DEF Commit, Goto, ThreadTypes
  <2> QED
    BY <1>1, <2>1 DEF Exclusive
<1>6. \/ /\ part[th] = "begin" /\ part'[th] = "end" /\ pc'[th] = "reserve"
         /\ count' = count
      \/ /\ part[th] = "end" /\ part'[th] = "end"
         /\ pc'[th] = (IF call[th] = "shutdown" THEN "down" ELSE "leave")
         /\ count' = count + 1
  BY <1>3 DEF Commit, Goto, ThreadTypes
<1>7. Emitted' = Append(Emitted, Piece(th))
  <2>1. /\ \A other \in Threads : pc[other] # "flip" /\ pc'[other] # "flip"
    BY <1>1, <1>5, <1>6 DEF Inner, Labels
  <2>2. Emitted = wire \o Pending /\ Emitted' = wire \o Pending'
    BY <1>2, <2>1 DEF Emitted, Waiting
  <2>3. /\ slot[th].buffer = current_buffer /\ slot[th].at = write_offset
        /\ write_offset \in 0 .. (BufferSize - 1)
    BY <1>1 DEF Offsets, BufferTypes
  <2>4. /\ buffers' = [buffers EXCEPT ![current_buffer][write_offset + 1] = Piece(th)]
        /\ write_offset' = write_offset + 1 /\ current_buffer' = current_buffer
    BY <2>3 DEF Commit
  <2>5. buffers'[current_buffer] = [buffers[current_buffer] EXCEPT ![write_offset + 1] = Piece(th)]
    BY <2>4 DEF BufferTypes
  <2>6. buffers[current_buffer] \in [1 .. BufferSize -> Pieces]
    BY DEF BufferTypes
  <2>7. BufferTypes'
    <3>1. [Next]_vars
      BY DEF Next, Step
    <3> QED
      BY <3>1, ControlNext
  <2>8. /\ Pending' \in Seq(Pieces) /\ Len(Pending') = write_offset + 1
        /\ \A i \in 1 .. (write_offset + 1) : Pending'[i] = buffers'[current_buffer][i]
    <3>1. buffers'[current_buffer'] \in [1 .. BufferSize -> Pieces] /\ write_offset' \in 0 .. BufferSize
      BY <2>7 DEF BufferTypes
    <3> QED
      BY <2>4, <3>1, FrontIs DEF Pending
  <2>9. Pending' = Append(Pending, Piece(th))
    <3>1. /\ Append(Pending, Piece(th)) \in Seq(Pieces)
          /\ Len(Append(Pending, Piece(th))) = write_offset + 1
          /\ \A i \in 1 .. write_offset : Append(Pending, Piece(th))[i] = buffers[current_buffer][i]
          /\ Append(Pending, Piece(th))[write_offset + 1] = Piece(th)
      BY <1>4, PendingIs, OneMore
    <3>2. \A i \in 1 .. (write_offset + 1) : Pending'[i] = Append(Pending, Piece(th))[i]
      BY <2>3, <2>5, <2>6, <2>8, <3>1
    <3> QED
      BY <2>8, <3>1, <3>2, SeqEqual
  <2>10. wire \in Seq(Pieces) /\ Pending \in Seq(Pieces) /\ <<Piece(th)>> \in Seq(Pieces)
    BY <1>4, PendingIs DEF BufferTypes
  <2>11. Emitted' = wire \o (Pending \o <<Piece(th)>>)
    BY <1>4, <2>2, <2>9, <2>10, AppendIsConcat
  <2>12. wire \o (Pending \o <<Piece(th)>>) = (wire \o Pending) \o <<Piece(th)>>
    BY <2>10, ConcatAssociative
  <2>13. Append(wire \o Pending, Piece(th)) = (wire \o Pending) \o <<Piece(th)>>
    BY <1>4, <2>10, AppendIsConcat, ConcatProperties
  <2> QED
    BY <2>2, <2>11, <2>12, <2>13
<1> QED
  BY <1>1, <1>2, <1>4, <1>5, <1>6, <1>7

LEMMA StreamInit == Init => Stream
<1> SUFFICES ASSUME Init
             PROVE  Stream
  OBVIOUS
<1>1. Control
  BY ControlInit
<1>2. wire = <<>> /\ write_offset = 0 /\ count = 0 /\ next_heap_id = 0 /\ socket = "zero"
  BY DEF Init
<1>3. \A th \in Threads : pc[th] = "idle" /\ call[th] = "none"
  BY DEF Init
<1>4. Emitted = <<>>
  BY <1>2, <1>3 DEF Emitted, Waiting, Pending
<1>5. Created(<<>>) = {} /\ Cardinality({}) = 0
  BY FS_EmptySet DEF Created
<1>6. Whole(<<>>) /\ InOrder(<<>>)
  BY <1>5 DEF Whole, InOrder
<1>7. \A th \in Threads : ~InEvent(th) /\ ~Taking(th)
  BY <1>3 DEF InEvent, Taking
<1>8. ~Finishing
  BY <1>2, <1>3 DEF Finishing
<1>9. StreamIntact /\ HeapIdsInOrder
  BY <1>2, <1>6 DEF StreamIntact, HeapIdsInOrder
<1>10. Numbered
  BY <1>2, <1>4, <1>6, <1>7 DEF Numbered
<1>11. Given
  <2>1. Cardinality(Created(Emitted)) = 0
    BY <1>4, <1>5
  <2> QED
    BY <1>2, <1>4, <1>6, <1>7, <2>1 DEF Given
<1> QED
  BY <1>8, <1>9, <1>10, <1>11 DEF Stream, Finished

LEMMA StreamSteady ==
  ASSUME Control, Stream, Steady
  PROVE  Stream'
<1>1. StreamIntact' /\ HeapIdsInOrder'
  <2>1. CASE wire' = wire
    BY <2>1 DEF Stream, StreamIntact, HeapIdsInOrder
  <2>2. ASSUME Good, NEW k \in 0 .. Len(Emitted), wire' = SubSeq(Emitted, 1, k)
        PROVE  Whole(wire') /\ InOrder(wire')
    <3>1. Whole(Emitted) /\ InOrder(Emitted) /\ Emitted \in Seq(Pieces)
      BY <2>2, EmittedIs DEF Stream, Numbered, Given, Control
    <3> QED
      BY <2>2, <3>1, WholeBeginning, InOrderBeginning
  <2> QED
    BY <2>1, <2>2 DEF Steady, StreamIntact, HeapIdsInOrder
<1>2. SUFFICES ASSUME Good'
               PROVE  Numbered' /\ Given' /\ Finished'
  BY <1>1 DEF Stream, Numbered, Given, Finished
<1>3. Good /\ Emitted' = Emitted /\ count' = count
  BY <1>2 DEF Steady
<1>4. Numbered'
  <2>1. \A th \in Threads :
          (InEvent(th)' <=> InEvent(th)) /\ (InEvent(th) => Piece(th)' = Piece(th))
    BY DEF Steady
  <2>2. /\ Whole(Emitted)
        /\ Len(Emitted) = 2 * count + (IF \E th \in Threads : InEvent(th) THEN 1 ELSE 0)
        /\ \A th \in Threads :
             InEvent(th) => Emitted[Len(Emitted)] = [Piece(th) EXCEPT !.part = "begin"]
    BY <1>3 DEF Stream, Numbered
  <2> QED
    BY <1>3, <2>1, <2>2 DEF Numbered
<1>5. Given'
  <2> DEFINE given == Cardinality(Created(Emitted))
  <2>1. /\ InOrder(Emitted)
        /\ next_heap_id = given + (IF \E th \in Threads : Taking(th) THEN 1 ELSE 0)
        /\ \A th \in Threads : Taking(th) => heap[th] = given
    BY <1>3 DEF Stream, Given
  <2>2. given' = given
    BY <1>3
  <2>3. given \in Nat
    BY EmittedIs, CreatedFinite DEF Control
  <2> HIDE DEF given
  <2>4. SUFFICES /\ next_heap_id' = given + (IF \E th \in Threads : Taking(th)' THEN 1 ELSE 0)
                 /\ \A th \in Threads : Taking(th)' => heap'[th] = given
    BY <1>3, <2>1, <2>2 DEF Given, given
  <2>5. CASE /\ next_heap_id' = next_heap_id
             /\ \A th \in Threads :
                  (Taking(th)' <=> Taking(th)) /\ (Taking(th) => heap'[th] = heap[th])
    BY <2>1, <2>5
  <2>6. ASSUME NEW th \in Threads,
               next_heap_id' = next_heap_id + 1, heap'[th] = next_heap_id,
               Taking(th)', ~Taking(th),
               \A other \in Threads \ {th} : ~Taking(other) /\ ~Taking(other)'
        PROVE  /\ next_heap_id' = given + (IF \E other \in Threads : Taking(other)' THEN 1 ELSE 0)
               /\ \A other \in Threads : Taking(other)' => heap'[other] = given
    <3>1. next_heap_id = given
      BY <2>1, <2>3, <2>6
    <3> QED
      BY <2>3, <2>6, <3>1
  <2> QED
    BY <2>5, <2>6 DEF Steady
<1>6. Finished'
  BY <1>3 DEF Steady, Stream, Finished
<1> QED
  BY <1>4, <1>5, <1>6

LEMMA StreamCommit ==
  ASSUME Control, Stream, NEW th \in Threads, Commit(th)
  PROVE  Stream'
<1> DEFINE p == Piece(th)
<1>1. StreamIntact' /\ HeapIdsInOrder'
  BY CommitMoves DEF Stream, StreamIntact, HeapIdsInOrder
<1>2. SUFFICES ASSUME Good'
               PROVE  Numbered' /\ Given' /\ Finished'
  BY <1>1 DEF Stream, Numbered, Given, Finished
<1>3. Good
  BY <1>2, CommitMoves DEF Good
<1>4. Emitted \in Seq(Pieces) /\ Len(Emitted) \in Nat /\ p \in Pieces /\ count \in Nat
  BY EmittedIs, CommitMoves DEF Control, CounterTypes
<1>5. /\ Emitted' = Append(Emitted, p) /\ Len(Emitted') = Len(Emitted) + 1
      /\ Emitted'[Len(Emitted) + 1] = p
  BY <1>4, CommitMoves, OneMore
<1>6. /\ \A other \in Threads \ {th} :
           ~InEvent(other) /\ ~InEvent(other)' /\ ~Taking(other) /\ ~Taking(other)'
  BY CommitMoves DEF InEvent, Taking, Writing, Inner, Labels
<1>7. Numbered'
  <2>1. CASE part[th] = "begin"
    <3>1. pc'[th] = "reserve" /\ part'[th] = "end" /\ count' = count
      BY <2>1, CommitMoves
    <3>2. ~InEvent(th) /\ InEvent(th)'
      BY <2>1, <3>1 DEF InEvent
    <3>3. Whole(Emitted) /\ Len(Emitted) = 2 * count
      BY <1>3, <1>4, <1>6, <3>2 DEF Stream, Numbered
    <3>4. p.part = "begin" /\ p.n = count
      BY <2>1 DEF Piece
    <3>5. Whole(Emitted')
      BY <1>4, <1>5, <3>3, <3>4, WholeBegin
    <3>6. Emitted'[Len(Emitted')] = [Piece(th)' EXCEPT !.part = "begin"]
      <4>1. [Piece(th)' EXCEPT !.part = "begin"] = p
        BY <2>1, <3>1, CommitMoves DEF Piece
      <4> QED
        BY <1>5, <4>1
    <3> QED
      BY <1>4, <1>5, <1>6, <3>1, <3>2, <3>3, <3>5, <3>6 DEF Numbered
  <2>2. CASE part[th] = "end"
    <3>1. pc'[th] \in {"down", "leave"} /\ count' = count + 1
      BY <2>2, CommitMoves
    <3>2. InEvent(th) /\ ~InEvent(th)'
      BY <2>2, <3>1, CommitMoves DEF InEvent
    <3>3. /\ Whole(Emitted) /\ Len(Emitted) = 2 * count + 1
          /\ Emitted[Len(Emitted)] = [p EXCEPT !.part = "begin"]
      BY <1>3, <1>4, <3>2 DEF Stream, Numbered
    <3>4. p.part = "end" /\ p.n = count
      BY <2>2 DEF Piece
    <3>5. Whole(Emitted')
      BY <1>4, <1>5, <3>3, <3>4, WholeEnd
    <3>6. Len(Emitted') = 2 * count' /\ ~\E other \in Threads : InEvent(other)'
      BY <1>4, <1>5, <1>6, <3>1, <3>2, <3>3
    <3> QED
      BY <3>1, <3>5, <3>6, <1>4 DEF Numbered
  <2> QED
    BY <2>1, <2>2, CommitMoves
<1>8. Given'
  <2> DEFINE given == Cardinality(Created(Emitted))
  <2>1. /\ InOrder(Emitted)
        /\ next_heap_id = given + (IF \E other \in Threads : Taking(other) THEN 1 ELSE 0)
        /\ \A other \in Threads : Taking(other) => heap[other] = given
    BY <1>3 DEF Stream, Given
  <2>2. given \in Nat
    BY <1>4, CreatedFinite
  <2>3. Creates(p) <=> Taking(th)
    BY CommitMoves DEF Creates, Piece, Taking, Writing
  <2>4. \A other \in Threads : ~Taking(other)'
    <3>1. ~Taking(th)'
      BY CommitMoves DEF Taking
    <3> QED
      BY <1>6, <3>1
  <2>5. p.heap = heap[th]
    BY DEF Piece
  <2>6. CASE Taking(th)
    <3>1. /\ Cardinality(Created(Emitted')) = given + 1 /\ InOrder(Emitted')
      BY <1>4, <1>5, <2>1, <2>3, <2>5, <2>6, CreatedMore
    <3>2. next_heap_id' = given + 1
      BY <2>1, <2>6, CommitMoves
    <3> QED
      BY <2>2, <2>4, <3>1, <3>2 DEF Given
  <2>7. CASE ~Taking(th)
    <3>1. /\ Created(Emitted') = Created(Emitted) /\ InOrder(Emitted')
      BY <1>4, <1>5, <2>1, <2>3, <2>7, CreatedMore
    <3>2. next_heap_id' = given
      BY <1>6, <2>1, <2>2, <2>7, CommitMoves
    <3> QED
      BY <2>2, <2>4, <3>1, <3>2 DEF Given
  <2> QED
    BY <2>6, <2>7
<1>9. Finished'
  <2>1. SUFFICES ASSUME Finishing'
                 PROVE  p.kind = "shutdown" /\ p.part = "end"
    BY <1>4, <1>5 DEF Finished
  <2>3. call[main] = "shutdown" /\ \/ pc'[main] = "down"
                                   \/ part'[main] = "flush" /\ pc'[main] \in Inner
    BY <2>1, CommitMoves DEF Finishing, Inner, Labels
  <2>4. th = main
    BY <2>3, CommitMoves DEF Inner, Labels
  <2>5. pc'[th] = "down" /\ part[th] = "end" /\ call[th] = "shutdown"
    BY <2>3, <2>4, CommitMoves
  <2> QED
    BY <2>5 DEF Piece
<1> QED
  BY <1>7, <1>8, <1>9

LEMMA StreamNext == Control /\ Stream /\ [Next]_vars => Stream'
BY OthersSteady, StreamSteady, StreamCommit

-----------------------------------------------------------------------------
(***************************************************************************)
(* Closing.  After Shutdown has closed the socket nothing is sent, no call *)
(* begins, and a thread that had waited for the lock writes its event into *)
(* a buffer that stays where it is.                                        *)
(***************************************************************************)
Shut == call[main] = "shutdown" /\ part[main] = "flush" => ~active

Socketed == socket \in {"open", "closed"} => transport = "socket"

Closed ==
  socket = "closed" =>
    /\ started /\ ~active
    /\ call[main] = "shutdown" /\ pc[main] \in {"leave", "destroy", "idle"}
    /\ \A th \in Threads \ {main} :
         pc[th] \in {"idle", "enter", "reserve", "commit", "send", "leave"}
    /\ Len(wire) > 0
    /\ wire[Len(wire)].kind = "shutdown" /\ wire[Len(wire)].part = "end"

\* A piece of a thread that had waited: it is done, or between its two pieces.
Late(p) ==
  /\ p.by \in Threads \ {main}
  /\ \/ pc[p.by] \in {"idle", "leave"}
     \/ p.part = "begin" /\ part[p.by] = "end" /\ pc[p.by] \in {"reserve", "commit", "send"}

BufferAt(i) == buffers[current_buffer][i]

Behind ==
  socket = "closed" =>
    \A i \in 1 .. write_offset :
      /\ Late(BufferAt(i))
      /\ \A j \in 1 .. (i - 1) : BufferAt(j).by = BufferAt(i).by => BufferAt(j).part # BufferAt(i).part

Closing == Shut /\ Socketed /\ Closed /\ Behind

LEMMA ClosingInit == Init => Closing
<1> SUFFICES ASSUME Init
             PROVE  Closing
  OBVIOUS
<1>1. socket = "zero" /\ call[main] = "none"
  BY DEF Init
<1> QED
  BY <1>1 DEF Closing, Shut, Socketed, Closed, Behind

LEMMA ShutNext == Control /\ Shut /\ [Next]_vars => Shut'
<1> SUFFICES ASSUME Control, Shut, [Next]_vars
             PROVE  Shut'
  OBVIOUS
<1> USE DEF Control, ThreadTypes, Shut, Goto, At, state, outputs, encoder, threads, ids, outside, bounds
<1>1. CASE InitFile \/ InitSocket \/ InitSocketAgain \/ Shutdown
  BY <1>1 DEF InitFile, InitSocket, InitCommon, InitSocketAgain, Shutdown, Begin
<1>2. CASE InitSocketFails
  BY <1>2 DEF InitSocketFails, ErrorShutdown
<1>3. ASSUME NEW th \in Threads, CallEvent(th) \/ Flush(th)
      PROVE  Shut'
  BY <1>3 DEF CallEvent, Flush, Begin
<1>4. ASSUME NEW th \in Threads, Enter(th)
      PROVE  Shut'
  BY <1>4 DEF Enter, Inside, Crash
<1>5. ASSUME NEW th \in Threads, Connect(th) \/ Reserve(th) \/ Down(th)
      PROVE  Shut'
  BY <1>5 DEF Connect, Reserve, Down
<1>6. ASSUME NEW th \in Threads, ConnectFails(th) \/ SendPartially(th)
      PROVE  Shut'
  BY <1>6 DEF ConnectFails, SendPartially, ErrorShutdown
<1>7. ASSUME NEW th \in Threads, Commit(th)
      PROVE  Shut'
  BY <1>7 DEF Commit
<1>8. ASSUME NEW th \in Threads, Send(th) \/ Flip(th) \/ NullFunction(th) \/ Sync(th)
      PROVE  Shut'
  BY <1>8 DEF Send, Flip, NullFunction, Crash, Sync
<1>9. ASSUME NEW th \in Threads, Listen(th)
      PROVE  Shut'
  BY <1>9, ListenMoves
<1>10. ASSUME NEW th \in Threads, Leave(th) \/ Destroy(th)
       PROVE  Shut'
  BY <1>10 DEF Leave, Return, Crash, Destroy
<1>11. ASSUME NEW message, PeerWrites(message)
       PROVE  Shut'
  BY <1>11 DEF PeerWrites
<1>12. CASE PeerStalls \/ PeerGoes \/ UNCHANGED vars
  BY <1>12 DEF PeerStalls, PeerGoes, vars
<1> QED
  BY <1>1, <1>2, <1>3, <1>4, <1>5, <1>6, <1>7, <1>8, <1>9, <1>10, <1>11, <1>12
     DEF Next, Step, Program

\* Which steps make or leave a socket open or closed.
LEMMA SocketMoves ==
  ASSUME Control, [Next]_vars, socket' \in {"open", "closed"}
  PROVE  /\ transport' = transport
         /\ \/ socket' = socket
            \/ socket' = "open" /\ transport = "socket"
            \/ \E th \in Threads : Sync(th) /\ call[th] = "shutdown" /\ socket = "open"
<1> USE DEF Control, state, outputs, encoder, threads, ids, outside, bounds
<1>1. ~InitFile /\ ~InitSocket /\ ~InitSocketFails
  BY DEF InitFile, InitSocket, InitSocketFails, InitCommon, ErrorShutdown
<1>2. CASE InitSocketAgain \/ Shutdown
  BY <1>2 DEF InitSocketAgain, Shutdown
<1>3. ASSUME NEW th \in Threads, CallEvent(th) \/ Flush(th) \/ Enter(th) \/ Connect(th) \/ Reserve(th)
      PROVE  socket' = socket /\ transport' = transport
  BY <1>3 DEF CallEvent, Flush, Enter, Inside, Crash, Connect, Reserve
<1>4. ASSUME NEW th \in Threads, Commit(th) \/ Down(th) \/ Send(th) \/ Flip(th) \/ NullFunction(th)
      PROVE  socket' = socket /\ transport' = transport
  BY <1>4 DEF Commit, Down, Send, Taken, Flip, NullFunction, Crash
<1>5. ASSUME NEW th \in Threads, Listen(th)
      PROVE  socket' = socket /\ transport' = transport
  BY <1>5, ListenMoves
<1>6. \A th \in Threads : ~ConnectFails(th) /\ ~SendPartially(th)
  BY DEF ConnectFails, SendPartially, ErrorShutdown
<1>7. ASSUME NEW th \in Threads, Sync(th)
      PROVE  transport' = transport /\ (socket' = socket \/ (call[th] = "shutdown" /\ socket = "open"))
  BY <1>7 DEF Sync
<1>8. ASSUME NEW th \in Threads, Leave(th)
      PROVE  transport' = transport /\ (socket' = socket \/ (socket' = "open" /\ transport = "socket"))
  <2>1. CASE Crash(th)
    BY <2>1 DEF Crash
  <2>2. CASE Return(th)
    <3>1. pc[th] = "leave" /\ transport' = transport
      BY <1>8, <2>2 DEF Leave, At, Return
    <3>2. call[th] = "init socket" /\ ~started => transport = "socket"
      BY <3>1 DEF Starting
    <3>3. socket' = IF call[th] = "init socket" /\ ~started THEN "open" ELSE socket
      BY <2>2 DEF Return
    <3> QED
      BY <3>1, <3>2, <3>3
  <2> QED
    BY <1>8, <2>1, <2>2 DEF Leave
<1>9. ASSUME NEW th \in Threads, Destroy(th)
      PROVE  socket' = socket /\ transport' = transport
  BY <1>9 DEF Destroy
<1>10. ASSUME NEW message, PeerWrites(message)
       PROVE  socket' = socket /\ transport' = transport
  BY <1>10 DEF PeerWrites
<1>11. CASE PeerStalls \/ PeerGoes \/ UNCHANGED vars
  BY <1>11 DEF PeerStalls, PeerGoes, vars
<1> QED
  BY <1>1, <1>2, <1>3, <1>4, <1>5, <1>6, <1>7, <1>8, <1>9, <1>10, <1>11 DEF Next, Step, Program

\* Shutdown closes the socket: all it has emitted is sent, and nothing waits.
LEMMA CloseSteps ==
  ASSUME Control, Stream, Shut, NEW th \in Threads, Sync(th), call[th] = "shutdown",
         socket = "open"
  PROVE  Closed' /\ Behind'
<1> USE DEF Control
<1>1. /\ pc[th] = "sync" /\ pc' = [pc EXCEPT ![th] = "leave"]
      /\ UNCHANGED <<started, active, call, part, wire, buffers, write_offset, current_buffer>>
  BY DEF Sync, At, Goto, state, encoder, bounds
<1>2. th = main
  BY DEF MainDoes
<1>3. part[main] = "flush" /\ write_offset = 0
  BY <1>1, <1>2 DEF Places, Offsets
<1>4. started /\ ~active
  BY <1>2, <1>3 DEF Shut, Starting
<1>5. \A other \in Threads \ {main} : pc'[other] \in {"idle", "enter"}
  <2>1. \A other \in Threads \ {main} : pc[other] \notin Inner
    BY <1>1, <1>2 DEF Exclusive, Inner, Labels
  <2>2. \A other \in Threads \ {main} : pc[other] # "destroy"
    BY DEF Places, MainDoes
  <2>3. \A other \in Threads \ {main} : pc'[other] = pc[other]
    BY <1>1, <1>2 DEF ThreadTypes
  <2> QED
    BY <2>1, <2>2, <2>3 DEF ThreadTypes, Inner
<1>6. Len(wire) > 0 /\ wire[Len(wire)].kind = "shutdown" /\ wire[Len(wire)].part = "end"
  <2>1. Waiting = <<>>
    BY <1>3 DEF Waiting, Pending
  <2>2. wire \in Seq(Pieces)
    BY DEF BufferTypes
  <2>3. Emitted = wire
    BY <2>1, <2>2, ConcatEmptySeq DEF Emitted
  <2>4. Good /\ Finishing
    BY <1>1, <1>2, <1>3 DEF Good, Finishing
  <2> QED
    BY <2>3, <2>4 DEF Stream, Finished
<1>7. pc'[main] = "leave"
  BY <1>1, <1>2 DEF ThreadTypes
<1>8. Closed'
  BY <1>1, <1>2, <1>4, <1>5, <1>6, <1>7 DEF Closed
<1>9. Behind'
  BY <1>1, <1>3 DEF Behind
<1> QED
  BY <1>8, <1>9

\* Late pieces stay late while their threads go on to "idle".
LEMMA StaysBehind ==
  ASSUME Behind, socket = "closed",
         UNCHANGED <<buffers, current_buffer, write_offset>>,
         \A th \in Threads \ {main} :
           \/ pc'[th] = pc[th] /\ part'[th] = part[th]
           \/ pc[th] = "enter"
           \/ pc[th] = "leave" /\ pc'[th] = "idle"
           \/ pc[th] = "reserve" /\ pc'[th] \in {"commit", "send"} /\ part'[th] = part[th]
  PROVE  Behind'
<1>1. \A i : BufferAt(i)' = BufferAt(i)
  BY DEF BufferAt
<1>2. ASSUME NEW i \in 1 .. write_offset, Late(BufferAt(i))
      PROVE  Late(BufferAt(i))'
  BY <1>1, <1>2 DEF Late
<1> QED
  BY <1>1, <1>2 DEF Behind

\* The steps that are left when the socket is closed.
LEMMA ClosedMoves ==
  ASSUME Control, Closed, socket = "closed", socket' = "closed", transport = "socket", [Next]_vars
  PROVE  /\ started' /\ ~active' /\ UNCHANGED <<call, wire, current_buffer>>
         /\ \/ \E th \in Threads : Commit(th)
            \/ /\ UNCHANGED <<buffers, write_offset>>
               /\ \A th \in Threads \ {main} :
                    \/ pc'[th] = pc[th] /\ part'[th] = part[th]
                    \/ /\ pc[th] = "enter"
                       /\ pc'[th] \in {"reserve", "send"}
                    \/ pc[th] = "leave" /\ pc'[th] = "idle"
                    \/ pc[th] = "reserve" /\ pc'[th] \in {"commit", "send"} /\ part'[th] = part[th]
               /\ pc'[main] = pc[main] \/ pc'[main] \in {"destroy", "idle"}
<1> DEFINE Moves ==
      /\ started' /\ ~active' /\ UNCHANGED <<call, wire, current_buffer, buffers, write_offset>>
      /\ \A th \in Threads \ {main} :
           \/ pc'[th] = pc[th] /\ part'[th] = part[th]
           \/ /\ pc[th] = "enter"
              /\ pc'[th] \in {"reserve", "send"}
           \/ pc[th] = "leave" /\ pc'[th] = "idle"
           \/ pc[th] = "reserve" /\ pc'[th] \in {"commit", "send"} /\ part'[th] = part[th]
      /\ pc'[main] = pc[main] \/ pc'[main] \in {"destroy", "idle"}
<1> USE DEF Control, state, outputs, encoder, threads, ids, outside, bounds
<1>0. /\ started /\ ~active /\ pc[main] \in {"leave", "destroy", "idle"}
      /\ \A th \in Threads \ {main} :
           pc[th] \in {"idle", "enter", "reserve", "commit", "send", "leave"}
  BY DEF Closed
<1>1. ~InitFile /\ ~InitSocket /\ ~InitSocketFails /\ ~InitSocketAgain /\ ~Shutdown
  BY <1>0 DEF InitFile, InitSocket, InitSocketFails, InitSocketAgain, Shutdown
<1>2. \A th \in Threads : ~CallEvent(th) /\ ~Flush(th)
  BY <1>0 DEF CallEvent, Flush
<1>3. \A th \in Threads : ~Connect(th) /\ ~ConnectFails(th) /\ ~Down(th) /\ ~Flip(th)
  BY <1>0 DEF Connect, ConnectFails, Down, Flip, At
<1>4. \A th \in Threads : ~Send(th) /\ ~SendPartially(th)
  BY DEF Send, Taken, SendPartially, Accepts
<1>5. \A th \in Threads : ~Listen(th) /\ ~Sync(th)
  BY <1>0 DEF Listen, Sync, At
<1>6. ASSUME NEW th \in Threads, Enter(th)
      PROVE  Moves
  <2>1. CASE Crash(th)
    BY <1>0, <2>1 DEF Crash
  <2>2. CASE Inside(th)
    <3>1. pc[th] = "enter"
      BY <1>6 DEF Enter, At
    <3>2. th # main
      BY <1>0, <3>1
    <3>3. call[th] \in {"none", "event", "flush"}
      BY <3>2 DEF MainDoes
    <3>4. /\ pc' = [pc EXCEPT ![th] = IF call[th] = "flush" THEN "send" ELSE "reserve"]
          /\ part' = [part EXCEPT ![th] = IF call[th] = "flush" THEN "flush" ELSE @]
      BY <2>2, <3>3 DEF Inside, Goto
    <3>5. UNCHANGED <<started, active, call, wire, current_buffer, buffers, write_offset>>
      BY <2>2 DEF Inside
    <3> QED
      BY <1>0, <3>1, <3>2, <3>4, <3>5 DEF ThreadTypes
  <2> QED
    BY <1>6, <2>1, <2>2 DEF Enter
<1>7. ASSUME NEW th \in Threads, Reserve(th)
      PROVE  Moves
  <2>1. pc[th] = "reserve" /\ \E label \in {"commit", "send"} : pc' = [pc EXCEPT ![th] = label]
    BY <1>7 DEF Reserve, At, Goto
  <2>2. UNCHANGED <<started, active, call, part, wire, current_buffer, buffers, write_offset>>
    BY <1>7 DEF Reserve
  <2> QED
    BY <1>0, <2>1, <2>2 DEF ThreadTypes
<1>8. ASSUME NEW th \in Threads, NullFunction(th)
      PROVE  Moves
  BY <1>0, <1>8 DEF NullFunction, Crash
<1>9. ASSUME NEW th \in Threads, Leave(th)
      PROVE  Moves
  <2>1. CASE Crash(th)
    BY <1>0, <2>1 DEF Crash
  <2>2. CASE Return(th)
    <3>1. pc[th] = "leave"
      BY <1>9 DEF Leave, At
    <3>2. th # main => call[th] # "shutdown"
      BY DEF MainDoes
    <3>3. pc' = [pc EXCEPT ![th] = IF call[th] = "shutdown" THEN "destroy" ELSE "idle"]
      BY <2>2 DEF Return, Goto
    <3>4. started' /\ UNCHANGED <<active, call, part, wire, current_buffer, buffers, write_offset>>
      BY <2>2 DEF Return
    <3> QED
      BY <1>0, <3>1, <3>2, <3>3, <3>4 DEF ThreadTypes
  <2> QED
    BY <1>9, <2>1, <2>2 DEF Leave
<1>10. ASSUME NEW th \in Threads, Destroy(th)
       PROVE  Moves
  <2>1. th = main
    BY <1>0, <1>10 DEF Destroy, At
  <2>2. pc' = [pc EXCEPT ![th] = "idle"]
    BY <1>10 DEF Destroy, Goto
  <2>3. UNCHANGED <<started, active, call, part, wire, current_buffer, buffers, write_offset>>
    BY <1>10 DEF Destroy
  <2> QED
    BY <1>0, <2>1, <2>2, <2>3 DEF ThreadTypes
<1>11. ASSUME NEW message, PeerWrites(message)
       PROVE  Moves
  BY <1>0, <1>11 DEF PeerWrites
<1>12. CASE PeerStalls \/ PeerGoes \/ UNCHANGED vars
  BY <1>0, <1>12 DEF PeerStalls, PeerGoes, vars
<1>13. ASSUME NEW th \in Threads, Commit(th)
       PROVE  started' /\ ~active' /\ UNCHANGED <<call, wire, current_buffer>>
  BY <1>0, <1>13 DEF Commit
<1>14. Moves \/ \E th \in Threads : Commit(th)
  BY <1>1, <1>2, <1>3, <1>4, <1>5, <1>6, <1>7, <1>8, <1>9, <1>10, <1>11, <1>12
     DEF Next, Step, Program
<1> QED
  BY <1>13, <1>14

\* A late piece: the first or the second of its thread.
LEMMA CommitBehind ==
  ASSUME Control, Closed, Behind, socket = "closed", NEW th \in Threads, Commit(th)
  PROVE  Closed' /\ Behind'
<1> USE DEF Control
<1>1. /\ pc[th] = "commit" /\ th # main
  BY DEF Commit, At, Closed
<1>2. /\ UNCHANGED <<call, started, active, wire, socket, current_buffer>>
      /\ write_offset' = write_offset + 1
  BY DEF Commit, state, outputs, bounds
<1>3. /\ \A other \in Threads \ {th} : pc'[other] = pc[other] /\ part'[other] = part[other]
  BY DEF Commit, Goto, ThreadTypes
<1>4. call[th] # "shutdown"
  BY <1>1 DEF MainDoes
<1>5. \/ part[th] = "begin" /\ part'[th] = "end" /\ pc'[th] = "reserve"
      \/ part[th] = "end" /\ part'[th] = "end" /\ pc'[th] = "leave"
  BY <1>4, CommitMoves
<1>6. Closed'
  BY <1>1, <1>2, <1>3, <1>5 DEF Closed
<1>7. /\ \A i : i = write_offset + 1 => BufferAt(i)' = Piece(th)
      /\ \A i \in 1 .. write_offset : BufferAt(i)' = BufferAt(i)
  <2>1. /\ slot[th].buffer = current_buffer /\ slot[th].at = write_offset
        /\ write_offset + 1 \in 1 .. BufferSize
    BY <1>1 DEF Offsets, BufferTypes
  <2>2. buffers' = [buffers EXCEPT ![current_buffer][write_offset + 1] = Piece(th)]
    BY <2>1 DEF Commit
  <2>3. buffers[current_buffer] \in [1 .. BufferSize -> Pieces] /\ current_buffer \in {0, 1}
    BY DEF BufferTypes
  <2>4. buffers'[current_buffer] = [buffers[current_buffer] EXCEPT ![write_offset + 1] = Piece(th)]
    BY <2>2, <2>3 DEF BufferTypes
  <2>5. write_offset \in 0 .. BufferSize
    BY DEF BufferTypes
  <2> QED
    BY <1>2, <2>1, <2>3, <2>4, <2>5 DEF BufferAt
<1>8. Piece(th).by = th /\ Piece(th).part = part[th]
  BY DEF Piece
<1>9. \A i \in 1 .. write_offset :
        /\ Late(BufferAt(i))
        /\ \A j \in 1 .. (i - 1) : BufferAt(j).by = BufferAt(i).by => BufferAt(j).part # BufferAt(i).part
  BY DEF Behind
<1>10. \A i \in 1 .. write_offset :
         BufferAt(i).by = th => BufferAt(i).part = "begin" /\ part[th] = "end"
  BY <1>1, <1>9 DEF Late
<1>11. ASSUME NEW i \in 1 .. write_offset
       PROVE  Late(BufferAt(i))'
  <2>1. Late(BufferAt(i)) /\ BufferAt(i)' = BufferAt(i)
    BY <1>7, <1>9
  <2>2. CASE BufferAt(i).by = th
    BY <1>1, <1>5, <1>10, <2>1, <2>2 DEF Late
  <2>3. CASE BufferAt(i).by # th
    BY <1>3, <2>1, <2>3 DEF Late
  <2> QED
    BY <2>2, <2>3
<1>12. ASSUME NEW i, i = write_offset + 1
       PROVE  Late(BufferAt(i))'
  <2>1. BufferAt(i)' = Piece(th)
    BY <1>7, <1>12
  <2> QED
    BY <1>1, <1>5, <1>8, <2>1 DEF Late
<1>13. write_offset \in Nat
  BY DEF BufferTypes
<1>14. ASSUME NEW i \in 1 .. (write_offset + 1)
       PROVE  /\ Late(BufferAt(i))'
              /\ \A j \in 1 .. (i - 1) : BufferAt(j)'.by = BufferAt(i)'.by => BufferAt(j)'.part # BufferAt(i)'.part
  <2>1. CASE i \in 1 .. write_offset
    <3>1. \A j \in 1 .. (i - 1) : j \in 1 .. write_offset
      BY <1>13, <2>1
    <3> QED
      BY <1>7, <1>9, <1>11, <2>1, <3>1
  <2>2. CASE i = write_offset + 1
    <3>1. \A j \in 1 .. (i - 1) : j \in 1 .. write_offset
      BY <1>13, <2>2
    <3>2. \A j \in 1 .. write_offset : BufferAt(j).by = th => BufferAt(j).part # part[th]
      BY <1>10
    <3> QED
      BY <1>7, <1>8, <1>12, <2>2, <3>1, <3>2
  <2> QED
    BY <1>13, <2>1, <2>2
<1>15. Behind'
  BY <1>2, <1>14 DEF Behind
<1> QED
  BY <1>6, <1>15

LEMMA ClosingNext == Control /\ Stream /\ Closing /\ [Next]_vars => Closing'
<1> SUFFICES ASSUME Control, Stream, Closing, [Next]_vars
             PROVE  Closing'
  OBVIOUS
<1>1. Shut'
  BY ShutNext DEF Closing
<1>2. Socketed'
  BY SocketMoves DEF Closing, Socketed
<1>3. ASSUME socket' = "closed"
      PROVE  Closed' /\ Behind'
  <2>1. CASE socket # "closed"
    BY <1>3, <2>1, SocketMoves, CloseSteps DEF Closing
  <2>2. CASE socket = "closed"
    <3>1. transport = "socket" /\ Closed /\ Behind
      BY <2>2 DEF Closing, Socketed
    <3>2. CASE \E th \in Threads : Commit(th)
      BY <2>2, <3>1, <3>2, CommitBehind
    <3>3. CASE ~\E th \in Threads : Commit(th)
      <4>1. Closed'
        BY <1>3, <2>2, <3>1, <3>3, ClosedMoves DEF Closed
      <4>2. Behind'
        BY <1>3, <2>2, <3>1, <3>3, ClosedMoves, StaysBehind
      <4> QED
        BY <4>1, <4>2
    <3> QED
      BY <3>2, <3>3
  <2> QED
    BY <2>1, <2>2
<1>4. Closed' /\ Behind'
  BY <1>3 DEF Closed, Behind
<1> QED
  BY <1>1, <1>2, <1>4 DEF Closing

-----------------------------------------------------------------------------
(***************************************************************************)
(* The theorems.                                                           *)
(***************************************************************************)
LEMMA Invariants == Spec => [](Control /\ Stream /\ Closing)
<1>1. Init => Control /\ Stream /\ Closing
  BY ControlInit, StreamInit, ClosingInit
<1>2. (Control /\ Stream /\ Closing) /\ [Next]_vars => (Control /\ Stream /\ Closing)'
  BY ControlNext, StreamNext, ClosingNext
<1> QED
  BY <1>1, <1>2, PTL DEF Spec

\* Every variable keeps to its type whatever the threads and the tool do; places
\* in the buffers are inside them.
THEOREM TypesKept == Spec => []TypeOK
<1>1. Control => TypeOK
  BY TypesSplit DEF Control
<1> QED
  BY <1>1, Invariants, PTL

\* Events leave the program whole, by one thread each and numbered without a
\* gap, for every number of threads and every size of the buffers.
THEOREM StreamStaysIntact == Spec => []StreamIntact
<1>1. Stream => StreamIntact
  BY DEF Stream
<1> QED
  BY <1>1, Invariants, PTL

\* Heap ids go out in the order the tool insists on.
THEOREM HeapIdsStayInOrder == Spec => []HeapIdsInOrder
<1>1. Stream => HeapIdsInOrder
  BY DEF Stream
<1> QED
  BY <1>1, Invariants, PTL

\* While the output is good every piece written by Commit is sent or waits in the
\* buffer that is sent next, once: no flip and no race of two threads loses one.
THEOREM NothingIsLost == Spec => []NothingLost
<1>1. Control /\ Stream => NothingLost
  <2> SUFFICES ASSUME Control, Stream, transport = "file" \/ socket \in {"open", "closed"}
               PROVE  /\ Whole(Emitted)
                      /\ Len(Emitted) = 2 * count + Cardinality({th \in Threads : InEvent(th)})
    BY DEF NothingLost
  <2>1. /\ Whole(Emitted)
        /\ Len(Emitted) = 2 * count + (IF \E th \in Threads : InEvent(th) THEN 1 ELSE 0)
    BY DEF Stream, Numbered, Good
  <2>2. CASE ~\E th \in Threads : InEvent(th)
    <3>1. {th \in Threads : InEvent(th)} = {}
      BY <2>2
    <3> QED
      BY <2>1, <2>2, <3>1, FS_EmptySet
  <2>3. ASSUME NEW th \in Threads, InEvent(th)
        PROVE  Cardinality({other \in Threads : InEvent(other)}) = 1
    <3>1. \A other \in Threads : InEvent(other) => pc[other] \in Inner
      BY DEF InEvent, Inner, Labels
    <3>2. {other \in Threads : InEvent(other)} = {th}
      BY <2>3, <3>1 DEF Control, Exclusive
    <3> QED
      BY <3>2, FS_Singleton
  <2> QED
    BY <2>1, <2>2, <2>3
<1> QED
  BY <1>1, Invariants, PTL

\* When Shutdown has closed a good connection EndStream was sent and is the last
\* that ever is.  What the threads write that had waited for the lock then, one
\* event each and none of main, stays in a buffer.
THEOREM EndStreamStaysLast == Spec => []EndStreamIsLast
<1>1. Control /\ Closing => EndStreamIsLast
  <2> SUFFICES ASSUME Control, Closing, socket = "closed"
               PROVE  /\ wire # <<>> /\ Last(wire).kind = "shutdown" /\ Last(wire).part = "end"
                      /\ \A i \in 1 .. write_offset :
                           /\ Pending[i].by # main
                           /\ \A j \in 1 .. (i - 1) :
                                Pending[j].by = Pending[i].by => Pending[j].part # Pending[i].part
    BY DEF EndStreamIsLast
  <2>1. wire # <<>> /\ Last(wire).kind = "shutdown" /\ Last(wire).part = "end"
    BY DEF Closing, Closed, Last
  <2>2. write_offset \in Nat /\ \A i \in 1 .. write_offset : Pending[i] = BufferAt(i)
    BY PendingIs DEF Control, BufferTypes, BufferAt
  <2>3. \A i \in 1 .. write_offset :
          /\ Late(BufferAt(i))
          /\ \A j \in 1 .. (i - 1) : BufferAt(j).by = BufferAt(i).by => BufferAt(j).part # BufferAt(i).part
    BY DEF Closing, Behind
  <2>4. \A i \in 1 .. write_offset : \A j \in 1 .. (i - 1) : j \in 1 .. write_offset
    BY <2>2
  <2>5. \A i \in 1 .. write_offset : Pending[i].by # main
    BY <2>2, <2>3 DEF Late
  <2>6. \A i \in 1 .. write_offset : \A j \in 1 .. (i - 1) :
          Pending[j].by = Pending[i].by => Pending[j].part # Pending[i].part
    BY <2>2, <2>3, <2>4
  <2> QED
    BY <2>1, <2>5, <2>6
<1> QED
  BY <1>1, Invariants, PTL

\* Whatever the other end does, who holds the lock is behind it, or is main after a
\* refused upgrade, which has shut the trace down.
THEOREM OwnerStaysInside == Spec => []OwnerIsInside
<1> DEFINE Held == lock \in Threads => pc[lock] \in Inner \/ (lock = main /\ pc[main] = "idle" /\ ~active)
<1>1. Init => Held
  BY DEF Init
<1>2. Control /\ Held /\ [Next]_vars => Held'
  <2> SUFFICES ASSUME Control, Held, [Next]_vars
               PROVE  Held'
    OBVIOUS
  <2> USE DEF Control, ThreadTypes, Inner, Labels, state, outputs, encoder, threads, ids, outside, bounds
  <2>1. CASE InitFile \/ InitSocket
    BY <2>1 DEF InitFile, InitSocket, InitCommon
  <2>2. CASE InitSocketFails
    BY <2>2 DEF InitSocketFails, ErrorShutdown
  <2>3. CASE InitSocketAgain \/ Shutdown
    <3>1. /\ lock' = lock /\ pc[main] = "idle" /\ pc' = [pc EXCEPT ![main] = "enter"]
          /\ active /\ active' = active
      BY <2>3 DEF InitSocketAgain, Shutdown, Begin, At, Goto
    <3> QED
      BY <3>1
  <2>4. ASSUME NEW th \in Threads, CallEvent(th) \/ Flush(th)
        PROVE  Held'
    <3>1. /\ lock' = lock /\ pc[th] = "idle" /\ pc' = [pc EXCEPT ![th] = "enter"]
          /\ active /\ active' = active
      BY <2>4 DEF CallEvent, Flush, Begin, At, Goto
    <3> QED
      BY <3>1
  <2>5. ASSUME NEW th \in Threads, Enter(th)
        PROVE  Held'
    <3>1. CASE Crash(th)
      BY <3>1 DEF Crash
    <3>2. CASE lock' = th /\ Inside(th)
      BY <3>2 DEF Inside, Goto
    <3> QED
      BY <2>5, <3>1, <3>2 DEF Enter
  <2>6. ASSUME NEW th \in Threads, Connect(th)
        PROVE  Held'
    BY <2>6 DEF Connect, At, Goto
  <2>7. ASSUME NEW th \in Threads, ConnectFails(th)
        PROVE  Held'
    <3>1. pc[th] = "connect" /\ lock' = lock /\ ~active' /\ pc' = [pc EXCEPT ![th] = "idle"]
      BY <2>7 DEF ConnectFails, ErrorShutdown, At, Goto
    <3>2. th = main
      BY <3>1 DEF Places, MainDoes
    <3>3. lock \in {main, "destroyed"}
      BY <3>1, <3>2 DEF Exclusive
    <3> QED
      BY <3>1, <3>2, <3>3
  <2>8. ASSUME NEW th \in Threads, Reserve(th)
        PROVE  Held'
    BY <2>8 DEF Reserve, At, Goto
  <2>9. ASSUME NEW th \in Threads, Commit(th)
        PROVE  Held'
    <3>1. lock' = lock /\ active' = active
      BY <2>9 DEF Commit
    <3>2. pc[th] = "commit" /\ pc'[th] \in Inner
      BY <2>9, CommitMoves
    <3>3. \A other \in Threads \ {th} : pc'[other] = pc[other]
      BY <2>9 DEF Commit, Goto
    <3> QED
      BY <3>1, <3>2, <3>3
  <2>10. ASSUME NEW th \in Threads, Down(th) \/ Send(th) \/ SendPartially(th) \/ Flip(th)
         PROVE  Held'
    <3>1. lock' = lock /\ (active' = active \/ ~active')
      BY <2>10 DEF Down, Send, SendPartially, ErrorShutdown, Flip
    <3>2. pc[th] \in Inner /\ \E label \in Inner : pc' = [pc EXCEPT ![th] = label]
      BY <2>10 DEF Down, Send, SendPartially, Flip, At, Goto
    <3> QED
      BY <3>1, <3>2
  <2>11. ASSUME NEW th \in Threads, Listen(th)
         PROVE  Held'
    <3>1. lock' = lock /\ active' = active /\ pc[th] \in Inner
      BY <2>11, ListenMoves
    <3>2. pc' = pc \/ \E label \in Inner : pc' = [pc EXCEPT ![th] = label]
      BY <2>11, ListenMoves
    <3> QED
      BY <3>1, <3>2
  <2>12. ASSUME NEW th \in Threads, NullFunction(th) \/ Sync(th)
         PROVE  Held'
    BY <2>12 DEF NullFunction, Crash, Sync, At, Goto
  <2>13. ASSUME NEW th \in Threads, Leave(th) \/ Destroy(th)
         PROVE  Held'
    BY <2>13 DEF Leave, Crash, Destroy
  <2>14. ASSUME NEW message, PeerWrites(message)
         PROVE  Held'
    BY <2>14 DEF PeerWrites
  <2>15. CASE PeerStalls \/ PeerGoes \/ UNCHANGED vars
    BY <2>15 DEF PeerStalls, PeerGoes, vars
  <2> QED
    BY <2>1, <2>2, <2>3, <2>4, <2>5, <2>6, <2>7, <2>8, <2>9, <2>10, <2>11, <2>12, <2>13,
       <2>14, <2>15 DEF Next, Step, Program
<1>3. Held => OwnerIsInside
  BY DEF OwnerIsInside, Inner
<1> QED
  BY <1>1, <1>2, <1>3, Invariants, PTL DEF Spec

=============================================================================
