--------------------------- MODULE BlockAllocator ---------------------------
(***************************************************************************)
(* The demo program (runtime/DemoMain.cpp): allocators of blocks of one    *)
(* size, whose free list lives in the free blocks, and which report what   *)
(* they do to the tool.  The program is one thread; what it reports waits  *)
(* in the trace, in order (Runtime.tla, Decoder.tla), until the tool       *)
(* handles it (MemoryState.tla).  The client is any that frees what it     *)
(* has: TestCustomAllocator takes all blocks but one, frees them in order, *)
(* and starts again for ever.                                              *)
(***************************************************************************)
EXTENDS MemoryState, Functions

CONSTANTS ElemSize, ElemCount,  \* of each allocator, by its name
          Ranges,               \* bound: where malloc finds memory
          MaxTrace,             \* bound: events on their way
          MaxLost               \* bound: events not sent after the connection broke

ASSUME BlockAssumption ==
  /\ DOMAIN ElemSize = DOMAIN ElemCount /\ {MaxTrace, MaxLost} \subseteq Nat
  /\ \A a \in DOMAIN ElemSize :
       /\ {ElemSize[a], ElemCount[a]} \subseteq Nat \ {0}
       /\ {ElemSize[a], ElemSize[a] * ElemCount[a]} \subseteq Sizes
  /\ HeapIds \subseteq 0 .. (IntLimit - 1) /\ Ranges \subseteq Pointers
  /\ \A p \in Pointers : p + 1 < Word   \* the address behind a range is one too
  /\ 0 \notin Times                       \* a death at 0 is none

VARIABLES allocators,    \* the BlockAllocator objects by name
          active,        \* _active: the connection is there
          next_heap_id,  \* _next_heap_id
          trace,         \* events sent and not yet handled
          lost,          \* how many were not sent
          reported       \* ghost: the heaps according to the events handled

demoVars == <<vars, allocators, active, next_heap_id, trace, lost, reported>>

Names == DOMAIN ElemSize

nullptr == -1
NoHeap == -1   \* ~0u

MemSize(a) == ElemSize[a] * ElemCount[a]
MemRange(a, range) == range .. (range + MemSize(a) - 1)

GetHeader(a, range, index) == range + index * ElemSize[a]
Headers(a) == {GetHeader(a, allocators[a].range, i) : i \in 0 .. (ElemCount[a] - 1)}

InHeap == UNION {MemRange(a, allocators[a].range) : a \in DOMAIN allocators}

Event(type, id, pointer, size) == [type |-> type, id |-> id, pointer |-> pointer, size |-> size]

\* Nothing is reported without a connection, which may break before any event.
Report(events) ==
  \E sent \in 0 .. (IF active THEN Len(events) ELSE 0) :
    /\ Len(trace) + sent <= MaxTrace
    /\ trace' = trace \o SubSeq(events, 1, sent)
    /\ active' = (active /\ sent = Len(events))
    /\ lost' = lost + Len(events) - sent /\ lost' <= MaxLost

-----------------------------------------------------------------------------
(***************************************************************************)
(* The program.                                                            *)
(***************************************************************************)
DemoInit ==
  /\ Init
  /\ allocators = Empty /\ active = TRUE /\ next_heap_id = 0
  /\ trace = <<>> /\ lost = 0 /\ reported = Empty

Quiet == UNCHANGED <<vars, reported>>

\* malloc finds any free range; every block is linked to the next.
Construct(a, range) ==
  /\ a \notin DOMAIN allocators
  /\ MemRange(a, range) \subseteq Pointers /\ MemRange(a, range) \cap InHeap = {}
  /\ active => next_heap_id \in HeapIds
  /\ LET id == IF active THEN next_heap_id ELSE NoHeap
         header == [i \in 0 .. ElemCount[a] |->
                      IF i = ElemCount[a] THEN nullptr ELSE GetHeader(a, range, i)]
     IN  /\ allocators' = Put(allocators, a,
              [range |-> range, id |-> id, held |-> {}, free_list |-> header[0],
               next |-> [h \in {header[i] : i \in 0 .. (ElemCount[a] - 1)} |->
                           header[(h - range) \div ElemSize[a] + 1]]])
         /\ next_heap_id' = IF active THEN next_heap_id + 1 ELSE next_heap_id
         /\ Report(<<Event("HeapCreate", id, 0, 0),
                     Event("HeapAddCore", id, range, MemSize(a))>>)
  /\ Quiet

\* Mutant of Destruct: the heap goes before its core.
DestructHeapFirst(a) ==
  /\ a \in DOMAIN allocators /\ allocators[a].held = {}
  /\ allocators' = Erase(allocators, a)
  /\ Report(<<Event("HeapDestroy", allocators[a].id, 0, 0),
              Event("HeapRemoveCore", allocators[a].id, allocators[a].range, MemSize(a))>>)
  /\ UNCHANGED next_heap_id /\ Quiet

Destruct(a) ==
  /\ a \in DOMAIN allocators /\ allocators[a].held = {}
  /\ allocators' = Erase(allocators, a)
  /\ Report(<<Event("HeapRemoveCore", allocators[a].id, allocators[a].range, MemSize(a)),
              Event("HeapDestroy", allocators[a].id, 0, 0)>>)
  /\ UNCHANGED next_heap_id /\ Quiet

\* An empty list gives nullptr, and no event.
Alloc(a) ==
  LET hdr == allocators[a].free_list
  IN  /\ a \in DOMAIN allocators /\ hdr # nullptr
      /\ allocators' = [allocators EXCEPT ![a].free_list = allocators[a].next[hdr],
                                          ![a].held = @ \cup {hdr}]
      /\ Report(<<Event("HeapAllocate", allocators[a].id, hdr, ElemSize[a])>>)
      /\ UNCHANGED next_heap_id /\ Quiet

\* Mutants of FreeBlock: the block is not linked to the list; it is not reported.
FreeUnlinked(a, ptr) ==
  /\ ptr \in allocators[a].held
  /\ allocators' = [allocators EXCEPT ![a].free_list = ptr, ![a].held = @ \ {ptr}]
  /\ Report(<<Event("HeapFree", allocators[a].id, ptr, 0)>>)
  /\ UNCHANGED next_heap_id /\ Quiet
FreeUnreported(a, ptr) ==
  /\ ptr \in allocators[a].held
  /\ allocators' = [allocators EXCEPT ![a].next[ptr] = allocators[a].free_list,
                                      ![a].free_list = ptr, ![a].held = @ \ {ptr}]
  /\ Report(<<>>)
  /\ UNCHANGED next_heap_id /\ Quiet

FreeBlock(a, ptr) ==
  /\ ptr \in allocators[a].held
  /\ allocators' = [allocators EXCEPT ![a].next[ptr] = allocators[a].free_list,
                                      ![a].free_list = ptr, ![a].held = @ \ {ptr}]
  /\ Report(<<Event("HeapFree", allocators[a].id, ptr, 0)>>)
  /\ UNCHANGED next_heap_id /\ Quiet

-----------------------------------------------------------------------------
(***************************************************************************)
(* The tool handles the first event of the trace.  Its time was taken when *)
(* it was sent, which leaves the same order of times.                      *)
(***************************************************************************)
AddsEvent(t, e) ==
  \/ e.type = "HeapCreate"     /\ HeapCreate(t, e.id)
  \/ e.type = "HeapAddCore"    /\ AddCore(t, e.id, e.pointer, e.size)
  \/ e.type = "HeapAllocate"   /\ Allocate(t, e.id, e.pointer, e.size, TRUE)
  \/ e.type = "HeapFree"       /\ Free(t, e.id, e.pointer, TRUE)
  \/ e.type = "HeapRemoveCore" /\ RemoveCore(t, e.id, e.pointer)
  \/ e.type = "HeapDestroy"    /\ HeapDestroy(t, e.id)

NewReport == [cores |-> Empty, live |-> Empty, outside |-> {}, closing |-> FALSE, gone |-> FALSE]

Reported(heap, e) ==
  CASE e.type = "HeapAddCore"    -> [heap EXCEPT !.cores = Put(@, e.pointer, e.size)]
    [] e.type = "HeapAllocate"   ->
         [heap EXCEPT !.live = Put(@, e.pointer, [size |-> e.size, owned |-> TRUE])]
    [] e.type = "HeapFree"       -> [heap EXCEPT !.live = Erase(@, e.pointer)]
    [] e.type = "HeapRemoveCore" -> [heap EXCEPT !.cores = Erase(@, e.pointer)]
    [] e.type = "HeapDestroy"    -> [heap EXCEPT !.gone = TRUE]

Handle(t) ==
  /\ trace # <<>>
  /\ LET e == Head(trace)
     IN  /\ AddsEvent(t, e)
         /\ reported' = IF e.type = "HeapCreate" THEN Put(reported, e.id, NewReport)
                        ELSE [reported EXCEPT ![e.id] = Reported(@, e)]
  /\ trace' = Tail(trace)
  /\ UNCHANGED <<allocators, active, next_heap_id, lost>>

DemoNext ==
  \/ \E a \in Names : \/ \E range \in Ranges : Construct(a, range)
                      \/ Destruct(a)
                      \/ Alloc(a)
  \/ \E a \in DOMAIN allocators : \E ptr \in allocators[a].held : FreeBlock(a, ptr)
  \/ \E t \in {s \in Times : s >= last_update} : Handle(t)

DemoSpec == DemoInit /\ [][DemoNext]_demoVars

-----------------------------------------------------------------------------
\* The free list has every block that is not held, once, and no other, in
\* whatever order blocks were freed; after the last one it ends.
FreeListIntact ==
  \A a \in DOMAIN allocators :
    LET free == Headers(a) \ allocators[a].held
        walk[n \in 0 .. ElemCount[a]] ==
          IF n = 0 THEN allocators[a].free_list
          ELSE IF walk[n - 1] = nullptr THEN nullptr ELSE allocators[a].next[walk[n - 1]]
    IN  /\ {walk[n] : n \in 0 .. (Cardinality(free) - 1)} = free
        /\ walk[Cardinality(free)] = nullptr

\* When the tool has caught up, it shows what the allocators hold: the blocks,
\* their bytes, the range; and the heaps of the destructed ones as dead.
CaughtUp ==
  active /\ trace = <<>> =>
    /\ \A a \in DOMAIN allocators :
         LET heap == heaps[allocators[a].id]
         IN  /\ heap.used = ElemSize[a] * Cardinality(allocators[a].held)
             /\ heap.managed = MemSize(a)
             /\ DOMAIN heap.alloc_to_core = allocators[a].held
    /\ \A id \in DOMAIN heaps :
         heaps[id].death = 0 <=> \E a \in DOMAIN allocators : allocators[a].id = id

\* The demo uses the event functions as TracedHeaps.tla asks of a program, also
\* when its connection breaks between two events: what that module promises of
\* the tool holds here.
Traced == INSTANCE TracedHeaps WITH truth <- reported, MaxOutside <- 0, Busy <- HeapIds
UsesTraceProperly == Traced!TSpec

=============================================================================
