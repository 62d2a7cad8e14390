---------------------------- MODULE MemoryState ----------------------------
(***************************************************************************)
(* What the tool knows of the traced program's heaps: MemoryState, Heap    *)
(* and Core of tool/cpp/memory_state.cc, heap.cc and core.cc.  One action  *)
(* per case of MemoryState::addEvent, with any arguments a decoded event   *)
(* can carry; TracedHeaps.tla restricts them to those of a real program.   *)
(*                                                                         *)
(* Left out: names and types, stream magic, platform and frequency (never  *)
(* read here), the num_... counters and the last_update_ of heaps and      *)
(* cores (never read anywhere).                                            *)
(***************************************************************************)
EXTENDS Integers, Sequences, FiniteSetsExt, Functions

CONSTANTS HeapIds,    \* ids events may carry
          Pointers,   \* addresses events may carry
          Sizes,      \* sizes events may carry
          Times,      \* timestamps events may carry
          Word,       \* size_t counts modulo Word (2^64)
          IntLimit,   \* an int goes up to IntLimit - 1 (2^31 - 1)
          Garbage,    \* what an uninitialised size_t can hold
          MaxBacking  \* bound: length of backing_allocator_ids

ASSUME ConstantsAssumption ==
  /\ Word \in Nat \ {0} /\ MaxBacking \in Nat
  /\ IntLimit \in Nat \ {0} /\ 2 * IntLimit <= Word
  /\ Pointers \subseteq 0 .. (Word - 1)
  /\ Sizes \subseteq 0 .. (Word - 1)
  /\ Garbage \subseteq 0 .. (Word - 1) /\ Garbage # {}
  /\ Times \subseteq Nat

VARIABLES heaps,        \* heaps_: the Heap objects by id
          last_update,  \* last_update_
          crashed       \* a null pointer was dereferenced

vars == <<heaps, last_update, crashed>>

Size == 0 .. (Word - 1)

\* std::map and std::unordered_map: operator[]= overwrites, emplace does not.
Put(f, k, v) == [x \in DOMAIN f \cup {k} |-> IF x = k THEN v ELSE f[x]]

Emplace(f, k, v) == IF k \in DOMAIN f THEN f ELSE Put(f, k, v)

Erase(f, k) == Restrict(f, DOMAIN f \ {k})

Empty == [x \in {} |-> x]

Plus(a, b) == (a + b) % Word
\* Mutant of Minus: counters that go below zero.
MinusSigned(a, b) == a - b

Minus(a, b) == (a - b) % Word
Larger(a, b) == IF a >= b THEN a ELSE b

-----------------------------------------------------------------------------
(***************************************************************************)
(* Core.  Bounds are inclusive: end is the first address behind the core,  *)
(* and an address equal to it counts as inside.                            *)
(***************************************************************************)
NewCore(pointer, size) ==
  [managed |-> size, end |-> Plus(pointer, size), used |-> 0, allocations |-> Empty]

\* Mutant of PointerInside: the end is outside.
PointerBefore(base, core, pointer) == base <= pointer /\ core.end > pointer

PointerInside(base, core, pointer) == base <= pointer /\ core.end >= pointer

AllocationInside(base, core, pointer, size) ==
  base <= pointer /\ core.end >= Plus(pointer, size)

\* addAllocation, once the allocation is inside or forced.
CoreWith(core, pointer, size) ==
  IF pointer \in DOMAIN core.allocations
  THEN core
  ELSE [core EXCEPT !.allocations = Put(@, pointer, size), !.used = Plus(@, size)]

RemovedBytes(core, pointer) ==
  IF pointer \in DOMAIN core.allocations THEN core.allocations[pointer] ELSE 0

CoreWithout(core, pointer) ==
  [core EXCEPT !.allocations = Erase(@, pointer),
               !.used = Minus(@, RemovedBytes(core, pointer))]

Grow(core, size) == [core EXCEPT !.managed = Plus(@, size), !.end = Plus(@, size)]

-----------------------------------------------------------------------------
(***************************************************************************)
(* Heap.  The constructor leaves max_managed_memory and max_used_memory    *)
(* uninitialised: any value.                                               *)
(***************************************************************************)
NewHeap(timestamp, max_managed, max_used) ==
  [birth |-> timestamp, death |-> 0, used |-> 0, managed |-> 0,
   max_managed |-> max_managed, max_used |-> max_used,
   cores |-> Empty, alloc_to_core |-> Empty, allocations |-> Empty,
   samples |-> Empty, backing |-> <<>>]

\* Mutant of HeapManages: the maximum is forgotten.
HeapManagesNow(heap, managed) == [heap EXCEPT !.managed = managed]

HeapManages(heap, managed) ==
  [heap EXCEPT !.managed = managed, !.max_managed = Larger(@, managed)]

HeapUses(heap, used) == [heap EXCEPT !.used = used, !.max_used = Larger(@, used)]

\* Mutant of Sample: emplace keeps the first sample of a timestamp.
SampleFirst(heap, timestamp) ==
  [heap EXCEPT !.samples =
     Emplace(@, timestamp, [used |-> heap.used, managed |-> heap.managed])]

\* simple_allocation_events_[timestamp] = heap_usage(...)
Sample(heap, timestamp) ==
  [heap EXCEPT !.samples =
     Put(@, timestamp, [used |-> heap.used, managed |-> heap.managed])]

HeapAddCore(heap, pointer, size) ==
  IF pointer \in DOMAIN heap.cores
  THEN heap
  ELSE HeapManages([heap EXCEPT !.cores = Put(@, pointer, NewCore(pointer, size))],
                   Plus(heap.managed, size))

\* Mutant of HeapGrowCore: only the core grows.
GrowCoreOnly(heap, pointer, size) ==
  IF pointer \in DOMAIN heap.cores
  THEN [heap EXCEPT !.cores[pointer] = Grow(@, size)]
  ELSE heap

HeapGrowCore(heap, pointer, size) ==
  IF pointer \in DOMAIN heap.cores
  THEN HeapManages([heap EXCEPT !.cores[pointer] = Grow(@, size)],
                   Plus(heap.managed, size))
  ELSE heap

\* Mutant of HeapRemoveCore: the core still counts as managed.
RemoveCoreOnly(heap, pointer) == [heap EXCEPT !.cores = Erase(@, pointer)]

HeapRemoveCore(heap, pointer) ==
  IF pointer \in DOMAIN heap.cores
  THEN [heap EXCEPT !.managed = Minus(@, heap.cores[pointer].managed),
                    !.cores = Erase(@, pointer)]
  ELSE heap

(***************************************************************************)
(* addAllocation with a core: the first core, in pointer order, that the   *)
(* allocation is inside of and that does not hold its pointer already,     *)
(* else the first that holds the start of the allocation when the next one *)
(* holds its end.  There the allocation is forced into the first of the    *)
(* two, and counted even if that core held its pointer already.            *)
(***************************************************************************)
Fitting(heap, pointer, size) ==
  {b \in DOMAIN heap.cores : /\ AllocationInside(b, heap.cores[b], pointer, size)
                             /\ pointer \notin DOMAIN heap.cores[b].allocations}

IsNext(heap, b, next) ==
  /\ b < next
  /\ \A other \in DOMAIN heap.cores : ~(b < other /\ other < next)

Spanning(heap, pointer, size) ==
  {b \in DOMAIN heap.cores :
     \E next \in DOMAIN heap.cores :
       /\ IsNext(heap, b, next)
       /\ PointerInside(b, heap.cores[b], pointer)
       /\ PointerInside(next, heap.cores[next], Plus(pointer, size))}

Candidates(heap, pointer, size) ==
  IF Fitting(heap, pointer, size) # {} THEN Fitting(heap, pointer, size)
                                       ELSE Spanning(heap, pointer, size)

IsFirst(b, bases) == b \in bases /\ \A other \in bases : b <= other

PlacedIn(heap, b, pointer, size) ==
  HeapUses([heap EXCEPT !.cores[b] = CoreWith(@, pointer, size),
                        !.alloc_to_core = Emplace(@, pointer, b)],
           Plus(heap.used, size))

\* Without a core: an entry that is there stays as it is, but the size counts.
PlacedOutside(heap, pointer, size) ==
  HeapUses([heap EXCEPT !.allocations = Emplace(@, pointer, size)],
           Plus(heap.used, size))

\* removeAllocation: the core is the one alloc_to_core names; without a core
\* the entry is not erased.
InMappedCore(heap, pointer) ==
  /\ pointer \in DOMAIN heap.alloc_to_core
  /\ heap.alloc_to_core[pointer] \in DOMAIN heap.cores

\* Mutant of TakenFromCore: the entry of alloc_to_core stays.
TakenEntryStays(heap, pointer) ==
  LET b == heap.alloc_to_core[pointer]
  IN  [heap EXCEPT !.cores[b] = CoreWithout(@, pointer),
                   !.used = Minus(@, RemovedBytes(heap.cores[b], pointer))]

TakenFromCore(heap, pointer) ==
  LET b == heap.alloc_to_core[pointer]
  IN  [heap EXCEPT !.cores[b] = CoreWithout(@, pointer),
                   !.alloc_to_core = Erase(@, pointer),
                   !.used = Minus(@, RemovedBytes(heap.cores[b], pointer))]

TakenFromOutside(heap, pointer) ==
  [heap EXCEPT !.used = Minus(@, heap.allocations[pointer])]

HeapFreesAll(heap) ==
  [heap EXCEPT !.cores = [b \in DOMAIN @ |-> [@[b] EXCEPT !.allocations = Empty]]]

-----------------------------------------------------------------------------
Init == heaps = Empty /\ last_update = 0 /\ crashed = FALSE

\* addEvent: every event, handled or not, ends with last_update_ = timestamp.
AddEvent(timestamp) ==
  /\ ~crashed
  /\ last_update' = timestamp

\* getHeap(id): an unknown id leaves everything as it is.
Known(id) == id \in DOMAIN heaps

Ignored == UNCHANGED <<heaps, crashed>>

Becomes(id, heap) == heaps' = [heaps EXCEPT ![id] = heap] /\ UNCHANGED crashed

HeapCreate(timestamp, id) ==
  /\ AddEvent(timestamp)
  /\ \E max_managed \in Garbage, max_used \in Garbage :
       heaps' = Emplace(heaps, id, NewHeap(timestamp, max_managed, max_used))
  /\ UNCHANGED crashed

\* An id cast to int, and back: the sign fills the upper half of the word.
AsInt(id) ==
  LET low == id % (2 * IntLimit)
  IN  IF low < IntLimit THEN low ELSE Word - 2 * IntLimit + low

\* Mutant of HeapDestroy: the heap is erased.
HeapDestroyErases(timestamp, id) ==
  /\ AddEvent(timestamp)
  /\ IF Known(AsInt(id)) THEN heaps' = Erase(heaps, AsInt(id)) /\ UNCHANGED crashed
                         ELSE Ignored

HeapDestroy(timestamp, id) ==
  /\ AddEvent(timestamp)
  /\ LET int == AsInt(id)
     IN  IF Known(int) THEN Becomes(int, [heaps[int] EXCEPT !.death = timestamp])
                       ELSE Ignored

AddCore(timestamp, id, pointer, size) ==
  /\ AddEvent(timestamp)
  /\ IF Known(id) THEN Becomes(id, HeapAddCore(heaps[id], pointer, size)) ELSE Ignored

GrowCore(timestamp, id, pointer, size) ==
  /\ AddEvent(timestamp)
  /\ IF Known(id) THEN Becomes(id, HeapGrowCore(heaps[id], pointer, size)) ELSE Ignored

RemoveCore(timestamp, id, pointer) ==
  /\ AddEvent(timestamp)
  /\ IF Known(id) THEN Becomes(id, HeapRemoveCore(heaps[id], pointer)) ELSE Ignored

Allocate(timestamp, id, pointer, size, owned) ==
  /\ AddEvent(timestamp)
  /\ \/ /\ Known(id) /\ owned
        /\ \E b \in Candidates(heaps[id], pointer, size) :
             /\ IsFirst(b, Candidates(heaps[id], pointer, size))
             /\ Becomes(id, Sample(PlacedIn(heaps[id], b, pointer, size), timestamp))
     \/ /\ Known(id) /\ ~owned
        /\ Becomes(id, Sample(PlacedOutside(heaps[id], pointer, size), timestamp))
     \/ /\ Known(id) => owned /\ Candidates(heaps[id], pointer, size) = {}
        /\ Ignored

Recorded(heap, pointer, owned) ==
  IF owned THEN InMappedCore(heap, pointer) ELSE pointer \in DOMAIN heap.allocations

Free(timestamp, id, pointer, owned) ==
  /\ AddEvent(timestamp)
  /\ IF Known(id) /\ Recorded(heaps[id], pointer, owned)
     THEN Becomes(id, Sample(IF owned THEN TakenFromCore(heaps[id], pointer)
                                      ELSE TakenFromOutside(heaps[id], pointer), timestamp))
     ELSE Ignored

\* Clears the allocations of every core; no counter and no alloc_to_core entry
\* changes, and no allocation without a core goes.
FreeAll(timestamp, id) ==
  /\ AddEvent(timestamp)
  /\ IF Known(id) THEN Becomes(id, HeapFreesAll(heaps[id])) ELSE Ignored

\* The result of getHeap is not tested here.
SetBackingAllocator(timestamp, for_heap, set_to_heap) ==
  /\ AddEvent(timestamp)
  /\ IF Known(for_heap)
     THEN /\ Len(heaps[for_heap].backing) < MaxBacking
          /\ Becomes(for_heap, [heaps[for_heap] EXCEPT !.backing = Append(@, set_to_heap)])
     ELSE crashed' = TRUE /\ UNCHANGED heaps

\* BeginStream (setInits), EventStart, EventEnd, EndStream, and HeapShrinkCore,
\* which has no case: shrinkCore is never called.
OtherEvent(timestamp) == AddEvent(timestamp) /\ Ignored

\* Backing allocators of a heap that getHeap does not find.
Unnamed(id) == Range(heaps[id].backing) \ DOMAIN heaps

\* The chart asks for the data of a heap: a heap that is not there is answered
\* with nothing, but the names of the backing allocators are read untested.
GetHeapInformation(id) ==
  /\ ~crashed /\ Known(id)
  /\ crashed' = (Unnamed(id) # {})
  /\ UNCHANGED <<heaps, last_update>>

Next ==
  \/ \E id \in HeapIds : GetHeapInformation(id)
  \/ \E t \in {s \in Times : s >= last_update} :
       \/ OtherEvent(t)
       \/ \E id \in HeapIds :
            \/ HeapCreate(t, id)
            \/ HeapDestroy(t, id)
            \/ FreeAll(t, id)
            \/ \E set_to_heap \in HeapIds : SetBackingAllocator(t, id, set_to_heap)
            \/ \E p \in Pointers :
                 \/ RemoveCore(t, id, p)
                 \/ \E owned \in BOOLEAN : Free(t, id, p, owned)
                 \/ \E size \in Sizes :
                      \/ AddCore(t, id, p, size)
                      \/ GrowCore(t, id, p, size)
                      \/ \E owned \in BOOLEAN : Allocate(t, id, p, size, owned)

Spec == Init /\ [][Next]_vars

-----------------------------------------------------------------------------
IsMap(f, Key, Value) == DOMAIN f \subseteq Key /\ \A k \in DOMAIN f : f[k] \in Value

IsCore(core) ==
  /\ core.managed \in Size /\ core.end \in Size /\ core.used \in Size
  /\ IsMap(core.allocations, Pointers, Sizes)

\* Types.  An entry of alloc_to_core may name a core that is gone.
TypeOK ==
  /\ DOMAIN heaps \subseteq HeapIds
  /\ last_update \in Times \cup {0}
  /\ crashed \in BOOLEAN
  /\ \A id \in DOMAIN heaps :
       LET heap == heaps[id]
       IN  /\ heap.birth \in Times /\ heap.death \in Times \cup {0}
           /\ {heap.used, heap.managed, heap.max_used, heap.max_managed} \subseteq Size
           /\ DOMAIN heap.cores \subseteq Pointers
           /\ \A b \in DOMAIN heap.cores : IsCore(heap.cores[b])
           /\ IsMap(heap.alloc_to_core, Pointers, Pointers)
           /\ IsMap(heap.allocations, Pointers, Sizes)
           /\ IsMap(heap.samples, Times, [used : Size, managed : Size])
           /\ heap.backing \in Seq(HeapIds)

Total(f) == FoldFunction(LAMBDA a, b : a + b, 0, f)

\* Whatever events arrive, in whatever order and with whatever arguments, a
\* heap's managed memory is what its cores manage: no order of add, grow and
\* remove, on cores known or unknown, makes the total drift from its parts.
ManagedIsSumOfCores ==
  \A id \in DOMAIN heaps :
    heaps[id].managed =
      Total([b \in DOMAIN heaps[id].cores |-> heaps[id].cores[b].managed]) % Word

\* Neither an event nor the chart makes the tool look into a heap that is not
\* there.
NoUnknownHeap == ~crashed

\* The curve of a heap ends at its used memory: every change of used memory is
\* sampled, and a sample overwritten by a later one of the same timestamp is
\* never the newer of the two.
CurveIsCurrent ==
  \A id \in DOMAIN heaps :
    LET samples == heaps[id].samples
        newest  == CHOOSE t \in DOMAIN samples : \A s \in DOMAIN samples : s <= t
    IN  heaps[id].used = IF samples = Empty THEN 0 ELSE samples[newest].used

=============================================================================
