---------------------------- MODULE TracedHeaps ----------------------------
(***************************************************************************)
(* The memory state fed by a traced program that uses the event functions  *)
(* of runtime/MemTrace.h as the tool reads them (TSpec): it never shrinks  *)
(* a core, which the tool does not follow, and for a core that grows it    *)
(* sends the growth, which the tool adds to the size.  The header asks for *)
(* the new size there; a program that does as it says is another           *)
(* specification (HeaderSpec).  Every action is a step of the program on   *)
(* its own heaps (truth) and the event it sends for it, handled by the     *)
(* tool (MemoryState.tla).                                                 *)
(***************************************************************************)
EXTENDS MemoryState

CONSTANTS MaxOutside,  \* bound: allocations of a heap without a core
          Busy         \* bound: heaps with memory; the others only back them

ASSUME ProgramAssumption ==
  /\ MaxOutside \in Nat /\ HeapIds \subseteq Nat /\ Busy \subseteq HeapIds
  /\ \A p \in Pointers : p + 1 < Word   \* the address behind a block is one too

VARIABLE truth   \* the program's heaps: cores and live allocations with their
                 \* sizes, closing after HeapFreeAll, gone after HeapDestroy,
                 \* outside: where it ever allocated without a core

tracedVars == <<vars, truth>>

NewTruth ==
  [cores |-> Empty, live |-> Empty, outside |-> {}, closing |-> FALSE, gone |-> FALSE]

InUse(id) == id \in DOMAIN truth /\ ~truth[id].gone

Usable(id) == InUse(id) /\ ~truth[id].closing

Does(id, heap) == truth' = [truth EXCEPT ![id] = heap]

Bytes(pointer, size) == pointer .. (pointer + size - 1)

CoreBytes(id, b) == Bytes(b, truth[id].cores[b])

Managed(id) == UNION {CoreBytes(id, b) : b \in DOMAIN truth[id].cores}

LiveBytes(id) == UNION {Bytes(p, truth[id].live[p].size) : p \in DOMAIN truth[id].live}

Taken(id) == Managed(id) \cup LiveBytes(id)

\* Addresses the model has: all events stay within them.
Addressable(pointer, size) == Bytes(pointer, size) \subseteq Pointers

-----------------------------------------------------------------------------
TInit == Init /\ truth = Empty

\* Ids are handed out in order.
PHeapCreate(t, id) ==
  /\ id \notin DOMAIN truth /\ \A n \in HeapIds : n < id => n \in DOMAIN truth
  /\ truth' = Put(truth, id, NewTruth)
  /\ HeapCreate(t, id)

PHeapDestroy(t, id) ==
  /\ InUse(id)
  /\ Does(id, [truth[id] EXCEPT !.gone = TRUE])
  /\ HeapDestroy(t, id)

PAddCore(t, id, b, size) ==
  /\ Usable(id)
  /\ size > 0 /\ Addressable(b, size) /\ Bytes(b, size) \cap Taken(id) = {}
  /\ Does(id, [truth[id] EXCEPT !.cores = Put(@, b, size)])
  /\ AddCore(t, id, b, size)

Grows(id, b, growth) ==
  /\ Usable(id) /\ b \in DOMAIN truth[id].cores
  /\ LET size == truth[id].cores[b]
     IN  /\ growth > 0 /\ Addressable(b, size + growth)
         /\ Bytes(b + size, growth) \cap Taken(id) = {}
         /\ Does(id, [truth[id] EXCEPT !.cores[b] = size + growth])

PGrowCore(t, id, b, growth) ==
  /\ Grows(id, b, growth)
  /\ GrowCore(t, id, b, growth)

\* The parameter as MemTrace.h has it: new_size_bytes, "The new size of the core".
PGrowCoreToSize(t, id, b, growth) ==
  /\ Grows(id, b, growth)
  /\ GrowCore(t, id, b, truth[id].cores[b] + growth)

\* A core is given back when none of its bytes is in use.
PRemoveCore(t, id, b) ==
  /\ InUse(id) /\ b \in DOMAIN truth[id].cores
  /\ CoreBytes(id, b) \cap LiveBytes(id) = {}
  /\ Does(id, [truth[id] EXCEPT !.cores = Erase(@, b)])
  /\ RemoveCore(t, id, b)

(***************************************************************************)
(* Free bytes of the heap's cores; they may belong to two cores that touch *)
(* (heap.cc:95 "does the allocation span over two cores?") but not three.  *)
(***************************************************************************)
PAllocate(t, id, p, size) ==
  /\ Usable(id) /\ size > 0
  /\ Bytes(p, size) \subseteq Managed(id) \ LiveBytes(id)
  /\ Cardinality({b \in DOMAIN truth[id].cores :
                    CoreBytes(id, b) \cap Bytes(p, size) # {}}) <= 2
  /\ Does(id, [truth[id] EXCEPT !.live = Put(@, p, [size |-> size, owned |-> TRUE])])
  /\ Allocate(t, id, p, size, TRUE)

\* Bytes of no core, at an address it never used in this way before: the tool
\* keeps such an address for ever, with its first size.
PAllocateOutside(t, id, p, size) ==
  /\ Usable(id) /\ size > 0 /\ Addressable(p, size)
  /\ Bytes(p, size) \cap Taken(id) = {} /\ p \notin truth[id].outside
  /\ Cardinality(truth[id].outside) < MaxOutside
  /\ Does(id, [truth[id] EXCEPT !.live = Put(@, p, [size |-> size, owned |-> FALSE]),
                                !.outside = @ \cup {p}])
  /\ Allocate(t, id, p, size, FALSE)

PFree(t, id, p) ==
  /\ Usable(id) /\ p \in DOMAIN truth[id].live
  /\ Does(id, [truth[id] EXCEPT !.live = Erase(@, p)])
  /\ Free(t, id, p, truth[id].live[p].owned)

\* MemTrace.h: "Used when a memory allocator is destroyed".
PFreeAll(t, id) ==
  /\ Usable(id)
  /\ Does(id, [truth[id] EXCEPT !.live = Empty, !.closing = TRUE])
  /\ FreeAll(t, id)

PSetBackingAllocator(t, id, set_to_heap) ==
  /\ InUse(id) /\ InUse(set_to_heap)
  /\ SetBackingAllocator(t, id, set_to_heap)
  /\ UNCHANGED truth

POther(t) ==
  /\ OtherEvent(t)
  /\ UNCHANGED truth

\* The user looks at a heap while the program goes on.
UserLooks(id) == GetHeapInformation(id) /\ UNCHANGED truth

NextOfHeap(t, id) == PHeapCreate(t, id) \/ PHeapDestroy(t, id)

NextOfBusy(t, id) ==
  \/ PFreeAll(t, id)
  \/ \E other \in HeapIds : PSetBackingAllocator(t, id, other)
  \/ \E p \in Pointers :
       \/ PRemoveCore(t, id, p)
       \/ PFree(t, id, p)
       \/ \E size \in Sizes :
            \/ PAddCore(t, id, p, size)
            \/ PAllocate(t, id, p, size)
            \/ PAllocateOutside(t, id, p, size)

NextButGrowth ==
  \/ \E id \in HeapIds : UserLooks(id)
  \/ \E t \in {s \in Times : s >= last_update} :
       \/ POther(t)
       \/ \E id \in HeapIds : NextOfHeap(t, id)
       \/ \E id \in Busy : NextOfBusy(t, id)

TNext ==
  \/ NextButGrowth
  \/ \E t \in {s \in Times : s >= last_update}, id \in Busy, p \in Pointers, size \in Sizes :
       PGrowCore(t, id, p, size)

TSpec == TInit /\ [][TNext]_tracedVars

\* The program that follows MemTrace.h to the letter.
HeaderNext ==
  \/ NextButGrowth
  \/ \E t \in {s \in Times : s >= last_update}, id \in Busy, p \in Pointers, size \in Sizes :
       PGrowCoreToSize(t, id, p, size)

HeaderSpec == TInit /\ [][HeaderNext]_tracedVars

-----------------------------------------------------------------------------
LiveTotal(id) == Total([p \in DOMAIN truth[id].live |-> truth[id].live[p].size])

\* Used memory is the size of what is allocated and not freed, whatever cores
\* the allocations lie in, span, or share an address border with.
UsedIsLive ==
  \A id \in DOMAIN truth : ~truth[id].closing => heaps[id].used = LiveTotal(id)

\* The tool knows the heaps of the program, the dead ones too; managed memory,
\* the cores and their ends are those of the program.
CoresAreKnown ==
  /\ DOMAIN heaps = DOMAIN truth
  /\ \A id \in DOMAIN truth :
       /\ DOMAIN heaps[id].cores = DOMAIN truth[id].cores
       /\ \A b \in DOMAIN truth[id].cores :
            /\ heaps[id].cores[b].managed = truth[id].cores[b]
            /\ heaps[id].cores[b].end = b + truth[id].cores[b]
       /\ heaps[id].managed = Total(truth[id].cores)

\* Every live allocation can be found again when it is freed: alloc_to_core
\* names a core the program still has, which holds the first byte of the
\* allocation and has recorded it with its size; without a core, the heap itself
\* has it with its size.  Nothing freed is recorded any more, and a core's used
\* memory is what it records.  Whether a second core records an allocation that
\* spans two is left open: the code does not do it, and Todo.md:11 plans it.
LiveIsRecorded ==
  \A id \in DOMAIN truth : ~truth[id].closing =>
    LET heap  == heaps[id]
        owned == {p \in DOMAIN truth[id].live : truth[id].live[p].owned}
    IN  /\ \A p \in DOMAIN truth[id].live \ owned :
             p \in DOMAIN heap.allocations /\ heap.allocations[p] = truth[id].live[p].size
        /\ DOMAIN heap.alloc_to_core = owned
        /\ \A p \in owned : /\ InMappedCore(heap, p)
                            /\ LET b == heap.alloc_to_core[p]
                               IN  /\ b <= p /\ p < heap.cores[b].end
                                   /\ p \in DOMAIN heap.cores[b].allocations
        /\ \A b \in DOMAIN heap.cores :
             /\ \A p \in DOMAIN heap.cores[b].allocations :
                  p \in owned /\ heap.cores[b].allocations[p] = truth[id].live[p].size
             /\ heap.cores[b].used = Total(heap.cores[b].allocations)

\* The maxima shown are never below the present values, whatever was in the
\* uninitialised fields.
PeaksCover ==
  \A id \in DOMAIN heaps : /\ heaps[id].max_used >= heaps[id].used
                           /\ heaps[id].max_managed >= heaps[id].managed

=============================================================================
