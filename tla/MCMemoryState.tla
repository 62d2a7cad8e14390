---------------------------- MODULE MCMemoryState ----------------------------
(* Every event with every argument, on a heap so small that sizes wrap.      *)
EXTENDS MemoryState

MCHeapIds == {0}
MCPointers == {0, 1}
MCSizes == {1}
MCTimes == {1}
MCGarbage == {0}

=============================================================================
