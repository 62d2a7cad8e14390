---------------------------- MODULE MCTracedHeaps ----------------------------
(* A heap on three addresses, and an older one that may back it; time passes  *)
(* once.  An int holds the id of the older one only.                          *)
EXTENDS TracedHeaps

TwoHeaps == {0, 1}
OneHeap == {0}
TheOther == {1}

ThreeBytes == 0 .. 2
UpTo3 == 1 .. 3
NowAndLater == {1, 2}
SomeGarbage == {1}

=============================================================================
