-------------------------- MODULE MCBlockAllocator --------------------------
(* Three blocks of one byte, and two of two bytes.                            *)
EXTENDS BlockAllocator, TLC

TwoSizes == ("A" :> 1) @@ ("B" :> 2)
TwoCounts == ("A" :> 3) @@ ("B" :> 2)
TwoHeaps == {0, 1}
SevenBytes == 0 .. 6
Somewhere == {0, 3}
UpTo4 == 1 .. 4
Now == {1}
NoGarbage == {0}

=============================================================================
