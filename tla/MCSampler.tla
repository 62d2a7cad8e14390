------------------------------ MODULE MCSampler ------------------------------
(* Two seconds of four ticks, and windows from the start and the middle.      *)
EXTENDS Sampler

TwoSeconds == {0, 1}
OneTwoOrFour == {1, 2, 4}

=============================================================================
