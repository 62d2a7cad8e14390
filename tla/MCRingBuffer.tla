---------------------------- MODULE MCRingBuffer ----------------------------
(* A ring of three bytes over two byte values: chunks up to the capacity     *)
(* wrap at every position, fill the ring exactly and overrun it.             *)
EXTENDS RingBuffer

MCByte == {0, 1}

=============================================================================
