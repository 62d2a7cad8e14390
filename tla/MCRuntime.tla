------------------------------ MODULE MCRuntime ------------------------------
(* Two or three threads, a buffer in which an event and a half fit.          *)
EXTENDS Runtime

CONSTANTS t1, t2

Two == {main, t1}
Three == {main, t1, t2}

Locked == {"event", "flush", "shutdown", "init file", "init socket"}
Unlocked == {"event", "shrink core", "init socket"}

AnyPeer == AllPeerMay
NoFailure == {"pause"}

=============================================================================
