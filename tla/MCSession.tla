------------------------------ MODULE MCSession ------------------------------
(* Two connections of two events, and a user who clicks.                      *)
EXTENDS Session

Anything == AllMay
Nothing == {}

=============================================================================
