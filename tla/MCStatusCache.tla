--------------------------- MODULE MCStatusCache ---------------------------
(* A small instance of StatusCache for TLC. *)
EXTENDS StatusCache

CONSTANTS c1, c2, b1

OneKey == {<<"http:", "d1">>}
=============================================================================
