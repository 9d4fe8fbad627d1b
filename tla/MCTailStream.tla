----------------------------- MODULE MCTailStream -----------------------------
(* A small instance of TailStream for TLC. *)
EXTENDS TailStream

Given == {[buffer |-> 0, delays |-> 0], [buffer |-> 1, delays |-> 1]}
Standard == [buffer |-> 2, delays |-> 3]
===============================================================================
