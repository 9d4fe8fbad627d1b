------------------------------ MODULE MCFileSink ------------------------------
(* A small instance of FileSink for TLC. *)
EXTENDS FileSink

Intervals == {0, 5}   \* milliseconds
===============================================================================
