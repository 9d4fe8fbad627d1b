----------------------------- MODULE MCSSHExec -----------------------------
(* A small instance of SSHExec for TLC. *)
EXTENDS SSHExec

CONSTANTS h1, t1, t2, c1

\* The long end of the documented +-20 % spread.
LongestJitter == {20}
=============================================================================
