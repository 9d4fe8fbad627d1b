----------------------------- MODULE MCSSHPool -----------------------------
(* A small instance of SSHPool for TLC. *)
EXTENDS SSHPool

CONSTANTS h1, h2, t1, t2, c1, c2
=============================================================================
