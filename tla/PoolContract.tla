---------------------------- MODULE PoolContract ----------------------------
(***************************************************************************)
(* What ssh.Pool promises its callers, without its mutex, waiters, dials   *)
(* and timers: while it is open it hands a client to one caller at a time, *)
(* and at most MaxPerHost of them per host; Close takes them all away for  *)
(* good.  SSHPool implements it, SSHExec relies on it.                     *)
(***************************************************************************)
EXTENDS Integers, FiniteSets

CONSTANTS Host, Client, MaxPerHost

VARIABLES
    held,   \* the clients callers of each host have in hand
    open    \* Close has not been called

poolVars == <<held, open>>

Init == held = [h \in Host |-> {}] /\ open = TRUE

\* Acquire of host h returns client c.
Grant(h, c) ==
    /\ open
    /\ \A g \in Host : c \notin held[g]
    /\ Cardinality(held[h]) < MaxPerHost
    /\ held' = [held EXCEPT ![h] = @ \cup {c}]
    /\ UNCHANGED open

\* Release of client c of host h.
GiveBack(h, c) ==
    /\ c \in held[h]
    /\ held' = [held EXCEPT ![h] = @ \ {c}]
    /\ UNCHANGED open

\* Close.
Shut ==
    /\ open
    /\ open' = FALSE
    /\ held' = [h \in Host |-> {}]

Next == Shut \/ \E h \in Host, c \in Client : Grant(h, c) \/ GiveBack(h, c)

Spec == Init /\ [][Next]_poolVars
=============================================================================
