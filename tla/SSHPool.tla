------------------------------ MODULE SSHPool ------------------------------
(***************************************************************************)
(* ssh.Pool: SSH clients reused per host under a cap of MaxPerHost.        *)
(*                                                                         *)
(* Caller goroutines Acquire, use, Release and Close; the pool itself runs *)
(* one cleanup loop and one keepalive loop per dialled client.  A step is  *)
(* what one goroutine does under the mutex, or one thing it does without   *)
(* it: connect, shake hands, close a client, close a swapped-out notify    *)
(* channel, start a keepalive, send a keepalive.                           *)
(*                                                                         *)
(* A notify channel is modelled by who waits on it: parked holds the       *)
(* waiters of the channels installed in the hosts, closing[t] the waiters  *)
(* of the channel t has swapped out and is about to close; any other       *)
(* waiter's channel is closed.  A host without an entry in the map behaves *)
(* as one with nothing idle, active or counted.                            *)
(***************************************************************************)
EXTENDS Integers, FiniteSets

CONSTANTS
    Host, Thread, Client,
    Cleaner,        \* the cleanup goroutine
    NoHost, NoClient,
    MaxPerHost

ASSUME PoolAssumption ==
    /\ IsFiniteSet(Thread) /\ IsFiniteSet(Client)
    /\ Cleaner \notin Thread /\ NoHost \notin Host /\ NoClient \notin Client
    /\ MaxPerHost \in Nat \ {0}

VARIABLES
    idle, active,  \* hostPool.idle (without its order) and hostPool.active
    total,         \* hostPool.total: idle + active + being dialled
    closed,        \* Pool.closed, set together with close(done)
    parked, closing,
    aged,          \* idle clients whose lastUsed is over IdleTimeout ago
    conn,          \* the connection under each client
    ka,            \* the keepalive loop of each client
    cleanup,       \* the cleanup loop is running
    doomed,        \* clients a goroutine took out and has still to close
    th,            \* the caller goroutines
    returned       \* the Close calls that returned: "first", "later"

poolVars == <<idle, active, total, closed, aged>>
netVars == <<conn, ka, cleanup>>
vars == <<poolVars, parked, closing, netVars, doomed, th, returned>>

Idle == [pc |-> "idle", host |-> NoHost, client |-> NoClient]

Init ==
    /\ idle = [h \in Host |-> {}] /\ active = [h \in Host |-> {}]
    /\ total = [h \in Host |-> 0]
    /\ closed = FALSE /\ parked = {} /\ closing = [t \in Thread |-> {}]
    /\ aged = {}
    /\ conn = [c \in Client |-> "closed"] /\ ka = [c \in Client |-> "off"]
    /\ cleanup = TRUE
    /\ doomed = [a \in Thread \cup {Cleaner} |-> {}]
    /\ th = [t \in Thread |-> Idle]
    /\ returned = {}
-----------------------------------------------------------------------------
\* Goroutine t is at pc, and has closed the clients it took out.
At(t, pc) == th[t].pc = pc /\ doomed[t] = {}
Goto(t, pc) == th' = [th EXCEPT ![t].pc = pc]
Return(t) == th' = [th EXCEPT ![t] = Idle]
Set(t, pc, h, c) == th' = [th EXCEPT ![t] = [pc |-> pc, host |-> h, client |-> c]]

\* The goroutines that wait on the channel installed in host h.
Waiters(h) == {t \in parked : th[t].host = h}

\* A client object nothing in the process refers to.
Unused(c) ==
    /\ conn[c] = "closed" /\ ka[c] = "off"
    /\ \A t \in Thread : th[t].client # c
    /\ \A a \in Thread \cup {Cleaner} : c \notin doomed[a]

Expired(h) == idle[h] \cap aged
-----------------------------------------------------------------------------
(* Acquire.                                                                *)
Acquire(t, h) ==
    /\ At(t, "idle")
    /\ Set(t, "try", h, NoClient)
    /\ UNCHANGED <<poolVars, parked, closing, netVars, doomed, returned>>

ReserveClosed(t) ==
    /\ At(t, "try") /\ closed
    /\ Return(t)
    /\ UNCHANGED <<poolVars, parked, closing, netVars, doomed, returned>>

\* reapHostLocked, at the head of reserveOrWait: expired clients leave the
\* pool and its count, and their waiters are told; t closes them after the
\* unlock.
Reap(t, h) ==
    /\ doomed' = [doomed EXCEPT ![t] = Expired(h)]
    /\ aged' = aged \ Expired(h)

Reaped(h) == total[h] - Cardinality(Expired(h))

ParkedAfterReap(h) == IF Expired(h) = {} THEN parked ELSE parked \ Waiters(h)

\* Mutant: the client is handed out and also left idle.
ReserveIdle_Keeps(t) ==
    /\ At(t, "try") /\ ~closed
    /\ \E c \in idle[th[t].host] : Set(t, "hold", th[t].host, c)
    /\ UNCHANGED <<poolVars, parked, closing, netVars, doomed, returned>>

ReserveIdle(t) ==
    LET h == th[t].host IN
    /\ At(t, "try") /\ ~closed
    /\ Reap(t, h)
    /\ \E c \in idle[h] \ Expired(h) :
          /\ idle' = [idle EXCEPT ![h] = (@ \ Expired(h)) \ {c}]
          /\ active' = [active EXCEPT ![h] = @ \cup {c}]
          /\ Set(t, "hold", h, c)
    /\ total' = [total EXCEPT ![h] = Reaped(h)]
    /\ parked' = ParkedAfterReap(h)
    /\ UNCHANGED <<closed, closing, netVars, returned>>

ReserveDial(t) ==
    LET h == th[t].host IN
    /\ At(t, "try") /\ ~closed
    /\ idle[h] \subseteq Expired(h) /\ Reaped(h) < MaxPerHost
    /\ Reap(t, h)
    /\ idle' = [idle EXCEPT ![h] = {}]
    /\ total' = [total EXCEPT ![h] = Reaped(h) + 1]
    /\ parked' = ParkedAfterReap(h)
    /\ Goto(t, "dial")
    /\ UNCHANGED <<active, closed, closing, netVars, returned>>

\* Nothing idle and the cap reached: nothing can have been reaped either.
ReserveWait(t) ==
    LET h == th[t].host IN
    /\ At(t, "try") /\ ~closed
    /\ idle[h] \subseteq Expired(h) /\ Reaped(h) >= MaxPerHost
    /\ Reap(t, h)
    /\ idle' = [idle EXCEPT ![h] = {}]
    /\ total' = [total EXCEPT ![h] = Reaped(h)]
    /\ parked' = ParkedAfterReap(h) \cup {t}
    /\ Goto(t, "wait")
    /\ UNCHANGED <<active, closed, closing, netVars, returned>>

\* The select: the channel, the context or done.
Wake(t) ==
    /\ At(t, "wait") /\ t \notin parked
    /\ \A r \in Thread : t \notin closing[r]
    /\ Goto(t, "try")
    /\ UNCHANGED <<poolVars, parked, closing, netVars, doomed, returned>>

LeaveWait(t) ==
    /\ Return(t)
    /\ parked' = parked \ {t}
    /\ closing' = [r \in Thread |-> closing[r] \ {t}]
    /\ UNCHANGED <<poolVars, netVars, doomed, returned>>

\* Mutant: the select does not listen to the context.
Timeout_Ignored(t) == At(t, "wait") /\ closed /\ LeaveWait(t)

Timeout(t) == At(t, "wait") /\ LeaveWait(t)
SeeDone(t) == At(t, "wait") /\ closed /\ LeaveWait(t)

\* NetDialer.Dial: the TCP connection is up, NewClientConn starts the SSH
\* handshake on it.
Connect(t) ==
    /\ At(t, "dial")
    /\ Goto(t, "handshake")
    /\ UNCHANGED <<poolVars, parked, closing, netVars, doomed, returned>>

\* The goroutine is inside dialReserved, before the lock is taken again.
InDial(t) == At(t, "dial") \/ At(t, "handshake")

\* Mutant: the reservation of a failed dial is kept.
DialFail_KeepsSlot(t) ==
    /\ InDial(t)
    /\ Return(t)
    /\ UNCHANGED <<poolVars, parked, closing, netVars, doomed, returned>>

\* dialReserved: Config, the TCP dial or the handshake fails, and
\* releaseReservation gives the slot back and closes the channel under the lock.
DialFail(t) ==
    LET h == th[t].host IN
    /\ InDial(t)
    /\ IF total[h] > 0
       THEN /\ total' = [total EXCEPT ![h] = @ - 1]
            /\ parked' = parked \ Waiters(h)
       ELSE UNCHANGED <<total, parked>>
    /\ Return(t)
    /\ UNCHANGED <<idle, active, closed, aged, closing, netVars, doomed,
                   returned>>

DialOk(t, c) ==
    /\ At(t, "handshake") /\ Unused(c)
    /\ conn' = [conn EXCEPT ![c] = "open"]
    /\ Set(t, "dialed", th[t].host, c)
    /\ UNCHANGED <<poolVars, parked, closing, ka, cleanup, doomed, returned>>

\* Mutant: closed is not checked again after the dial.
Register_NoRecheck(t) ==
    /\ At(t, "dialed")
    /\ active' = [active EXCEPT ![th[t].host] = @ \cup {th[t].client}]
    /\ Goto(t, "start")
    /\ UNCHANGED <<idle, total, closed, aged, parked, closing, netVars, doomed,
                   returned>>

\* Under the lock again: the pool may have been closed during the dial.
Register(t) ==
    LET h == th[t].host
        c == th[t].client
    IN
    /\ At(t, "dialed")
    /\ IF closed
       THEN /\ total' = [total EXCEPT ![h] = @ - 1]
            /\ doomed' = [doomed EXCEPT ![t] = {c}]
            /\ Return(t)
            /\ UNCHANGED active
       ELSE /\ active' = [active EXCEPT ![h] = @ \cup {c}]
            /\ Goto(t, "start")
            /\ UNCHANGED <<total, doomed>>
    /\ UNCHANGED <<idle, closed, aged, parked, closing, netVars, returned>>

\* startKeepalive, after the unlock.
StartKeepalive(t) ==
    /\ At(t, "start")
    /\ ka' = [ka EXCEPT ![th[t].client] = "wait"]
    /\ Goto(t, "hold")
    /\ UNCHANGED <<poolVars, parked, closing, conn, cleanup, doomed, returned>>
-----------------------------------------------------------------------------
(* Release.  Once the pool is closed active is empty, so the branch that   *)
(* closes the released client is never taken.  A caller releases once.     *)

ReleaseNoop(t) ==
    /\ At(t, "hold") /\ th[t].client \notin active[th[t].host]
    /\ Return(t)
    /\ UNCHANGED <<poolVars, parked, closing, netVars, doomed, returned>>

\* Mutant: the client is put back and the channel is not swapped out.
Release_Silent(t) ==
    LET h == th[t].host
        c == th[t].client
    IN
    /\ At(t, "hold") /\ c \in active[h]
    /\ active' = [active EXCEPT ![h] = @ \ {c}]
    /\ idle' = [idle EXCEPT ![h] = @ \cup {c}]
    /\ Goto(t, "notify")
    /\ UNCHANGED <<total, closed, aged, parked, closing, netVars, doomed,
                   returned>>

Release(t) ==
    LET h == th[t].host
        c == th[t].client
    IN
    /\ At(t, "hold") /\ c \in active[h]
    /\ active' = [active EXCEPT ![h] = @ \ {c}]
    /\ idle' = [idle EXCEPT ![h] = @ \cup {c}]
    /\ closing' = [closing EXCEPT ![t] = Waiters(h)]
    /\ parked' = parked \ Waiters(h)
    /\ Goto(t, "notify")
    /\ UNCHANGED <<total, closed, aged, netVars, doomed, returned>>

\* close(notify), after the unlock.
Notify(t) ==
    /\ At(t, "notify")
    /\ closing' = [closing EXCEPT ![t] = {}]
    /\ Return(t)
    /\ UNCHANGED <<poolVars, parked, netVars, doomed, returned>>
-----------------------------------------------------------------------------
(* Close.                                                                  *)
CloseAgain(t) ==
    /\ At(t, "idle") /\ closed
    /\ returned' = returned \cup {"later"}
    /\ UNCHANGED <<poolVars, parked, closing, netVars, doomed, th>>

\* Mutant: Close forgets the clients that are in use.
Close_IdleOnly(t) ==
    /\ At(t, "idle") /\ ~closed
    /\ closed' = TRUE
    /\ doomed' = [doomed EXCEPT ![t] = UNION {idle[h] : h \in Host}]
    /\ idle' = [h \in Host |-> {}] /\ active' = [h \in Host |-> {}]
    /\ total' = [h \in Host |-> 0]
    /\ parked' = {} /\ aged' = {}
    /\ Goto(t, "closing")
    /\ UNCHANGED <<closing, netVars, returned>>

Close(t) ==
    /\ At(t, "idle") /\ ~closed
    /\ closed' = TRUE
    /\ doomed' = [doomed EXCEPT ![t] =
                    UNION {idle[h] \cup active[h] : h \in Host}]
    /\ idle' = [h \in Host |-> {}] /\ active' = [h \in Host |-> {}]
    /\ total' = [h \in Host |-> 0]
    /\ parked' = {}
    /\ aged' = {}
    /\ Goto(t, "closing")
    /\ UNCHANGED <<closing, netVars, returned>>

\* Mutant: Close does not wait for the background goroutines.
CloseReturn_NoWait(t) ==
    /\ At(t, "closing")
    /\ returned' = returned \cup {"first"}
    /\ Return(t)
    /\ UNCHANGED <<poolVars, parked, closing, netVars, doomed>>

\* wg.Wait returns once the cleanup loop and every keepalive have exited.
CloseReturn(t) ==
    /\ At(t, "closing")
    /\ ~cleanup /\ \A c \in Client : ka[c] = "off"
    /\ returned' = returned \cup {"first"}
    /\ Return(t)
    /\ UNCHANGED <<poolVars, parked, closing, netVars, doomed>>

\* client.Close by a goroutine that took the client out of the pool.
CloseClient(a, c) ==
    /\ c \in doomed[a]
    /\ doomed' = [doomed EXCEPT ![a] = @ \ {c}]
    /\ conn' = [conn EXCEPT ![c] = "closed"]
    /\ UNCHANGED <<poolVars, parked, closing, ka, cleanup, th, returned>>
-----------------------------------------------------------------------------
(* Background loops and the network.                                       *)
\* ReapIdle on a tick of cleanupLoop.
CleanupTick ==
    /\ cleanup /\ doomed[Cleaner] = {}
    /\ \E h \in Host : Expired(h) # {}
    /\ doomed' = [doomed EXCEPT ![Cleaner] = UNION {Expired(h) : h \in Host}]
    /\ total' = [h \in Host |-> Reaped(h)]
    /\ idle' = [h \in Host |-> idle[h] \ Expired(h)]
    /\ parked' = parked \ UNION {Waiters(h) : h \in
                                   {g \in Host : Expired(g) # {}}}
    /\ aged' = aged \ UNION {Expired(h) : h \in Host}
    /\ UNCHANGED <<active, closed, closing, netVars, th, returned>>

CleanupExit ==
    /\ cleanup /\ doomed[Cleaner] = {} /\ closed
    /\ cleanup' = FALSE
    /\ UNCHANGED <<poolVars, parked, closing, conn, ka, doomed, th, returned>>

\* keepaliveLoop: a tick passes the re-check of done, or the loop ends.
KeepaliveTick(c) ==
    /\ ka[c] = "wait" /\ ~closed
    /\ ka' = [ka EXCEPT ![c] = "send"]
    /\ UNCHANGED <<poolVars, parked, closing, conn, cleanup, doomed, th,
                   returned>>

KeepaliveDone(c) ==
    /\ ka[c] = "wait" /\ closed
    /\ ka' = [ka EXCEPT ![c] = "off"]
    /\ UNCHANGED <<poolVars, parked, closing, conn, cleanup, doomed, th,
                   returned>>

\* SendRequest: answered, or it fails because the connection is gone.
KeepaliveReply(c) ==
    /\ ka[c] = "send" /\ conn[c] = "open"
    /\ ka' = [ka EXCEPT ![c] = "wait"]
    /\ UNCHANGED <<poolVars, parked, closing, conn, cleanup, doomed, th,
                   returned>>

KeepaliveError(c) ==
    /\ ka[c] = "send" /\ conn[c] # "open"
    /\ ka' = [ka EXCEPT ![c] = "off"]
    /\ UNCHANGED <<poolVars, parked, closing, conn, cleanup, doomed, th,
                   returned>>

\* The connection dies under the client; the idle timeout passes.
Break(c) ==
    /\ conn[c] = "open"
    /\ conn' = [conn EXCEPT ![c] = "dead"]
    /\ UNCHANGED <<poolVars, parked, closing, ka, cleanup, doomed, th, returned>>

Age(c) ==
    /\ \E h \in Host : c \in idle[h]
    /\ aged' = aged \cup {c}
    /\ UNCHANGED <<idle, active, total, closed, parked, closing, netVars,
                   doomed, th, returned>>
-----------------------------------------------------------------------------
\* The steps of goroutine t that its caller does not decide.
Progress(t) ==
    \/ ReserveClosed(t) \/ ReserveIdle(t) \/ ReserveDial(t) \/ ReserveWait(t)
    \/ Wake(t) \/ SeeDone(t) \/ Connect(t) \/ (At(t, "dial") /\ DialFail(t))
    \/ Register(t) \/ StartKeepalive(t) \/ Notify(t) \/ CloseReturn(t)

\* What the server decides: how the handshake ends.
Handshake(t) ==
    At(t, "handshake") /\ (DialFail(t) \/ \E c \in Client : DialOk(t, c))

Calls(t) ==
    \/ \E h \in Host : Acquire(t, h)
    \/ ReleaseNoop(t) \/ Release(t) \/ CloseAgain(t) \/ Close(t)

Keepalive(c) ==
    KeepaliveTick(c) \/ KeepaliveDone(c) \/ KeepaliveReply(c)
        \/ KeepaliveError(c)

Next ==
    \/ \E t \in Thread : Progress(t) \/ Handshake(t) \/ Calls(t) \/ Timeout(t)
    \/ \E a \in Thread \cup {Cleaner}, c \in Client : CloseClient(a, c)
    \/ CleanupTick \/ CleanupExit
    \/ \E c \in Client : Keepalive(c) \/ Break(c) \/ Age(c)

Spec == Init /\ [][Next]_vars

\* Goroutines that can run do; a TCP dial ends, its context has a deadline
\* (Acquire adds AcquireTimeout to one without); a context past its deadline
\* stays done, so a select that is reached again and again takes it (strong
\* fairness).  A handshake may never end: NewClientConn is given neither the
\* context nor a deadline on the connection.  Nothing is assumed of callers,
\* of the server's keepalive replies or of ticks.
FairSpec ==
    /\ Spec
    /\ \A t \in Thread : WF_vars(Progress(t)) /\ SF_vars(Timeout(t))
    /\ \A a \in Thread \cup {Cleaner} :
          WF_vars(\E c \in Client : CloseClient(a, c))
    /\ WF_vars(CleanupExit)
    /\ \A c \in Client : WF_vars(KeepaliveDone(c)) /\ WF_vars(KeepaliveError(c))
-----------------------------------------------------------------------------
(* Properties.                                                             *)
Pcs == {"idle", "try", "wait", "dial", "handshake", "dialed", "start", "hold",
        "notify", "closing"}

\* Every field of Pool, hostPool and of the goroutines stays in its type.
\* Close resets total while dials are in flight, so it may go below zero.
TypeOK ==
    /\ idle \in [Host -> SUBSET Client] /\ active \in [Host -> SUBSET Client]
    /\ total \in [Host -> Int]
    /\ closed \in BOOLEAN /\ cleanup \in BOOLEAN
    /\ parked \subseteq Thread /\ closing \in [Thread -> SUBSET Thread]
    /\ aged \subseteq Client
    /\ conn \in [Client -> {"open", "dead", "closed"}]
    /\ ka \in [Client -> {"off", "wait", "send"}]
    /\ doomed \in [Thread \cup {Cleaner} -> SUBSET Client]
    /\ th \in [Thread -> [pc : Pcs, host : Host \cup {NoHost},
                          client : Client \cup {NoClient}]]
    /\ returned \subseteq {"first", "later"}

\* The goroutines between reserving a slot of h and registering its client.
Dialling(h) ==
    {t \in Thread : th[t].pc \in {"dial", "handshake", "dialed"} /\ th[t].host = h}

\* reserveOrWait, dialReserved, releaseReservation, reapHostLocked: every slot
\* counted in total is an idle client, an active one or a dial in flight; so a
\* failed dial or a reap loses no slot and the cap holds at every step.
SlotAccounting ==
    ~closed => \A h \in Host :
        /\ total[h] = Cardinality(idle[h]) + Cardinality(active[h])
                        + Cardinality(Dialling(h))
        /\ total[h] <= MaxPerHost

Using(t) == th[t].pc \in {"start", "hold"}

\* Acquire: no two goroutines hold one client, and an idle client is held by
\* none, so sessions of two callers never share a connection by accident.
ExclusiveHold ==
    \A t \in Thread : Using(t) =>
        /\ \A u \in Thread \ {t} : Using(u) => th[u].client # th[t].client
        /\ \A h \in Host : th[t].client \notin idle[h]

\* Acquire / Release / releaseReservation / reapHostLocked: a goroutine waits
\* on an installed channel only while its host has nothing to give.  Whatever
\* frees a client or a slot also swaps that channel out.
NoLostWakeup ==
    ~closed => \A t \in parked :
        idle[th[t].host] = {} /\ total[th[t].host] >= MaxPerHost

\* A client that is idle or active for some host.
InPool(c) == \E h \in Host : c \in idle[h] \cup active[h]
\* Goroutine t has dialled c and not yet registered it.
Fetched(t, c) == th[t].pc = "dialed" /\ th[t].client = c

AtOnePlace(c) ==
    /\ \A h, k \in Host : c \in idle[h] =>
          c \notin active[k] /\ (h # k => c \notin idle[k])
    /\ \A h, k \in Host : c \in active[h] /\ h # k => c \notin active[k]
    /\ \A a, b \in Thread \cup {Cleaner} : c \in doomed[a] =>
          ~InPool(c) /\ (a # b => c \notin doomed[b])
    /\ \A t, u \in Thread : Fetched(t, c) =>
          ~InPool(c) /\ (t # u => ~Fetched(u, c))
    /\ \A a \in Thread \cup {Cleaner}, t \in Thread :
          c \in doomed[a] => ~Fetched(t, c)

\* reserveOrWait, dialReserved, Release, reapHostLocked, Close: at every step a
\* client is in at most one place (idle or active for one host, just dialled by
\* one goroutine, or taken out by one goroutine that will close it), so it is
\* never handed out while it is being closed, nor closed twice.
OnePlace == \A c \in Client : AtOnePlace(c)

Owned(c) ==
    \/ InPool(c) \/ \E t \in Thread : Fetched(t, c)
    \/ \E a \in Thread \cup {Cleaner} : c \in doomed[a]

\* Close and the closed branch of dialReserved: a connection that is not
\* closed is in the pool, or with a goroutine that will register or close it;
\* none is forgotten, even when it is dialled while Close runs.
NoLeakedConnection == \A c \in Client : conn[c] # "closed" => Owned(c)

\* Close: once it returned, no keepalive request reaches a live connection.
NoTrafficAfterClose ==
    "first" \in returned => \A c \in Client : ~(ka[c] = "send" /\ conn[c] = "open")

\* Acquire: every call returns, with a client or with an error, unless its own
\* handshake is never answered: nothing bounds a handshake, although
\* NetDialer.Dial (dialer.go:18-20) says that config.Timeout governs its
\* deadline.  A handshake of another caller that hangs keeps its slot, and
\* costs the callers behind it only their timeout.
AcquireReturns ==
    \A t \in Thread :
        \/ th[t].pc \in {"try", "wait", "dial", "handshake", "dialed", "start"}
               ~> th[t].pc \in {"hold", "idle"}
        \/ <>[](th[t].pc = "handshake")

\* Close: wg.Wait cannot hang on a keepalive whose server never answers, nor
\* on a client that a reaping goroutine took out before Close ran.
CloseReturns == \A t \in Thread : th[t].pc = "closing" ~> th[t].pc # "closing"

\* Nobody who called the pool waits for ever, but in a handshake of his own.
CallsReturn == AcquireReturns /\ CloseReturns

\* The promise to callers that Exec and Reconnect build on: through every
\* interleaving of reserve, dial, register, release, reap and Close, clients
\* change hands as PoolContract says.
Contract == INSTANCE PoolContract WITH held <- active, open <- ~closed
ImplementsContract == Contract!Spec
=============================================================================
