--------------------------- MODULE SSHPoolProofs ---------------------------
(***************************************************************************)
(* Proofs about SSHPool for every number of hosts, goroutines and clients  *)
(* and every cap: type correctness, one place per client, the slot count   *)
(* and its cap, no lost wake-up, exclusive use, and that the pool          *)
(* implements PoolContract.                                                *)
(***************************************************************************)
EXTENDS SSHPool, FiniteSetTheorems, TLAPS

(***************************************************************************)
(* Type correctness.  Beside TypeOK: a goroutine past the start of Acquire *)
(* has a host, and one that was given a client has a client.               *)
(***************************************************************************)
HasHost(t) == th[t].pc \notin {"idle", "closing"}
HasClient(t) == th[t].pc \in {"dialed", "start", "hold", "notify"}

Typed ==
    /\ TypeOK
    /\ \A t \in Thread : HasHost(t) => th[t].host \in Host
    /\ \A t \in Thread : HasClient(t) => th[t].client \in Client

\* Init: the empty pool is well typed.
LEMMA TypedInit == Init => Typed
<1> SUFFICES ASSUME Init PROVE Typed
  OBVIOUS
<1> USE PoolAssumption DEF Init, Idle
<1>1. closed \in BOOLEAN /\ cleanup \in BOOLEAN
  OBVIOUS
<1>2. th \in [Thread -> [pc : Pcs, host : Host \cup {NoHost},
                         client : Client \cup {NoClient}]]
  BY DEF Pcs
<1>3. TypeOK
  BY <1>1, <1>2 DEF TypeOK
<1>4. QED
  BY <1>3 DEF Typed, HasHost, HasClient

\* Every step of Acquire, Release, Close and of the background loops keeps
\* the types and gives each goroutine a host and a client where it uses one.
LEMMA TypedNext == Typed /\ [Next]_vars => Typed'
<1> SUFFICES ASSUME Typed, [Next]_vars PROVE Typed'
  OBVIOUS
<1> USE PoolAssumption DEF Typed, TypeOK, HasHost, HasClient, Pcs, At, InDial, Goto,
        Return, Set, Idle, poolVars, netVars
<1>1. ASSUME NEW t \in Thread, NEW h \in Host, Acquire(t, h) PROVE Typed'
  BY <1>1 DEF Acquire
<1>2. ASSUME NEW t \in Thread, ReserveClosed(t) PROVE Typed'
  BY <1>2 DEF ReserveClosed
<1>3. ASSUME NEW t \in Thread, ReserveIdle(t) PROVE Typed'
  <2> DEFINE h == th[t].host
  <2>1. h \in Host
    BY <1>3 DEF ReserveIdle
  <2>2. Cardinality(Expired(h)) \in Nat
    BY <2>1, FS_Subset, FS_CardinalityType DEF Expired
  <2> HIDE DEF h
  <2>3. PICK c \in idle[h] \ Expired(h) :
          /\ idle' = [idle EXCEPT ![h] = (@ \ Expired(h)) \ {c}]
          /\ active' = [active EXCEPT ![h] = @ \cup {c}]
          /\ Set(t, "hold", h, c)
    BY <1>3 DEF ReserveIdle, h
  <2>4. /\ doomed' = [doomed EXCEPT ![t] = Expired(h)]
        /\ aged' = aged \ Expired(h)
        /\ total' = [total EXCEPT ![h] = Reaped(h)]
        /\ parked' = ParkedAfterReap(h)
        /\ UNCHANGED <<closed, closing, netVars, returned>>
    BY <1>3 DEF ReserveIdle, Reap, h
  <2>5. QED
    BY <2>1, <2>2, <2>3, <2>4 DEF Reaped, ParkedAfterReap, Expired
<1>4. ASSUME NEW t \in Thread, ReserveDial(t) PROVE Typed'
  <2>1. th[t].host \in Host
    BY <1>4 DEF ReserveDial
  <2>2. Cardinality(Expired(th[t].host)) \in Nat
    BY <2>1, FS_Subset, FS_CardinalityType DEF Expired
  <2>3. QED
    BY <1>4, <2>1, <2>2 DEF ReserveDial, Reap, Reaped, ParkedAfterReap, Expired
<1>5. ASSUME NEW t \in Thread, ReserveWait(t) PROVE Typed'
  <2>1. th[t].host \in Host
    BY <1>5 DEF ReserveWait
  <2>2. Cardinality(Expired(th[t].host)) \in Nat
    BY <2>1, FS_Subset, FS_CardinalityType DEF Expired
  <2>3. QED
    BY <1>5, <2>1, <2>2 DEF ReserveWait, Reap, Reaped, ParkedAfterReap, Expired
<1>6. ASSUME NEW t \in Thread, Wake(t) PROVE Typed'
  BY <1>6 DEF Wake
<1>6a. ASSUME NEW t \in Thread, Connect(t) PROVE Typed'
  BY <1>6a DEF Connect
<1>7. ASSUME NEW t \in Thread, Timeout(t) \/ SeeDone(t) PROVE Typed'
  <2>1. LeaveWait(t)
    BY <1>7 DEF Timeout, SeeDone
  <2>2. closing' \in [Thread -> SUBSET Thread]
    BY <2>1 DEF LeaveWait
  <2>3. QED
    BY <2>1, <2>2 DEF LeaveWait
<1>8. ASSUME NEW t \in Thread, DialFail(t) PROVE Typed'
  BY <1>8 DEF DialFail
<1>9. ASSUME NEW t \in Thread, NEW c \in Client, DialOk(t, c) PROVE Typed'
  BY <1>9 DEF DialOk
<1>10. ASSUME NEW t \in Thread, Register(t) PROVE Typed'
  <2>1. CASE closed
    <3>1. /\ total' = [total EXCEPT ![th[t].host] = @ - 1]
          /\ doomed' = [doomed EXCEPT ![t] = {th[t].client}]
          /\ Return(t) /\ UNCHANGED active
      BY <1>10, <2>1, Zenon DEF Register
    <3>2. QED
      BY <1>10, <3>1 DEF Register
  <2>2. CASE ~closed
    <3>1. /\ active' = [active EXCEPT ![th[t].host] = @ \cup {th[t].client}]
          /\ Goto(t, "start") /\ UNCHANGED <<total, doomed>>
      BY <1>10, <2>2, Zenon DEF Register
    <3>2. QED
      BY <1>10, <3>1 DEF Register
  <2>3. QED
    BY <2>1, <2>2
<1>11. ASSUME NEW t \in Thread, StartKeepalive(t) PROVE Typed'
  BY <1>11 DEF StartKeepalive
<1>12. ASSUME NEW t \in Thread, ReleaseNoop(t) PROVE Typed'
  BY <1>12 DEF ReleaseNoop
<1>13. ASSUME NEW t \in Thread, Release(t) PROVE Typed'
  BY <1>13, SMTT(40) DEF Release, Waiters
<1>14. ASSUME NEW t \in Thread, Notify(t) PROVE Typed'
  BY <1>14 DEF Notify
<1>15. ASSUME NEW t \in Thread, CloseAgain(t) PROVE Typed'
  BY <1>15 DEF CloseAgain
<1>16. ASSUME NEW t \in Thread, Close(t) PROVE Typed'
  BY <1>16 DEF Close
<1>17. ASSUME NEW t \in Thread, CloseReturn(t) PROVE Typed'
  BY <1>17 DEF CloseReturn
<1>18. ASSUME NEW a \in Thread \cup {Cleaner}, NEW c \in Client,
              CloseClient(a, c)
       PROVE Typed'
  BY <1>18 DEF CloseClient
<1>19. CASE CleanupTick
  <2>1. \A h \in Host : Cardinality(Expired(h)) \in Nat
    BY FS_Subset, FS_CardinalityType DEF Expired
  <2>2. QED
    BY <1>19, <2>1 DEF CleanupTick, Reaped, Expired
<1>20. CASE CleanupExit
  BY <1>20 DEF CleanupExit
<1>21. ASSUME NEW c \in Client, Keepalive(c) PROVE Typed'
  BY <1>21 DEF Keepalive, KeepaliveTick, KeepaliveDone, KeepaliveReply,
               KeepaliveError
<1>22. ASSUME NEW c \in Client, Break(c) \/ Age(c) PROVE Typed'
  BY <1>22 DEF Break, Age
<1>23. CASE UNCHANGED vars
  BY <1>23 DEF vars
<1>24. QED
  BY <1>1, <1>2, <1>3, <1>4, <1>5, <1>6, <1>6a, <1>7, <1>8, <1>9, <1>10,
     <1>11, <1>12, <1>13, <1>14, <1>15, <1>16, <1>17, <1>18, <1>19, <1>20, <1>21,
     <1>22, <1>23
  DEF Next, Progress, Handshake, Calls

\* Typed is an invariant of the pool.
LEMMA AlwaysTyped == Spec => []Typed
BY TypedInit, TypedNext, PTL DEF Spec

\* The fields of Pool, hostPool and the goroutines keep their types for ever.
THEOREM TypeCorrect == Spec => []TypeOK
<1>1. Typed => TypeOK
  BY DEF Typed
<1>2. QED
  BY <1>1, AlwaysTyped, PTL
-----------------------------------------------------------------------------
(***************************************************************************)
(* One place per client, and no leaked connection.  The two are inductive  *)
(* only together: a client object may be dialled again because its         *)
(* connection is closed, which must mean that no place refers to it.       *)
(***************************************************************************)
PlacedAt(c) == AtOnePlace(c) /\ (conn[c] # "closed" <=> Owned(c))
Placed == \A c \in Client : PlacedAt(c)

\* Init: no place holds a client and no connection is open.
LEMMA PlacedInit == Init => Placed
BY DEF Init, Placed, PlacedAt, AtOnePlace, Owned, InPool, Fetched, Idle

\* A step that moves no client between places keeps Placed.
LEMMA PlacedFrame ==
    ASSUME Placed, UNCHANGED <<idle, active, doomed, conn>>,
           \A t \in Thread, c \in Client : Fetched(t, c)' <=> Fetched(t, c)
    PROVE  Placed'
BY DEF Placed, PlacedAt, AtOnePlace, Owned, InPool

\* Every step moves a client from one place to one other place, closes it or
\* leaves it where it is.
LEMMA PlacedNext == Typed /\ Placed /\ [Next]_vars => Placed'
<1> SUFFICES ASSUME Typed, Placed, [Next]_vars PROVE Placed'
  OBVIOUS
<1> USE PoolAssumption DEF poolVars, netVars, At, InDial
<1>1. ASSUME NEW t \in Thread,
             \/ \E h \in Host : Acquire(t, h)
             \/ ReserveClosed(t) \/ Wake(t) \/ Connect(t)
             \/ StartKeepalive(t)
             \/ ReleaseNoop(t) \/ CloseReturn(t) \/ Timeout(t) \/ SeeDone(t)
             \/ DialFail(t)
      PROVE Placed'
  <2>1. UNCHANGED <<idle, active, doomed, conn>>
    BY <1>1 DEF Acquire, ReserveClosed, Wake, Connect, StartKeepalive, ReleaseNoop,
                CloseReturn, Timeout, SeeDone, LeaveWait, DialFail
  <2>2. th[t].pc # "dialed" /\ (th'[t].pc # "dialed")
    BY <1>1 DEF Acquire, ReserveClosed, Wake, Connect, StartKeepalive, ReleaseNoop,
                CloseReturn, Timeout, SeeDone, LeaveWait, DialFail,
                Goto, Return, Set, Idle, Typed, TypeOK
  <2>3. \A u \in Thread \ {t} : th'[u] = th[u]
    BY <1>1 DEF Acquire, ReserveClosed, Wake, Connect, StartKeepalive, ReleaseNoop,
                CloseReturn, Timeout, SeeDone, LeaveWait, DialFail,
                Goto, Return, Set, Typed, TypeOK
  <2>4. QED
    BY <2>1, <2>2, <2>3, PlacedFrame DEF Fetched
<1>2. ASSUME NEW t \in Thread, Notify(t) PROVE Placed'
  <2>1. /\ UNCHANGED <<idle, active, doomed, conn>> /\ At(t, "notify")
        /\ Return(t)
    BY <1>2, Zenon DEF Notify
  <2>2. \A u \in Thread : u # t => th'[u] = th[u]
    BY <2>1 DEF Goto, Return, Typed, TypeOK
  <2>3. th[t].pc # "dialed" /\ th'[t].pc # "dialed"
    BY <2>1 DEF Goto, Return, Idle, Typed, TypeOK
  <2>4. QED
    BY <2>1, <2>2, <2>3, PlacedFrame DEF Fetched
<1>3. ASSUME NEW t \in Thread, CloseAgain(t) PROVE Placed'
  BY <1>3, PlacedFrame DEF CloseAgain, Fetched
<1>4. CASE CleanupExit
  BY <1>4, PlacedFrame DEF CleanupExit, Fetched
<1>5. ASSUME NEW c \in Client, Keepalive(c) PROVE Placed'
  BY <1>5, PlacedFrame DEF Keepalive, KeepaliveTick, KeepaliveDone,
                           KeepaliveReply, KeepaliveError, Fetched
<1>6. ASSUME NEW c \in Client, Age(c) PROVE Placed'
  BY <1>6, PlacedFrame DEF Age, Fetched
<1>7. CASE UNCHANGED vars
  BY <1>7, PlacedFrame DEF vars, Fetched
<1> USE DEF Placed, AtOnePlace, Owned, InPool, Fetched
<1>8. ASSUME NEW c \in Client, Break(c) PROVE Placed'
  <2>1. /\ UNCHANGED <<idle, active, doomed, th>>
        /\ \A x \in Client : conn'[x] # "closed" <=> conn[x] # "closed"
    BY <1>8 DEF Break, Typed, TypeOK
  <2>2. QED
    BY <2>1 DEF PlacedAt
<1>9. ASSUME NEW t \in Thread, NEW c \in Client, DialOk(t, c) PROVE Placed'
  <2>1. ~Owned(c)
    BY <1>9 DEF DialOk, Unused, PlacedAt
  <2>2. /\ UNCHANGED <<idle, active, doomed>>
        /\ \A x \in Client : conn'[x] = IF x = c THEN "open" ELSE conn[x]
        /\ th[t].pc # "dialed" /\ th'[t].pc = "dialed" /\ th'[t].client = c
        /\ \A u \in Thread : u # t => th'[u] = th[u]
    BY <1>9 DEF DialOk, Set, Typed, TypeOK
  <2>3. SUFFICES ASSUME NEW x \in Client PROVE PlacedAt(x)'
    BY DEF PlacedAt
  <2>4. CASE x = c
    BY <2>1, <2>2, <2>4 DEF PlacedAt
  <2>5. CASE x # c
    BY <2>2, <2>5 DEF PlacedAt
  <2>6. QED
    BY <2>4, <2>5
<1>10. ASSUME NEW t \in Thread, Register(t) PROVE Placed'
  <2> DEFINE c == th[t].client
             h == th[t].host
  <2>1. c \in Client /\ h \in Host /\ Fetched(t, c) /\ doomed[t] = {}
    BY <1>10 DEF Register, Typed, HasHost, HasClient
  <2>2. UNCHANGED <<idle, conn>>
    BY <1>10, Zenon DEF Register
  <2>3. SUFFICES ASSUME NEW x \in Client PROVE PlacedAt(x)'
    BY DEF PlacedAt
  <2>4. CASE closed
    <3>1. /\ doomed' = [doomed EXCEPT ![t] = {c}]
          /\ Return(t) /\ UNCHANGED active
      BY <1>10, <2>4, Zenon DEF Register
    <3>2. /\ th'[t].pc = "idle"
          /\ \A u \in Thread : u # t => th'[u] = th[u]
          /\ doomed'[t] = {c}
          /\ \A a \in Thread \cup {Cleaner} : a # t => doomed'[a] = doomed[a]
      BY <3>1 DEF Return, Idle, Typed, TypeOK
    <3> HIDE DEF c, h
    <3>3. CASE x = c
      BY <2>1, <2>2, <3>1, <3>2, <3>3 DEF PlacedAt
    <3>4. CASE x # c
      <4>1. \A u \in Thread : Fetched(u, x)' <=> Fetched(u, x)
        BY <3>2, <3>4 DEF c
      <4>2. \A a \in Thread \cup {Cleaner} : x \in doomed'[a] <=> x \in doomed[a]
        BY <2>1, <3>2, <3>4
      <4>3. QED
        BY <2>2, <3>1, <4>1, <4>2 DEF PlacedAt
    <3>5. QED
      BY <3>3, <3>4
  <2>5. CASE ~closed
    <3>1. /\ active' = [active EXCEPT ![h] = @ \cup {c}]
          /\ Goto(t, "start") /\ UNCHANGED doomed
      BY <1>10, <2>5, Zenon DEF Register
    <3>2. /\ th'[t].pc = "start"
          /\ \A u \in Thread : u # t => th'[u] = th[u]
          /\ active'[h] = active[h] \cup {c}
          /\ \A k \in Host : k # h => active'[k] = active[k]
      BY <2>1, <3>1 DEF Goto, Typed, TypeOK
    <3> HIDE DEF c, h
    <3>3. CASE x = c
      BY <2>1, <2>2, <3>1, <3>2, <3>3 DEF PlacedAt
    <3>4. CASE x # c
      <4>1. \A u \in Thread : Fetched(u, x)' <=> Fetched(u, x)
        BY <3>2, <3>4 DEF c
      <4>2. \A k \in Host : x \in active'[k] <=> x \in active[k]
        BY <2>1, <3>2, <3>4
      <4>3. QED
        BY <2>2, <3>1, <4>1, <4>2 DEF PlacedAt
    <3>5. QED
      BY <3>3, <3>4
  <2>6. QED
    BY <2>4, <2>5
<1>11. ASSUME NEW t \in Thread, Release(t) PROVE Placed'
  <2> DEFINE c == th[t].client
             h == th[t].host
  <2>1. c \in Client /\ h \in Host /\ c \in active[h]
    BY <1>11 DEF Release, Typed, HasHost, HasClient
  <2>2. /\ active'[h] = active[h] \ {c} /\ idle'[h] = idle[h] \cup {c}
        /\ \A k \in Host : k # h => active'[k] = active[k] /\ idle'[k] = idle[k]
        /\ UNCHANGED <<doomed, conn>>
        /\ th[t].pc # "dialed" /\ th'[t].pc # "dialed"
        /\ \A u \in Thread : u # t => th'[u] = th[u]
    BY <1>11, <2>1 DEF Release, Goto, Typed, TypeOK
  <2>3. SUFFICES ASSUME NEW x \in Client PROVE PlacedAt(x)'
    BY DEF PlacedAt
  <2> HIDE DEF c, h
  <2>4. \A u \in Thread : Fetched(u, x)' <=> Fetched(u, x)
    BY <2>2
  <2>5. \A k \in Host :
          /\ x \in active'[k] <=> x \in active[k] /\ x # c
          /\ x \in idle'[k] <=> x \in idle[k] \/ (k = h /\ x = c)
    BY <2>1, <2>2 DEF PlacedAt
  <2>6. QED
    BY <2>1, <2>2, <2>4, <2>5 DEF PlacedAt
<1>12. ASSUME NEW a \in Thread \cup {Cleaner}, NEW c \in Client,
              CloseClient(a, c)
       PROVE Placed'
  <2>1. /\ UNCHANGED <<idle, active, th>> /\ c \in doomed[a]
        /\ \A x \in Client : conn'[x] = IF x = c THEN "closed" ELSE conn[x]
        /\ \A b \in Thread \cup {Cleaner}, x \in Client :
              x \in doomed'[b] <=> x \in doomed[b] /\ ~(b = a /\ x = c)
    BY <1>12 DEF CloseClient, Typed, TypeOK
  <2>2. SUFFICES ASSUME NEW x \in Client PROVE PlacedAt(x)'
    BY DEF PlacedAt
  <2>3. CASE x = c
    BY <2>1, <2>3 DEF PlacedAt
  <2>4. CASE x # c
    BY <2>1, <2>4 DEF PlacedAt
  <2>5. QED
    BY <2>3, <2>4
<1>13. ASSUME NEW t \in Thread, ReserveDial(t) \/ ReserveWait(t)
       PROVE Placed'
  <2> DEFINE h == th[t].host
  <2>1. h \in Host /\ doomed[t] = {} /\ idle[h] = Expired(h)
    BY <1>13 DEF ReserveDial, ReserveWait, Typed, HasHost, Expired
  <2>2. /\ doomed'[t] = idle[h]
        /\ \A a \in Thread \cup {Cleaner} : a # t => doomed'[a] = doomed[a]
        /\ idle'[h] = {} /\ \A k \in Host : k # h => idle'[k] = idle[k]
        /\ UNCHANGED <<active, conn>>
        /\ th[t].pc # "dialed" /\ th'[t].pc # "dialed"
        /\ \A u \in Thread : u # t => th'[u] = th[u]
    BY <1>13, <2>1 DEF ReserveDial, ReserveWait, Reap, Goto, Typed, TypeOK
  <2>3. SUFFICES ASSUME NEW x \in Client PROVE PlacedAt(x)'
    BY DEF PlacedAt
  <2> HIDE DEF h
  <2>4. \A u \in Thread : Fetched(u, x)' <=> Fetched(u, x)
    BY <2>2
  <2>5. QED
    BY <2>1, <2>2, <2>4 DEF PlacedAt
<1>14. ASSUME NEW t \in Thread, ReserveIdle(t) PROVE Placed'
  <2> DEFINE h == th[t].host
             E == Expired(h)
  <2>1. h \in Host /\ doomed[t] = {} /\ E \subseteq idle[h]
    BY <1>14 DEF ReserveIdle, Typed, HasHost, Expired
  <2>2. PICK c \in idle[h] \ E :
          /\ idle' = [idle EXCEPT ![h] = (@ \ E) \ {c}]
          /\ active' = [active EXCEPT ![h] = @ \cup {c}]
          /\ Set(t, "hold", h, c)
    BY <1>14 DEF ReserveIdle
  <2>3. /\ doomed' = [doomed EXCEPT ![t] = E]
        /\ UNCHANGED conn
        /\ th[t].pc # "dialed" /\ th'[t].pc # "dialed"
        /\ \A u \in Thread : u # t => th'[u] = th[u]
    BY <1>14, <2>2 DEF ReserveIdle, Reap, Set, Typed, TypeOK
  <2> HIDE DEF h, E
  <2>4. SUFFICES ASSUME NEW x \in Client PROVE PlacedAt(x)'
    BY DEF PlacedAt
  <2>5. \A u \in Thread : Fetched(u, x)' <=> Fetched(u, x)
    BY <2>3
  <2>6. \A k \in Host :
          /\ x \in idle'[k] <=> x \in idle[k] /\ (k = h => x # c /\ x \notin E)
          /\ x \in active'[k] <=> x \in active[k] \/ (k = h /\ x = c)
    BY <2>1, <2>2 DEF Typed, TypeOK
  <2>7. \A a \in Thread \cup {Cleaner} :
          x \in doomed'[a] <=> x \in doomed[a] \/ (a = t /\ x \in E)
    BY <2>1, <2>3 DEF Typed, TypeOK
  <2>8. QED
    BY <2>1, <2>2, <2>3, <2>5, <2>6, <2>7 DEF PlacedAt
<1>15. ASSUME NEW t \in Thread, Close(t) PROVE Placed'
  <2>1. /\ doomed[t] = {}
        /\ doomed' = [doomed EXCEPT ![t] =
                        UNION {idle[h] \cup active[h] : h \in Host}]
        /\ idle' = [h \in Host |-> {}] /\ active' = [h \in Host |-> {}]
        /\ UNCHANGED conn
        /\ th[t].pc # "dialed" /\ th'[t].pc # "dialed"
        /\ \A u \in Thread : u # t => th'[u] = th[u]
    BY <1>15 DEF Close, Goto, Typed, TypeOK
  <2>2. SUFFICES ASSUME NEW x \in Client PROVE PlacedAt(x)'
    BY DEF PlacedAt
  <2>3. \A u \in Thread : Fetched(u, x)' <=> Fetched(u, x)
    BY <2>1
  <2>4. \A a \in Thread \cup {Cleaner} :
          x \in doomed'[a] <=> x \in doomed[a] \/ (a = t /\ InPool(x))
    BY <2>1 DEF Typed, TypeOK
  <2>5. \A h \in Host : idle'[h] = {} /\ active'[h] = {}
    BY <2>1
  <2>6. QED
    BY <2>1, <2>3, <2>4, <2>5 DEF PlacedAt
<1>16. CASE CleanupTick
  <2>1. /\ doomed[Cleaner] = {}
        /\ doomed' = [doomed EXCEPT ![Cleaner] =
                        UNION {Expired(h) : h \in Host}]
        /\ idle' = [h \in Host |-> idle[h] \ Expired(h)]
        /\ UNCHANGED <<active, conn, th>>
    BY <1>16 DEF CleanupTick
  <2>2. SUFFICES ASSUME NEW x \in Client PROVE PlacedAt(x)'
    BY DEF PlacedAt
  <2>3. \A a \in Thread \cup {Cleaner} : x \in doomed'[a] <=>
          x \in doomed[a] \/ (a = Cleaner /\ \E h \in Host : x \in idle[h] \cap aged)
    BY <2>1 DEF Typed, TypeOK, Expired
  <2>4. \A h \in Host : x \in idle'[h] <=> x \in idle[h] /\ x \notin aged
    BY <2>1 DEF Expired
  <2>5. QED
    BY <2>1, <2>3, <2>4 DEF PlacedAt
<1>17. QED
  BY <1>1, <1>2, <1>3, <1>4, <1>5, <1>6, <1>7, <1>8, <1>9, <1>10, <1>11,
     <1>12, <1>13, <1>14, <1>15, <1>16
  DEF Next, Progress, Handshake, Calls

\* Placed is an invariant of the pool.
LEMMA AlwaysPlaced == Spec => [](Typed /\ Placed)
BY TypedInit, TypedNext, PlacedInit, PlacedNext, PTL DEF Spec

\* At every step of every behaviour a client is in at most one place.
THEOREM ClientHasOnePlace == Spec => []OnePlace
<1>1. Placed => OnePlace
  BY DEF Placed, PlacedAt, OnePlace
<1>2. QED
  BY <1>1, AlwaysPlaced, PTL

\* No connection is forgotten, even when it is dialled while Close runs.
THEOREM NothingLeaks == Spec => []NoLeakedConnection
<1>1. Placed => NoLeakedConnection
  BY DEF Placed, PlacedAt, NoLeakedConnection
<1>2. QED
  BY <1>1, AlwaysPlaced, PTL
-----------------------------------------------------------------------------
(***************************************************************************)
(* The slot count.  SlotAccounting needs Placed: a client moved from active *)
(* to idle, or registered, must not be in the target set already.          *)
(***************************************************************************)

\* The sets that make up total are finite.
LEMMA Countable ==
    ASSUME Typed, NEW h \in Host
    PROVE  /\ IsFiniteSet(idle[h]) /\ IsFiniteSet(active[h])
           /\ IsFiniteSet(Dialling(h)) /\ IsFiniteSet(Expired(h))
           /\ Cardinality(idle[h]) \in Nat /\ Cardinality(active[h]) \in Nat
           /\ Cardinality(Dialling(h)) \in Nat
           /\ Cardinality(Expired(h)) \in Nat
           /\ total[h] \in Int
<1>1. /\ idle[h] \in SUBSET Client /\ active[h] \in SUBSET Client
      /\ Expired(h) \in SUBSET Client /\ Dialling(h) \in SUBSET Thread
      /\ total[h] \in Int
  BY DEF Typed, TypeOK, Expired, Dialling
<1>2. QED
  BY <1>1, PoolAssumption, FS_Subset, FS_CardinalityType

\* The clients that expire are counted once each.
LEMMA ReapCount ==
    ASSUME Typed, NEW h \in Host
    PROVE  Cardinality(idle[h] \ Expired(h)) =
             Cardinality(idle[h]) - Cardinality(Expired(h))
<1>1. idle[h] \cap Expired(h) = Expired(h)
  BY DEF Expired
<1>2. QED
  BY <1>1, Countable, FS_Difference, ZenonT(60)

\* Init: nothing is counted and nothing is there.
LEMMA SlotsInit == Init => SlotAccounting
<1> SUFFICES ASSUME Init, NEW h \in Host
             PROVE /\ total[h] = Cardinality(idle[h]) + Cardinality(active[h])
                                   + Cardinality(Dialling(h))
                   /\ total[h] <= MaxPerHost
  BY DEF SlotAccounting
<1>1. idle[h] = {} /\ active[h] = {} /\ Dialling(h) = {} /\ total[h] = 0
  BY DEF Init, Dialling, Idle
<1>2. QED
  BY <1>1, FS_EmptySet, PoolAssumption

\* No step changes the number of clients and dials of a host without
\* changing its total, and only a reservation below the cap raises it.
LEMMA SlotsNext ==
    Typed /\ Placed /\ SlotAccounting /\ [Next]_vars => SlotAccounting'
<1> SUFFICES ASSUME Typed, Placed, SlotAccounting, [Next]_vars, ~closed',
                    NEW g \in Host
             PROVE /\ total'[g] = Cardinality(idle'[g]) + Cardinality(active'[g])
                                    + Cardinality(Dialling(g)')
                   /\ total'[g] <= MaxPerHost
  BY DEF SlotAccounting
<1> DEFINE Goal == /\ total'[g] = Cardinality(idle'[g]) + Cardinality(active'[g])
                                    + Cardinality(Dialling(g)')
                   /\ total'[g] <= MaxPerHost
           DialPcs == {"dial", "handshake", "dialed"}
<1> USE PoolAssumption DEF poolVars, netVars, At, InDial
<1>0. ASSUME ~closed
      PROVE /\ total[g] = Cardinality(idle[g]) + Cardinality(active[g])
                            + Cardinality(Dialling(g))
            /\ total[g] <= MaxPerHost
  BY <1>0 DEF SlotAccounting
<1>f. ASSUME UNCHANGED <<idle, active, total, closed>>,
             Dialling(g)' = Dialling(g)
      PROVE Goal
  BY <1>f, <1>0
<1>1. ASSUME NEW t \in Thread,
             \/ \E h \in Host : Acquire(t, h)
             \/ ReserveClosed(t) \/ Wake(t) \/ StartKeepalive(t)
             \/ ReleaseNoop(t) \/ CloseReturn(t) \/ Timeout(t) \/ SeeDone(t)
      PROVE Goal
  <2>1. UNCHANGED <<idle, active, total, closed>>
    BY <1>1 DEF Acquire, ReserveClosed, Wake, StartKeepalive, ReleaseNoop,
                CloseReturn, Timeout, SeeDone, LeaveWait
  <2>2. th[t].pc \notin DialPcs /\ th'[t].pc \notin DialPcs
    BY <1>1 DEF Acquire, ReserveClosed, Wake, StartKeepalive, ReleaseNoop,
                CloseReturn, Timeout, SeeDone, LeaveWait,
                Goto, Return, Set, Idle, Typed, TypeOK
  <2>3. \A u \in Thread : u # t => th'[u] = th[u]
    BY <1>1 DEF Acquire, ReserveClosed, Wake, StartKeepalive, ReleaseNoop,
                CloseReturn, Timeout, SeeDone, LeaveWait,
                Goto, Return, Set, Typed, TypeOK
  <2>4. Dialling(g)' = Dialling(g)
    BY <2>2, <2>3 DEF Dialling
  <2>5. QED
    BY <1>f, <2>1, <2>4
<1>2. ASSUME NEW t \in Thread, Notify(t) PROVE Goal
  <2>1. /\ UNCHANGED <<idle, active, total, closed>> /\ At(t, "notify")
        /\ Return(t)
    BY <1>2, Zenon DEF Notify
  <2>2. /\ \A u \in Thread : u # t => th'[u] = th[u]
        /\ th'[t].pc \notin DialPcs
    BY <2>1 DEF Goto, Return, Idle, Typed, TypeOK
  <2>3. Dialling(g)' = Dialling(g)
    BY <2>1, <2>2 DEF Dialling
  <2>4. QED
    BY <1>f, <2>1, <2>3
<1>3. ASSUME NEW t \in Thread, CloseAgain(t) PROVE Goal
  BY <1>3, <1>f DEF CloseAgain, Dialling
<1>4. CASE CleanupExit
  BY <1>4, <1>f DEF CleanupExit, Dialling
<1>5. ASSUME NEW c \in Client, Keepalive(c) PROVE Goal
  BY <1>5, <1>f DEF Keepalive, KeepaliveTick, KeepaliveDone,
                    KeepaliveReply, KeepaliveError, Dialling
<1>6. ASSUME NEW c \in Client, Age(c) \/ Break(c) PROVE Goal
  BY <1>6, <1>f DEF Age, Break, Dialling
<1>7. ASSUME NEW a \in Thread \cup {Cleaner}, NEW c \in Client,
             CloseClient(a, c)
      PROVE Goal
  BY <1>7, <1>f DEF CloseClient, Dialling
<1>8. CASE UNCHANGED vars
  BY <1>8, <1>f DEF vars, Dialling
<1>9. ASSUME NEW t \in Thread, NEW c \in Client, DialOk(t, c) PROVE Goal
  <2>1. /\ UNCHANGED <<idle, active, total, closed>>
        /\ th[t].pc = "handshake" /\ th'[t].pc = "dialed"
        /\ th'[t].host = th[t].host
        /\ \A u \in Thread : u # t => th'[u] = th[u]
    BY <1>9 DEF DialOk, Set, Typed, TypeOK
  <2>2. Dialling(g)' = Dialling(g)
    BY <2>1 DEF Dialling
  <2>3. QED
    BY <1>f, <2>1, <2>2
<1>9a. ASSUME NEW t \in Thread, Connect(t) PROVE Goal
  <2>1. /\ UNCHANGED <<idle, active, total, closed>>
        /\ th[t].pc = "dial" /\ th'[t].pc = "handshake"
        /\ th'[t].host = th[t].host
        /\ \A u \in Thread : u # t => th'[u] = th[u]
    BY <1>9a DEF Connect, Goto, Typed, TypeOK
  <2>2. Dialling(g)' = Dialling(g)
    BY <2>1 DEF Dialling
  <2>3. QED
    BY <1>f, <2>1, <2>2
<1>10. ASSUME NEW t \in Thread, Close(t) PROVE Goal
  BY <1>10 DEF Close
<1>11. ASSUME NEW t \in Thread, DialFail(t) PROVE Goal
  <2> DEFINE h == th[t].host
  <2>1. /\ h \in Host /\ ~closed /\ t \in Dialling(h)
        /\ UNCHANGED <<idle, active>>
    BY <1>11 DEF DialFail, Typed, HasHost, Dialling
  <2>2. \A k \in Host : Dialling(k)' = Dialling(k) \ {t}
    BY <1>11 DEF DialFail, Return, Idle, Typed, TypeOK, Dialling
  <2>3. \A k \in Host : k # h => t \notin Dialling(k)
    BY DEF Dialling
  <2>4. total[h] > 0
    <3>1. Cardinality(Dialling(h)) # 0
      BY <2>1, Countable, FS_EmptySet
    <3>2. total[h] = Cardinality(idle[h]) + Cardinality(active[h])
                       + Cardinality(Dialling(h))
      BY <2>1 DEF SlotAccounting
    <3>3. QED
      BY <2>1, <3>1, <3>2, Countable
  <2>5. total' = [total EXCEPT ![h] = @ - 1]
    BY <1>11, <2>4 DEF DialFail
  <2> HIDE DEF h
  <2>6. CASE g = h
    <3>1. Cardinality(Dialling(g)') = Cardinality(Dialling(g)) - 1
      BY <2>1, <2>2, <2>6, Countable, FS_RemoveElement, ZenonT(60)
    <3>2. total'[g] = total[g] - 1
      BY <2>5, <2>6 DEF Typed, TypeOK
    <3>3. QED
      BY <1>0, <2>1, <3>1, <3>2, Countable
  <2>7. CASE g # h
    <3>1. Dialling(g)' = Dialling(g)
      BY <2>2, <2>3, <2>7
    <3>2. total'[g] = total[g]
      BY <2>5, <2>7 DEF Typed, TypeOK
    <3>3. QED
      BY <1>0, <2>1, <3>1, <3>2
  <2>8. QED
    BY <2>6, <2>7
<1>12. ASSUME NEW t \in Thread, Register(t) PROVE Goal
  <2> DEFINE h == th[t].host
             c == th[t].client
  <2>1. UNCHANGED idle /\ closed' = closed
    BY <1>12, Zenon DEF Register
  <2>a. ~closed
    BY <2>1
  <2>2. /\ active' = [active EXCEPT ![h] = @ \cup {c}]
        /\ Goto(t, "start") /\ UNCHANGED total
    BY <1>12, <2>a, Zenon DEF Register
  <2>3. /\ h \in Host /\ c \in Client /\ Fetched(t, c)
        /\ t \in Dialling(h) /\ \A k \in Host : k # h => t \notin Dialling(k)
    BY <1>12 DEF Register, Typed, HasHost, HasClient, Fetched, Dialling
  <2>4. c \notin active[h]
    BY <2>3 DEF Placed, PlacedAt, AtOnePlace, InPool
  <2>5. \A k \in Host : Dialling(k)' = Dialling(k) \ {t}
    BY <2>2 DEF Goto, Typed, TypeOK, Dialling
  <2> HIDE DEF h, c
  <2>6. CASE g = h
    <3>a. t \in Dialling(g) /\ Dialling(g)' = Dialling(g) \ {t}
      BY <2>3, <2>5, <2>6
    <3>b. IsFiniteSet(Dialling(g))
      BY Countable
    <3>c. Cardinality(Dialling(g) \ {t}) = Cardinality(Dialling(g)) - 1
      BY <3>a, <3>b, FS_RemoveElement
    <3>1. Cardinality(Dialling(g)') = Cardinality(Dialling(g)) - 1
      BY <3>a, <3>c
    <3>2. active'[g] = active[g] \cup {c}
      BY <2>2, <2>6 DEF Typed, TypeOK
    <3>3. Cardinality(active'[g]) = Cardinality(active[g]) + 1
      BY <2>4, <2>6, <3>2, Countable, FS_AddElement
    <3>4. QED
      BY <1>0, <2>a, <2>1, <2>2, <3>1, <3>3, Countable
  <2>7. CASE g # h
    <3>1. t \notin Dialling(g)
      BY <2>3, <2>7
    <3>2. Dialling(g)' = Dialling(g)
      BY <2>5, <3>1
    <3>3. active'[g] = active[g]
      BY <2>2, <2>7 DEF Typed, TypeOK
    <3>4. QED
      BY <1>0, <2>a, <2>1, <2>2, <3>2, <3>3
  <2>8. QED
    BY <2>6, <2>7
<1>13. ASSUME NEW t \in Thread, Release(t) PROVE Goal
  <2> DEFINE h == th[t].host
             c == th[t].client
  <2>1. c \in Client /\ h \in Host /\ c \in active[h]
    BY <1>13 DEF Release, Typed, HasHost, HasClient
  <2>2. /\ active'[h] = active[h] \ {c} /\ idle'[h] = idle[h] \cup {c}
        /\ \A k \in Host : k # h => active'[k] = active[k] /\ idle'[k] = idle[k]
        /\ UNCHANGED <<total, closed>>
    BY <1>13, <2>1 DEF Release, Typed, TypeOK
  <2>3. c \notin idle[h]
    BY <2>1 DEF Placed, PlacedAt, AtOnePlace
  <2>4. Dialling(g)' = Dialling(g)
    BY <1>13 DEF Release, Goto, Dialling, Typed, TypeOK
  <2> HIDE DEF h, c
  <2>5. CASE g = h
    <3>0. IsFiniteSet(active[g]) /\ c \in active[g] /\ active'[g] = active[g] \ {c}
      BY <2>1, <2>2, <2>5, Countable
    <3>1. Cardinality(active'[g]) = Cardinality(active[g]) - 1
      BY <3>0, FS_RemoveElement
    <3>2. Cardinality(idle'[g]) = Cardinality(idle[g]) + 1
      BY <2>2, <2>3, <2>5, Countable, FS_AddElement
    <3>3. QED
      BY <1>0, <2>2, <2>4, <3>1, <3>2, Countable
  <2>6. CASE g # h
    BY <1>0, <2>2, <2>4, <2>6
  <2>7. QED
    BY <2>5, <2>6
<1>14. ASSUME NEW t \in Thread, ReserveDial(t) \/ ReserveWait(t) PROVE Goal
  <2> DEFINE h == th[t].host
  <2>1. /\ h \in Host /\ ~closed /\ idle[h] = Expired(h)
        /\ th[t].pc = "try"
        /\ idle' = [idle EXCEPT ![h] = {}]
        /\ UNCHANGED active
    BY <1>14 DEF ReserveDial, ReserveWait, Typed, HasHost, Expired
  <2>2. t \notin Dialling(g)
    BY <2>1 DEF Dialling
  <2>3. CASE ReserveDial(t)
    <3>1. /\ Reaped(h) < MaxPerHost
          /\ total' = [total EXCEPT ![h] = Reaped(h) + 1]
          /\ Goto(t, "dial")
      BY <2>3 DEF ReserveDial
    <3>2. Dialling(g)' = IF g = h THEN Dialling(g) \cup {t} ELSE Dialling(g)
      BY <2>1, <3>1 DEF Goto, Dialling, Typed, TypeOK
    <3> HIDE DEF h
    <3>3. CASE g = h
      <4>1. Cardinality(Dialling(g)') = Cardinality(Dialling(g)) + 1
        BY <2>2, <3>2, <3>3, Countable, FS_AddElement
      <4>2. idle'[g] = {} /\ total'[g] = Reaped(g) + 1
        BY <2>1, <3>1, <3>3 DEF Typed, TypeOK
      <4>3. Reaped(g) = total[g] - Cardinality(idle[g])
        BY <2>1, <3>3 DEF Reaped
      <4>4. QED
        BY <1>0, <2>1, <3>1, <3>3, <4>1, <4>2, <4>3, Countable, FS_EmptySet
    <3>4. CASE g # h
      <4>1. idle'[g] = idle[g] /\ total'[g] = total[g]
        BY <2>1, <3>1, <3>4 DEF Typed, TypeOK
      <4>2. QED
        BY <1>0, <2>1, <3>2, <3>4, <4>1
    <3>5. QED
      BY <3>3, <3>4
  <2>4. CASE ReserveWait(t)
    <3>1. /\ total' = [total EXCEPT ![h] = Reaped(h)]
          /\ Goto(t, "wait")
      BY <2>4 DEF ReserveWait
    <3>2. Dialling(g)' = Dialling(g)
      BY <2>1, <3>1 DEF Goto, Dialling, Typed, TypeOK
    <3> HIDE DEF h
    <3>3. CASE g = h
      <4>1. idle'[g] = {} /\ total'[g] = Reaped(g)
        BY <2>1, <3>1, <3>3 DEF Typed, TypeOK
      <4>2. Reaped(g) = total[g] - Cardinality(idle[g])
        BY <2>1, <3>3 DEF Reaped
      <4>3. QED
        BY <1>0, <2>1, <3>2, <4>1, <4>2, Countable, FS_EmptySet
    <3>4. CASE g # h
      <4>1. idle'[g] = idle[g] /\ total'[g] = total[g]
        BY <2>1, <3>1, <3>4 DEF Typed, TypeOK
      <4>2. QED
        BY <1>0, <2>1, <3>2, <4>1
    <3>5. QED
      BY <3>3, <3>4
  <2>5. QED
    BY <1>14, <2>3, <2>4
<1>15. ASSUME NEW t \in Thread, ReserveIdle(t) PROVE Goal
  <2> DEFINE h == th[t].host
             E == Expired(h)
  <2>1. h \in Host /\ ~closed /\ th[t].pc = "try"
    BY <1>15 DEF ReserveIdle, Typed, HasHost
  <2>2. PICK c \in idle[h] \ E :
          /\ idle' = [idle EXCEPT ![h] = (@ \ E) \ {c}]
          /\ active' = [active EXCEPT ![h] = @ \cup {c}]
          /\ Set(t, "hold", h, c)
    BY <1>15 DEF ReserveIdle
  <2>3. total' = [total EXCEPT ![h] = Reaped(h)]
    BY <1>15 DEF ReserveIdle
  <2>4. Dialling(g)' = Dialling(g)
    BY <2>1, <2>2 DEF Set, Dialling, Typed, TypeOK
  <2>5. c \in Client /\ c \notin active[h]
    BY <2>1, <2>2 DEF Placed, PlacedAt, AtOnePlace, Typed, TypeOK
  <2> HIDE DEF h, E
  <2>6. CASE g = h
    <3>1. idle'[g] = (idle[g] \ E) \ {c} /\ active'[g] = active[g] \cup {c}
            /\ total'[g] = Reaped(g)
      BY <2>1, <2>2, <2>3, <2>6 DEF Typed, TypeOK
    <3> DEFINE kept == idle[g] \ E
    <3>a. kept = idle[g] \ Expired(g) /\ c \in kept
      BY <2>2, <2>6 DEF E
    <3>2. /\ IsFiniteSet(kept)
          /\ Cardinality(kept) = Cardinality(idle[g]) - Cardinality(Expired(g))
      BY <3>a, Countable, FS_Difference, ReapCount
    <3> HIDE DEF kept
    <3>b. Cardinality(kept \ {c}) = Cardinality(kept) - 1
      BY <3>a, <3>2, FS_RemoveElement
    <3>3. Cardinality(idle'[g]) = Cardinality(idle[g]) - Cardinality(E) - 1
      BY <2>6, <3>1, <3>2, <3>b DEF kept, E
    <3>c. IsFiniteSet(active[g]) /\ c \notin active[g]
      BY <2>5, <2>6, Countable
    <3>d. Cardinality(active[g] \cup {c}) = Cardinality(active[g]) + 1
      BY <3>c, FS_AddElement
    <3>4. Cardinality(active'[g]) = Cardinality(active[g]) + 1
      BY <3>1, <3>d
    <3>5. Reaped(g) = total[g] - Cardinality(E)
      BY <2>6 DEF Reaped, E
    <3>6. Cardinality(E) \in Nat
      BY <2>1, Countable DEF E
    <3>7. QED
      BY <1>0, <2>1, <2>4, <3>1, <3>3, <3>4, <3>5, <3>6, Countable
  <2>7. CASE g # h
    <3>1. idle'[g] = idle[g] /\ active'[g] = active[g] /\ total'[g] = total[g]
      BY <2>2, <2>3, <2>7 DEF Typed, TypeOK
    <3>2. QED
      BY <1>0, <2>1, <2>4, <3>1
  <2>8. QED
    BY <2>6, <2>7
<1>16. CASE CleanupTick
  <2>1. /\ total'[g] = Reaped(g) /\ idle'[g] = idle[g] \ Expired(g)
        /\ UNCHANGED <<active, closed, th>>
    BY <1>16 DEF CleanupTick
  <2>2. Dialling(g)' = Dialling(g)
    BY <2>1 DEF Dialling
  <2>3. QED
    BY <1>0, <2>1, <2>2, Countable, ReapCount DEF Reaped
<1>17. QED
  BY <1>1, <1>2, <1>3, <1>4, <1>5, <1>6, <1>7, <1>8, <1>9, <1>9a, <1>10,
     <1>11,
     <1>12, <1>13, <1>14, <1>15, <1>16
  DEF Next, Progress, Handshake, Calls

\* The cap of MaxPerHost holds for every number of goroutines, and no slot is
\* ever lost: total counts exactly the idle, active and dialling clients.
THEOREM SlotsAccounted == Spec => []SlotAccounting
<1>1. Init => SlotAccounting
  BY SlotsInit
<1>2. QED
  BY <1>1, TypedInit, TypedNext, PlacedInit, PlacedNext, SlotsNext, PTL DEF Spec
-----------------------------------------------------------------------------
(***************************************************************************)
(* No lost wake-up.  A parked goroutine is one in the select of Acquire,   *)
(* so only its own step can change its host.                               *)
(***************************************************************************)
Waiting == NoLostWakeup /\ \A t \in parked : th[t].pc = "wait"

\* Init: nobody waits.
LEMMA WaitingInit == Init => Waiting
BY DEF Init, Waiting, NoLostWakeup

\* A step that frees a client or a slot of a host takes every waiter of that
\* host off the installed channel; a waiter joins only when there is neither.
LEMMA WaitingNext == Typed /\ Waiting /\ [Next]_vars => Waiting'
<1> SUFFICES ASSUME Typed, Waiting, [Next]_vars, NEW w \in parked'
             PROVE /\ th'[w].pc = "wait"
                   /\ ~closed' => /\ idle'[th'[w].host] = {}
                                  /\ total'[th'[w].host] >= MaxPerHost
  BY DEF Waiting, NoLostWakeup
<1> DEFINE Goal == /\ th'[w].pc = "wait"
                   /\ ~closed' => /\ idle'[th'[w].host] = {}
                                  /\ total'[th'[w].host] >= MaxPerHost
<1> USE PoolAssumption DEF poolVars, netVars, At, InDial
<1>0. ASSUME w \in parked
      PROVE /\ w \in Thread /\ th[w].pc = "wait" /\ th[w].host \in Host
            /\ ~closed => /\ idle[th[w].host] = {}
                          /\ total[th[w].host] >= MaxPerHost
  BY <1>0 DEF Waiting, NoLostWakeup, Typed, TypeOK, HasHost
<1>f. ASSUME w \in parked, th'[w] = th[w], UNCHANGED <<idle, total, closed>>
      PROVE Goal
  BY <1>0, <1>f
<1>1. ASSUME NEW t \in Thread,
             \/ \E h \in Host : Acquire(t, h)
             \/ ReserveClosed(t) \/ Wake(t) \/ Connect(t)
             \/ StartKeepalive(t)
             \/ ReleaseNoop(t) \/ CloseReturn(t) \/ Timeout(t) \/ SeeDone(t)
             \/ \E c \in Client : DialOk(t, c)
      PROVE Goal
  <2>1. /\ UNCHANGED <<idle, total, closed>> /\ parked' \subseteq parked
    BY <1>1 DEF Acquire, ReserveClosed, Wake, Connect, StartKeepalive, ReleaseNoop,
                CloseReturn, Timeout, SeeDone, LeaveWait, DialOk
  <2>2. w # t
    BY <1>0, <1>1, <2>1 DEF Acquire, ReserveClosed, Wake, Connect, StartKeepalive,
             ReleaseNoop, CloseReturn, Timeout, SeeDone, LeaveWait,
             DialOk
  <2>3. \A u \in Thread : u # t => th'[u] = th[u]
    BY <1>1 DEF Acquire, ReserveClosed, Wake, Connect, StartKeepalive, ReleaseNoop,
                CloseReturn, Timeout, SeeDone, LeaveWait, DialOk,
                Goto, Return, Set, Typed, TypeOK
  <2>4. QED
    BY <1>0, <1>f, <2>1, <2>2, <2>3
<1>2. ASSUME NEW t \in Thread, Notify(t) PROVE Goal
  <2>1. /\ UNCHANGED <<idle, total, closed, parked>> /\ At(t, "notify")
        /\ Return(t)
    BY <1>2, Zenon DEF Notify
  <2>2. \A u \in Thread : u # t => th'[u] = th[u]
    BY <2>1 DEF Goto, Return, Typed, TypeOK
  <2>3. QED
    BY <1>0, <1>f, <2>1, <2>2
<1>3. ASSUME NEW t \in Thread, Register(t) PROVE Goal
  <2>1. /\ At(t, "dialed") /\ UNCHANGED <<idle, closed, parked>>
        /\ Return(t) \/ Goto(t, "start")
    BY <1>3, Zenon DEF Register
  <2>a. ~closed => UNCHANGED total
    BY <1>3, Zenon DEF Register
  <2>2. w # t /\ \A u \in Thread : u # t => th'[u] = th[u]
    BY <1>0, <2>1 DEF Goto, Return, Typed, TypeOK
  <2>3. QED
    BY <1>0, <2>1, <2>a, <2>2
<1>4. ASSUME NEW t \in Thread, CloseAgain(t) PROVE Goal
  BY <1>4, <1>f DEF CloseAgain
<1>5. CASE CleanupExit
  BY <1>5, <1>f DEF CleanupExit
<1>6. ASSUME NEW c \in Client, Keepalive(c) PROVE Goal
  BY <1>6, <1>f DEF Keepalive, KeepaliveTick, KeepaliveDone, KeepaliveReply,
                    KeepaliveError
<1>7. ASSUME NEW c \in Client, Age(c) \/ Break(c) PROVE Goal
  BY <1>7, <1>f DEF Age, Break
<1>8. ASSUME NEW a \in Thread \cup {Cleaner}, NEW c \in Client,
             CloseClient(a, c)
      PROVE Goal
  BY <1>8, <1>f DEF CloseClient
<1>9. CASE UNCHANGED vars
  BY <1>9, <1>f DEF vars
<1>10. ASSUME NEW t \in Thread, Close(t) PROVE Goal
  BY <1>10 DEF Close
<1>11. ASSUME NEW t \in Thread, DialFail(t) PROVE Goal
  <2> DEFINE h == th[t].host
  <2>1. /\ w \in parked /\ UNCHANGED <<idle, closed>> /\ h \in Host
        /\ th[t].pc \in {"dial", "handshake"}
        /\ \A u \in Thread : u # t => th'[u] = th[u]
    BY <1>11 DEF DialFail, Return, Typed, TypeOK, HasHost
  <2>2. w # t /\ th'[w] = th[w]
    BY <1>0, <2>1
  <2>3. CASE total[h] > 0
    <3>1. total' = [total EXCEPT ![h] = @ - 1] /\ parked' = parked \ Waiters(h)
      BY <1>11, <2>3 DEF DialFail
    <3>2. th[w].host # h
      BY <2>1, <3>1 DEF Waiters
    <3>3. total'[th[w].host] = total[th[w].host]
      BY <1>0, <2>1, <3>1, <3>2 DEF Typed, TypeOK
    <3>4. QED
      BY <1>0, <2>1, <2>2, <3>3
  <2>4. CASE ~(total[h] > 0)
    <3>1. UNCHANGED total
      BY <1>11, <2>4 DEF DialFail
    <3>2. QED
      BY <1>f, <2>1, <2>2, <3>1
  <2>5. QED
    BY <2>3, <2>4
<1>12. ASSUME NEW t \in Thread, Release(t) PROVE Goal
  <2> DEFINE h == th[t].host
  <2>1. /\ w \in parked /\ th[w].host # h /\ UNCHANGED <<total, closed>>
        /\ h \in Host /\ th[t].pc # "wait"
        /\ \A k \in Host : k # h => idle'[k] = idle[k]
        /\ \A u \in Thread : u # t => th'[u] = th[u]
    BY <1>12 DEF Release, Waiters, Goto, Typed, TypeOK, HasHost
  <2>2. QED
    BY <1>0, <2>1
<1>13. ASSUME NEW t \in Thread,
              ReserveIdle(t) \/ ReserveDial(t) \/ ReserveWait(t)
       PROVE Goal
  <2> DEFINE h == th[t].host
  <2>1. /\ h \in Host /\ th[t].pc = "try" /\ ~closed /\ UNCHANGED closed
        /\ \A u \in Thread : u # t => th'[u] = th[u]
        /\ \A k \in Host : k # h => idle'[k] = idle[k] /\ total'[k] = total[k]
    BY <1>13 DEF ReserveIdle, ReserveDial, ReserveWait, Goto, Set, HasHost,
                 Typed, TypeOK
  <2>2. ASSUME w # t, w \in parked, th[w].host # h PROVE Goal
    BY <1>0, <2>1, <2>2
  <2>3. Expired(h) = {} => Reaped(h) = total[h]
    BY <2>1, FS_EmptySet DEF Reaped, Typed, TypeOK
  <2>4. CASE ReserveIdle(t)
    <3>1. /\ w \in parked
          /\ Expired(h) # {} => th[w].host # h
          /\ \E c \in idle[h] : TRUE
      BY <2>4 DEF ReserveIdle, ParkedAfterReap, Waiters
    <3>2. w # t /\ th[w].host # h
      BY <1>0, <2>1, <3>1
    <3>3. QED
      BY <2>2, <3>1, <3>2
  <2>5. CASE ReserveDial(t)
    <3>1. /\ w \in parked
          /\ Expired(h) # {} => th[w].host # h
          /\ Reaped(h) < MaxPerHost
      BY <2>5 DEF ReserveDial, ParkedAfterReap, Waiters
    <3>2. w # t /\ th[w].host # h
      BY <1>0, <2>1, <2>3, <3>1 DEF Typed, TypeOK
    <3>3. QED
      BY <2>2, <3>1, <3>2
  <2>6. CASE ReserveWait(t)
    <3>1. /\ w \in parked \/ w = t
          /\ w # t /\ Expired(h) # {} => th[w].host # h
          /\ Reaped(h) >= MaxPerHost
          /\ idle'[h] = {} /\ total'[h] = Reaped(h)
          /\ th'[t].pc = "wait" /\ th'[t].host = h
      BY <2>1, <2>6 DEF ReserveWait, ParkedAfterReap, Waiters, Goto, Typed,
                        TypeOK
    <3>2. CASE w = t
      BY <2>1, <3>1, <3>2
    <3>3. CASE w # t /\ th[w].host = h
      BY <1>0, <2>1, <3>1, <3>3
    <3>4. CASE w # t /\ th[w].host # h
      BY <2>2, <3>1, <3>4
    <3>5. QED
      BY <3>2, <3>3, <3>4
  <2>7. QED
    BY <1>13, <2>4, <2>5, <2>6
<1>14. CASE CleanupTick
  <2>1. /\ w \in parked /\ UNCHANGED <<th, closed>>
        /\ \A h \in Host : Expired(h) # {} => w \notin Waiters(h)
        /\ \A h \in Host : idle'[h] = idle[h] \ Expired(h)
        /\ \A h \in Host : total'[h] = Reaped(h)
    BY <1>14 DEF CleanupTick
  <2>2. Expired(th[w].host) = {}
    BY <1>0, <2>1 DEF Waiters
  <2>a. total[th[w].host] \in Int /\ Cardinality(Expired(th[w].host)) = 0
    BY <1>0, <2>1, <2>2, FS_EmptySet DEF Typed, TypeOK
  <2>3. total'[th[w].host] = total[th[w].host]
    BY <1>0, <2>1, <2>a DEF Reaped
  <2>4. QED
    BY <1>0, <2>1, <2>2, <2>3
<1>15. QED
  BY <1>1, <1>2, <1>3, <1>4, <1>5, <1>6, <1>7, <1>8, <1>9, <1>10, <1>11,
     <1>12, <1>13, <1>14
  DEF Next, Progress, Handshake, Calls

\* No goroutine sleeps on an installed channel while its host has an idle
\* client or a free slot, whatever the interleaving of releases, failed
\* dials and reaps.
THEOREM NoWakeupLost == Spec => []NoLostWakeup
<1>1. Waiting => NoLostWakeup
  BY DEF Waiting
<1>2. QED
  BY <1>1, TypedInit, TypedNext, WaitingInit, WaitingNext, PTL DEF Spec
-----------------------------------------------------------------------------
(***************************************************************************)
(* Exclusive use, when no caller releases twice, and the end of keepalive  *)
(* traffic.                                                                *)
(***************************************************************************)
InHand(t) == th[t].pc \in {"dialed", "start", "hold"}

Exclusive ==
    /\ \A t \in Thread : Using(t) /\ ~closed =>
          th[t].client \in active[th[t].host]
    /\ \A t, u \in Thread : InHand(t) /\ InHand(u) /\ t # u =>
          th[t].client # th[u].client
    /\ closed => \A h \in Host : idle[h] = {} /\ active[h] = {}

Quiet ==
    /\ \A t \in Thread : th[t].pc = "closing" => closed
    /\ "first" \in returned =>
          closed /\ \A c \in Client : ka[c] # "send"

\* Init: no goroutine has a client and Close has not run.
LEMMA ExclusiveInit == Init => Exclusive /\ Quiet
BY DEF Init, Exclusive, Quiet, Using, InHand, Idle

\* A client passes from idle to one goroutine and back through its release;
\* after Close the pool stays empty.
LEMMA ExclusiveNext ==
    Typed /\ Placed /\ Exclusive /\ [Next]_vars => Exclusive'
<1> SUFFICES ASSUME Typed, Placed, Exclusive, [Next]_vars PROVE Exclusive'
  OBVIOUS
<1> USE PoolAssumption DEF poolVars, netVars, At, InDial
<1>f. ASSUME NEW t \in Thread, UNCHANGED <<idle, active, closed>>,
             \A u \in Thread : u # t => th'[u] = th[u],
             InHand(t)' => /\ InHand(t) /\ (Using(t)' => Using(t))
                           /\ th'[t].client = th[t].client
                           /\ th'[t].host = th[t].host
      PROVE Exclusive'
  BY <1>f DEF Exclusive, InHand, Using
<1>s. ASSUME UNCHANGED <<idle, active, closed, th>> PROVE Exclusive'
  BY <1>s DEF Exclusive, InHand, Using
<1>1. ASSUME NEW t \in Thread,
             \/ \E h \in Host : Acquire(t, h)
             \/ ReserveClosed(t) \/ Wake(t) \/ Connect(t)
             \/ StartKeepalive(t)
             \/ ReleaseNoop(t) \/ CloseReturn(t) \/ Timeout(t) \/ SeeDone(t)
             \/ DialFail(t)
      PROVE Exclusive'
  <2>1. UNCHANGED <<idle, active, closed>>
    BY <1>1 DEF Acquire, ReserveClosed, Wake, Connect, StartKeepalive, ReleaseNoop,
                CloseReturn, Timeout, SeeDone, LeaveWait, DialFail
  <2>2. \A u \in Thread : u # t => th'[u] = th[u]
    BY <1>1 DEF Acquire, ReserveClosed, Wake, Connect, StartKeepalive, ReleaseNoop,
                CloseReturn, Timeout, SeeDone, LeaveWait, DialFail,
                Goto, Return, Set, Typed, TypeOK
  <2>3. InHand(t)' => /\ InHand(t) /\ (Using(t)' => Using(t))
                      /\ th'[t].client = th[t].client
                      /\ th'[t].host = th[t].host
    BY <1>1 DEF Acquire, ReserveClosed, Wake, Connect, StartKeepalive, ReleaseNoop,
                CloseReturn, Timeout, SeeDone, LeaveWait, DialFail,
                Goto, Return, Set, Idle, Typed, TypeOK, InHand, Using
  <2>4. QED
    BY <1>f, <2>1, <2>2, <2>3
<1>2. ASSUME NEW t \in Thread, Notify(t) PROVE Exclusive'
  <2>1. UNCHANGED <<idle, active, closed>> /\ Return(t)
    BY <1>2, Zenon DEF Notify
  <2>2. /\ \A u \in Thread : u # t => th'[u] = th[u]
        /\ ~InHand(t)'
    BY <2>1 DEF Return, Idle, InHand, Typed, TypeOK
  <2>3. QED
    BY <1>f, <2>1, <2>2
<1>3. ASSUME NEW t \in Thread, CloseAgain(t) PROVE Exclusive'
  BY <1>3, <1>s DEF CloseAgain
<1>4. CASE CleanupExit
  BY <1>4, <1>s DEF CleanupExit
<1>5. ASSUME NEW c \in Client, Keepalive(c) PROVE Exclusive'
  BY <1>5, <1>s DEF Keepalive, KeepaliveTick, KeepaliveDone, KeepaliveReply,
                    KeepaliveError
<1>6. ASSUME NEW c \in Client, Age(c) \/ Break(c) PROVE Exclusive'
  BY <1>6, <1>s DEF Age, Break
<1>7. ASSUME NEW a \in Thread \cup {Cleaner}, NEW c \in Client,
             CloseClient(a, c)
      PROVE Exclusive'
  BY <1>7, <1>s DEF CloseClient
<1>8. CASE UNCHANGED vars
  BY <1>8, <1>s DEF vars
<1>9. ASSUME NEW t \in Thread, NEW c \in Client, DialOk(t, c)
      PROVE Exclusive'
  <2>1. /\ UNCHANGED <<idle, active, closed>>
        /\ th'[t].pc = "dialed" /\ th'[t].client = c
        /\ \A u \in Thread : u # t => th'[u] = th[u]
        /\ \A u \in Thread : th[u].client # c
    BY <1>9 DEF DialOk, Unused, Set, Typed, TypeOK
  <2>2. QED
    BY <2>1 DEF Exclusive, InHand, Using
<1>10. ASSUME NEW t \in Thread, Register(t) PROVE Exclusive'
  <2> DEFINE c == th[t].client
             h == th[t].host
  <2>1. UNCHANGED <<idle, closed>> /\ th[t].pc = "dialed" /\ h \in Host
    BY <1>10, Zenon DEF Register, Typed, HasHost
  <2>2. CASE closed
    <3>1. Return(t) /\ UNCHANGED active
      BY <1>10, <2>2, Zenon DEF Register
    <3>2. /\ \A u \in Thread : u # t => th'[u] = th[u]
          /\ ~InHand(t)'
      BY <3>1 DEF Return, Idle, InHand, Typed, TypeOK
    <3>3. QED
      BY <1>f, <2>1, <3>1, <3>2
  <2>3. CASE ~closed
    <3>1. /\ active' = [active EXCEPT ![h] = @ \cup {c}]
          /\ Goto(t, "start")
      BY <1>10, <2>3, Zenon DEF Register
    <3>2. /\ \A u \in Thread : u # t => th'[u] = th[u]
          /\ th'[t].pc = "start" /\ th'[t].client = c /\ th'[t].host = h
          /\ c \in active'[h]
          /\ \A k \in Host : active[k] \subseteq active'[k]
      BY <2>1, <3>1 DEF Goto, Typed, TypeOK
    <3>3. \A u \in Thread : Using(u) => th[u].host \in Host
      BY DEF Using, Typed, HasHost
    <3>4. QED
      BY <2>1, <2>3, <3>2, <3>3 DEF Exclusive, InHand, Using
  <2>4. QED
    BY <2>2, <2>3
<1>11. ASSUME NEW t \in Thread, Release(t) PROVE Exclusive'
  <2> DEFINE c == th[t].client
             h == th[t].host
  <2>1. th[t].pc = "hold" /\ c \in active[h] /\ h \in Host
    BY <1>11 DEF Release, Typed, HasHost
  <2>2. ~closed
    BY <2>1 DEF Exclusive
  <2>3. /\ \A k \in Host, x \in Client : x # c /\ x \in active[k] => x \in active'[k]
        /\ \A u \in Thread : u # t => th'[u] = th[u]
        /\ th'[t].pc = "notify" /\ UNCHANGED closed
    BY <1>11, <2>1 DEF Release, Goto, Typed, TypeOK
  <2>4. \A u \in Thread : Using(u) => th[u].host \in Host /\ th[u].client \in Client
    BY DEF Using, Typed, HasHost, HasClient
  <2>5. QED
    BY <2>1, <2>2, <2>3, <2>4 DEF Exclusive, InHand, Using
<1>12. ASSUME NEW t \in Thread, ReserveDial(t) \/ ReserveWait(t)
       PROVE Exclusive'
  <2>1. /\ UNCHANGED <<active, closed>> /\ ~closed /\ ~InHand(t)'
        /\ \A u \in Thread : u # t => th'[u] = th[u]
    BY <1>12 DEF ReserveDial, ReserveWait, Goto, InHand, Typed, TypeOK
  <2>2. QED
    BY <2>1 DEF Exclusive, InHand, Using
<1>13. ASSUME NEW t \in Thread, ReserveIdle(t) PROVE Exclusive'
  <2> DEFINE h == th[t].host
  <2>1. h \in Host /\ ~closed /\ UNCHANGED closed
    BY <1>13 DEF ReserveIdle, Typed, HasHost
  <2>2. PICK c \in idle[h] :
          /\ active' = [active EXCEPT ![h] = @ \cup {c}]
          /\ Set(t, "hold", h, c)
    BY <1>13 DEF ReserveIdle
  <2>3. /\ \A u \in Thread : u # t => th'[u] = th[u]
        /\ th'[t].pc = "hold" /\ th'[t].client = c /\ th'[t].host = h
        /\ c \in active'[h] /\ c \in Client
        /\ \A k \in Host : active[k] \subseteq active'[k]
    BY <2>1, <2>2 DEF Set, Typed, TypeOK
  <2>4. \A u \in Thread : InHand(u) => th[u].client # c
    <3>1. SUFFICES ASSUME NEW u \in Thread, InHand(u), th[u].client = c
                   PROVE FALSE
      OBVIOUS
    <3>2. CASE th[u].pc = "dialed"
      BY <2>1, <2>3, <3>1, <3>2
         DEF Placed, PlacedAt, AtOnePlace, InPool, Fetched
    <3>3. CASE Using(u)
      <4>1. c \in active[th[u].host] /\ th[u].host \in Host
        BY <2>1, <3>1, <3>3 DEF Exclusive, Using, Typed, HasHost
      <4>2. QED
        BY <2>1, <2>2, <2>3, <4>1 DEF Placed, PlacedAt, AtOnePlace
    <3>4. QED
      BY <3>1, <3>2, <3>3 DEF InHand, Using
  <2>5. \A u \in Thread : Using(u) => th[u].host \in Host
    BY DEF Using, Typed, HasHost
  <2>6. QED
    BY <2>1, <2>3, <2>4, <2>5 DEF Exclusive, InHand, Using
<1>14. ASSUME NEW t \in Thread, Close(t) PROVE Exclusive'
  <2>1. /\ closed' = TRUE
        /\ \A h \in Host : idle'[h] = {} /\ active'[h] = {}
        /\ \A u \in Thread : u # t => th'[u] = th[u]
        /\ ~InHand(t)'
    BY <1>14 DEF Close, Goto, InHand, Typed, TypeOK
  <2>2. QED
    BY <2>1 DEF Exclusive, InHand, Using
<1>15. CASE CleanupTick
  <2>1. /\ UNCHANGED <<active, closed, th>>
        /\ \A h \in Host : idle'[h] \subseteq idle[h]
    BY <1>15 DEF CleanupTick
  <2>2. QED
    BY <2>1 DEF Exclusive, InHand, Using
<1>16. QED
  BY <1>1, <1>2, <1>3, <1>4, <1>5, <1>6, <1>7, <1>8, <1>9, <1>10, <1>11,
     <1>12, <1>13, <1>14, <1>15
  DEF Next, Progress, Handshake, Calls

\* No client Acquire has given out is ever in two hands, nor in a hand and idle
\* for the next caller.
THEOREM ExclusiveUse == Spec => []ExclusiveHold
<1>1. Typed /\ Placed /\ Exclusive => ExclusiveHold
  <2> SUFFICES ASSUME Typed, Placed, Exclusive, NEW t \in Thread, Using(t)
               PROVE /\ \A u \in Thread \ {t} : Using(u) =>
                           th[u].client # th[t].client
                     /\ \A h \in Host : th[t].client \notin idle[h]
    BY DEF ExclusiveHold
  <2>1. \A u \in Thread \ {t} : Using(u) => th[u].client # th[t].client
    BY DEF Exclusive, InHand, Using
  <2>2. \A h \in Host : th[t].client \notin idle[h]
    <3>1. th[t].client \in Client /\ th[t].host \in Host
      BY DEF Using, Typed, HasHost, HasClient
    <3>2. CASE closed
      BY <3>2 DEF Exclusive
    <3>3. CASE ~closed
      BY <3>1, <3>3 DEF Exclusive, Placed, PlacedAt, AtOnePlace
    <3>4. QED
      BY <3>2, <3>3
  <2>3. QED
    BY <2>1, <2>2
<1>2. Init => Exclusive
  BY ExclusiveInit
<1>3. Typed /\ Placed /\ Exclusive /\ [Next]_vars => Exclusive'
  BY ExclusiveNext
<1>4. QED
  BY <1>1, <1>2, <1>3, TypedInit, TypedNext, PlacedInit, PlacedNext, PTL
  DEF Spec

\* The tick of a keepalive loop re-checks done before it sends, and Close
\* waits for every loop that passed the check.
LEMMA QuietNext == Typed /\ Quiet /\ [Next]_vars => Quiet'
<1> SUFFICES ASSUME Typed, Quiet, [Next]_vars PROVE Quiet'
  OBVIOUS
<1> USE DEF poolVars, netVars, At, InDial
<1>1. closed => closed'
  BY ZenonT(60) DEF Next, Progress, Handshake, Calls, vars, Keepalive, Acquire, ReserveClosed,
         ReserveIdle, ReserveDial, ReserveWait, Wake, Connect, SeeDone, Timeout,
         LeaveWait, DialFail, DialOk, Register, StartKeepalive, Notify,
         CloseReturn, ReleaseNoop, Release, CloseAgain, Close, CloseClient,
         CleanupTick, CleanupExit, KeepaliveTick, KeepaliveDone,
         KeepaliveReply, KeepaliveError, Break, Age
<1>2. \A t \in Thread : th'[t].pc = "closing" => th[t].pc = "closing" \/ closed'
  <2> SUFFICES ASSUME NEW t \in Thread, th'[t].pc = "closing", ~closed'
               PROVE th[t].pc = "closing"
    OBVIOUS
  <2> USE DEF Goto, Return, Set, Idle, Typed, TypeOK
  <2>1. ASSUME NEW u \in Thread,
               \/ \E h \in Host : Acquire(u, h)
               \/ ReserveClosed(u) \/ ReserveIdle(u) \/ ReserveDial(u)
               \/ ReserveWait(u) \/ Wake(u) \/ Connect(u)
        PROVE th[t].pc = "closing"
    BY <2>1 DEF Acquire, ReserveClosed, ReserveIdle, ReserveDial, ReserveWait,
                Wake, Connect
  <2>2. ASSUME NEW u \in Thread,
               \/ SeeDone(u) \/ Timeout(u) \/ DialFail(u)
               \/ (\E c \in Client : DialOk(u, c)) \/ StartKeepalive(u)
               \/ CloseReturn(u) \/ ReleaseNoop(u) \/ Release(u)
        PROVE th[t].pc = "closing"
    BY <2>2 DEF SeeDone, Timeout, LeaveWait, DialFail, DialOk, StartKeepalive,
                CloseReturn, ReleaseNoop, Release
  <2>3. ASSUME NEW u \in Thread, Notify(u) \/ Register(u)
        PROVE th[t].pc = "closing"
    <3>1. Goto(u, "start") \/ Return(u)
      BY <2>3, Zenon DEF Notify, Register
    <3>2. QED
      BY <3>1
  <2>4. \A u \in Thread : ~Close(u)
    BY DEF Close
  <2>5. ASSUME UNCHANGED th PROVE th[t].pc = "closing"
    BY <2>5
  <2>6. QED
    BY <2>1, <2>2, <2>3, <2>4, <2>5
    DEF Next, Progress, Handshake, Calls, vars, CloseAgain, CloseClient, CleanupTick,
        CleanupExit, Keepalive, KeepaliveTick, KeepaliveDone, KeepaliveReply,
        KeepaliveError, Break, Age
<1>3. ASSUME NEW c \in Client, closed, ka[c] # "send" PROVE ka'[c] # "send"
  <2>1. ka \in [Client -> {"off", "wait", "send"}]
    BY DEF Typed, TypeOK
  <2>2. ASSUME NEW t \in Thread, StartKeepalive(t) PROVE ka'[c] # "send"
    BY <1>3, <2>1, <2>2 DEF StartKeepalive
  <2>3. ASSUME NEW d \in Client, Keepalive(d) PROVE ka'[c] # "send"
    BY <1>3, <2>1, <2>3 DEF Keepalive, KeepaliveTick, KeepaliveDone,
                            KeepaliveReply, KeepaliveError
  <2>4. \/ UNCHANGED ka
        \/ \E t \in Thread : StartKeepalive(t)
        \/ \E d \in Client : Keepalive(d)
    BY ZenonT(60) DEF Next, Progress, Handshake, Calls, vars, netVars, Acquire, ReserveClosed,
         ReserveIdle, ReserveDial, ReserveWait, Wake, Connect, SeeDone, Timeout,
         LeaveWait, DialFail, DialOk, Register, Notify, CloseReturn,
         ReleaseNoop, Release, CloseAgain, Close, CloseClient, CleanupTick,
         CleanupExit, Break, Age
  <2>5. QED
    BY <1>3, <2>2, <2>3, <2>4
<1>4. "first" \in returned' =>
        \/ "first" \in returned
        \/ \E t \in Thread : CloseReturn(t)
  <2>1. \/ UNCHANGED returned
        \/ \E t \in Thread : CloseAgain(t) \/ CloseReturn(t)
    BY ZenonT(60) DEF Next, Progress, Handshake, Calls, vars, Keepalive, Acquire, ReserveClosed,
         ReserveIdle, ReserveDial, ReserveWait, Wake, Connect, SeeDone, Timeout,
         LeaveWait, DialFail, DialOk, Register, StartKeepalive, Notify,
         ReleaseNoop, Release, Close, CloseClient,
         CleanupTick, CleanupExit, KeepaliveTick, KeepaliveDone,
         KeepaliveReply, KeepaliveError, Break, Age
  <2>2. ASSUME NEW t \in Thread, CloseAgain(t) PROVE "first" \in returned' => "first" \in returned
    BY <2>2 DEF CloseAgain
  <2>3. QED
    BY <2>1, <2>2
<1>5. ASSUME NEW t \in Thread, CloseReturn(t)
      PROVE closed /\ \A c \in Client : ka[c] # "send"
  BY <1>5 DEF CloseReturn, Quiet
<1>6. QED
  BY <1>1, <1>2, <1>3, <1>4, <1>5 DEF Quiet

\* After Close has returned no keepalive request reaches a live connection.
THEOREM NoTraffic == Spec => []NoTrafficAfterClose
<1>1. Quiet => NoTrafficAfterClose
  BY DEF Quiet, NoTrafficAfterClose
<1>2. Init => Quiet
  BY ExclusiveInit
<1>3. QED
  BY <1>1, <1>2, TypedInit, TypedNext, QuietNext, PTL DEF Spec
-----------------------------------------------------------------------------
(***************************************************************************)
(* The contract.  A step of the pool that changes who holds a client, or   *)
(* that closes the pool, is a step of PoolContract; every other step is a  *)
(* stutter of it.  Grant needs the slot count: an idle client, or a dial   *)
(* in flight, occupies one of the MaxPerHost slots, so fewer are active.   *)
(***************************************************************************)

\* The contract counts as the pool does.
LEMMA SameCount ==
    ASSUME NEW S PROVE Contract!Cardinality(S) = Cardinality(S)
BY Zenon DEF Cardinality, Contract!Cardinality

\* An idle client of h that is handed out (reserveOrWait).
LEMMA IdleIsGranted ==
    ASSUME Typed, Placed, SlotAccounting, NEW t \in Thread, ReserveIdle(t)
    PROVE  \E c \in Client : Contract!Grant(th[t].host, c)
<1> DEFINE h == th[t].host
<1>1. h \in Host /\ ~closed /\ UNCHANGED closed
  BY DEF ReserveIdle, At, Typed, HasHost
<1>2. PICK c \in idle[h] : active' = [active EXCEPT ![h] = @ \cup {c}]
  BY DEF ReserveIdle
<1>3. c \in Client
  BY <1>1, <1>2 DEF Typed, TypeOK
<1>4. \A g \in Host : c \notin active[g]
  BY <1>1, <1>2, <1>3 DEF Placed, PlacedAt, AtOnePlace
<1>5. Cardinality(idle[h]) # 0
  BY <1>1, <1>2, Countable, FS_EmptySet
<1>6. Cardinality(active[h]) < MaxPerHost
  BY <1>1, <1>5, Countable, PoolAssumption DEF SlotAccounting
<1>7. QED
  BY <1>1, <1>2, <1>3, <1>4, <1>6, SameCount, Zenon DEF Contract!Grant

\* A dialled client that is registered (dialReserved).
LEMMA DialledIsGranted ==
    ASSUME Typed, Placed, SlotAccounting, NEW t \in Thread, Register(t), ~closed
    PROVE  \E c \in Client : Contract!Grant(th[t].host, c)
<1> DEFINE h == th[t].host
           c == th[t].client
<1>1. /\ h \in Host /\ c \in Client /\ UNCHANGED closed /\ th[t].pc = "dialed"
      /\ active' = [active EXCEPT ![h] = @ \cup {c}]
  BY Zenon DEF Register, At, Typed, HasHost, HasClient
<1>2. \A g \in Host : c \notin active[g]
  BY <1>1 DEF Placed, PlacedAt, AtOnePlace, Fetched, InPool
<1>3. t \in Dialling(h)
  BY <1>1 DEF Dialling
<1>4. Cardinality(Dialling(h)) # 0
  BY <1>1, <1>3, Countable, FS_EmptySet
<1>5. Cardinality(active[h]) < MaxPerHost
  BY <1>1, <1>4, Countable, PoolAssumption DEF SlotAccounting
<1>6. QED
  BY <1>1, <1>2, <1>5, SameCount, Zenon DEF Contract!Grant

\* Every step of the pool is a step of its contract or leaves it alone.
LEMMA StepIsContract ==
    Typed /\ Placed /\ SlotAccounting /\ [Next]_vars
        => [Contract!Next]_(Contract!poolVars)
<1> SUFFICES ASSUME Typed, Placed, SlotAccounting, [Next]_vars
             PROVE  Contract!Next \/ UNCHANGED <<active, closed>>
  BY DEF Contract!poolVars
<1> USE DEF poolVars, At, InDial
<1>1. ASSUME NEW t \in Thread, ReserveIdle(t) PROVE Contract!Next
  <2>1. th[t].host \in Host
    BY <1>1 DEF ReserveIdle, Typed, HasHost
  <2>2. QED
    BY <1>1, <2>1, IdleIsGranted, Zenon DEF Contract!Next
<1>2. ASSUME NEW t \in Thread, Register(t)
      PROVE Contract!Next \/ UNCHANGED <<active, closed>>
  <2>1. th[t].host \in Host
    BY <1>2 DEF Register, Typed, HasHost
  <2>2. CASE closed
    BY <1>2, <2>2, Zenon DEF Register
  <2>3. CASE ~closed
    BY <1>2, <2>1, <2>3, DialledIsGranted, Zenon DEF Contract!Next
  <2>4. QED
    BY <2>2, <2>3
<1>3. ASSUME NEW t \in Thread, Release(t) PROVE Contract!Next
  <2>1. th[t].host \in Host /\ th[t].client \in Client
    BY <1>3 DEF Release, Typed, HasHost, HasClient
  <2>2. Contract!GiveBack(th[t].host, th[t].client)
    BY <1>3 DEF Release, Contract!GiveBack
  <2>3. QED
    BY <2>1, <2>2, Zenon DEF Contract!Next
<1>4. ASSUME NEW t \in Thread, Close(t) PROVE Contract!Next
  <2>1. Contract!Shut
    BY <1>4 DEF Close, Contract!Shut
  <2>2. QED
    BY <2>1 DEF Contract!Next
<1>5. ASSUME NEW t \in Thread,
             \/ \E h \in Host : Acquire(t, h)
             \/ ReserveClosed(t) \/ ReserveDial(t) \/ ReserveWait(t) \/ Wake(t)
             \/ Connect(t) \/ SeeDone(t) \/ Timeout(t) \/ DialFail(t) \/ StartKeepalive(t)
             \/ (\E c \in Client : DialOk(t, c))
             \/ Notify(t) \/ CloseReturn(t) \/ ReleaseNoop(t) \/ CloseAgain(t)
      PROVE UNCHANGED <<active, closed>>
  BY <1>5, Zenon DEF Acquire, ReserveClosed, ReserveDial, ReserveWait, Wake, Connect, SeeDone,
              Timeout, LeaveWait, DialFail, StartKeepalive, DialOk, Notify,
              CloseReturn, ReleaseNoop, CloseAgain
<1>6. ASSUME \/ \E a \in Thread \cup {Cleaner}, c \in Client : CloseClient(a, c)
             \/ CleanupTick \/ CleanupExit
             \/ \E c \in Client : Keepalive(c) \/ Break(c) \/ Age(c)
             \/ UNCHANGED vars
      PROVE UNCHANGED <<active, closed>>
  BY <1>6, Zenon DEF CloseClient, CleanupTick, CleanupExit, Keepalive, KeepaliveTick,
              KeepaliveDone, KeepaliveReply, KeepaliveError, Break, Age, vars
<1>7. QED
  BY <1>1, <1>2, <1>3, <1>4, <1>5, <1>6, Zenon DEF Next, Progress, Handshake, Calls

\* The pool implements its contract: whatever Acquire, Release, Close, the
\* reaper and the dials do in whatever order, callers see clients change hands
\* exclusively, below the cap and never after Close.
THEOREM PoolImplementsContract == Spec => ImplementsContract
<1>1. Init => Contract!Init
  BY DEF Init, Contract!Init
<1>2. Spec => [](Typed /\ Placed /\ SlotAccounting)
  BY AlwaysPlaced, SlotsAccounted, PTL
<1>3. QED
  BY <1>1, <1>2, StepIsContract, PTL DEF Spec, ImplementsContract, Contract!Spec
=============================================================================
