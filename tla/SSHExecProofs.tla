---------------------------- MODULE SSHExecProofs ----------------------------
(***************************************************************************)
(* Proofs about SSHExec for every number of hosts, callers and clients,    *)
(* every budget of the limiter and every retry policy: permits and clients *)
(* are not lost, a command is not repeated, and the pauses of the default  *)
(* policy stay in their budget.                                            *)
(***************************************************************************)
EXTENDS SSHExec, FiniteSetTheorems, TLAPS

(***************************************************************************)
(* What one call knows about itself, whatever the others do.               *)
(***************************************************************************)
CallType ==
    [pc : Pcs, kind : Kinds \cup {"none"}, host : Host \cup {NoHost},
     client : Client \cup {NoClient}, ctx : {"live", "done"}, deadline : BOOLEAN,
     attempt : Nat, err : {"nil", "ctx", "terminal"},
     remote : {"none", "sent", "started", "nil", "exit", "lost"},
     runs : Nat, slept : Nat]

\* A call has a client exactly from Acquire to Release.
Holding == {"session", "select", "drain", "release", "using"}

\* The command is sent from "session", to where no way leads back once it was
\* sent: Exec's result is never ErrPoolBusy, and Reconnect opens no session.
Unsent == {"idle", "limiter", "queue", "loop", "acquire", "wait", "handshake", "session",
           "sleep"}

Local(r) ==
    /\ r.pc = "idle" => r.kind = "none"
    /\ r.pc # "idle" => r.kind \in Kinds /\ r.host \in Host
    /\ r.pc \in {"limiter", "queue"} => r.kind = "limited"
    /\ r.pc \in {"session", "select", "drain", "release"} => r.kind # "reconnect"
    /\ r.pc \in Holding <=> r.client # NoClient
    /\ r.pc \in Unsent => r.runs = 0
    /\ r.remote # "none" => r.pc \in {"select", "drain"}
    /\ r.remote = "sent" => r.runs = 0
    /\ r.runs <= 1

LocalOK == call \in [Caller -> CallType] /\ \A t \in Caller : Local(call[t])

(***************************************************************************)
(* What the calls share: the permits, and the clients of the pool.  While  *)
(* the pool is open a client in a hand is counted by it; after Close the   *)
(* pool counts none, and nobody gets another one.                          *)
(***************************************************************************)
Permits == slots = Cardinality({t \in Caller : Inside(t)})

Hands ==
    /\ held \in [Host -> SUBSET Client]
    /\ \A h \in Host : \A c \in held[h] :
          \E t \in Caller : call[t].host = h /\ call[t].client = c
    /\ open => \A t \in Caller :
          call[t].client # NoClient => call[t].client \in held[call[t].host]
    /\ \A t, u \in Caller :
          call[t].client # NoClient /\ call[t].client = call[u].client => t = u

Inv == LocalOK /\ Permits /\ Hands
-----------------------------------------------------------------------------
\* A pause is a natural number of milliseconds, whatever the shift yields.
LEMMA BackoffType ==
    ASSUME NEW n, NEW j \in Jitter PROVE jitteredBackoff(n, j) \in Nat
<1> DEFINE exp == BaseBackoff * 2 ^ n
           capped == IF exp \in 1..MaxBackoff THEN exp ELSE MaxBackoff
<1>1. capped \in Nat
  <2> HIDE DEF exp
  <2>1. QED
    BY ExecAssumption
<1> HIDE DEF capped
<1>2. j \in -20..20
  BY ExecAssumption
<1>3. (capped * (100 + j)) \div 100 \in Nat
  BY <1>1, <1>2
<1>4. QED
  BY <1>3 DEF jitteredBackoff, capped

\* The limited calls past the limiter are a finite set.
LEMMA InsideFinite ==
    /\ IsFiniteSet({t \in Caller : Inside(t)})
    /\ Cardinality({t \in Caller : Inside(t)}) \in Nat
<1>1. IsFiniteSet({t \in Caller : Inside(t)})
  BY ExecAssumption, FS_Subset
<1>2. QED
  BY <1>1, FS_CardinalityType

\* Nobody has called yet.
LEMMA InvInit == Init => Inv
<1> SUFFICES ASSUME Init PROVE Inv
  OBVIOUS
<1> USE ExecAssumption DEF Init, Pool!Init
<1>1. call \in [Caller -> CallType]
  BY DEF CallType, Idle, Pcs, Kinds
<1>2. \A t \in Caller : call[t] = Idle
  OBVIOUS
<1>3. LocalOK
  <2>1. Local(Idle)
    BY DEF Local, Idle, Holding, Unsent
  <2>2. QED
    BY <1>1, <1>2, <2>1, Zenon DEF LocalOK
<1>4. {t \in Caller : Inside(t)} = {}
  BY <1>2 DEF Inside, Idle
<1>5. Permits
  BY <1>4, FS_EmptySet DEF Permits
<1>6. Hands
  BY <1>2 DEF Hands, Idle
<1>7. QED
  BY <1>3, <1>5, <1>6 DEF Inv

\* A step of call t keeps the facts about the others.
LEMMA OneCall ==
    ASSUME Inv, NEW t \in Caller, NEW r \in CallType, Local(r),
           call' = [call EXCEPT ![t] = r]
    PROVE  /\ LocalOK' /\ call'[t] = r
           /\ \A u \in Caller : u # t => call'[u] = call[u]
BY DEF Inv, LocalOK

\* A step of call t that takes and gives back nothing.
LEMMA OwnStep ==
    ASSUME Inv, NEW t \in Caller, NEW r \in CallType, Local(r),
           call' = [call EXCEPT ![t] = r], UNCHANGED <<held, open, slots>>,
           r.client = call[t].client,
           r.client # NoClient => r.host = call[t].host,
           (r.kind = "limited" /\ r.pc \notin {"limiter", "queue"}) <=> Inside(t)
    PROVE  Inv'
<1>1. /\ LocalOK' /\ call'[t] = r
      /\ \A u \in Caller : u # t => call'[u] = call[u]
  BY OneCall
<1>2. {u \in Caller : Inside(u)}' = {u \in Caller : Inside(u)}
  BY <1>1 DEF Inside
<1>3. Permits'
  BY <1>2 DEF Inv, Permits
<1>4. Hands'
  BY <1>1, ExecAssumption DEF Inv, Hands
<1>5. QED
  BY <1>1, <1>3, <1>4 DEF Inv

\* The pool and the calls through one step of a call, of the remote command,
\* of the pool's Close or of a context.
LEMMA InvNext == Inv /\ [Next]_vars => Inv'
<1> SUFFICES ASSUME Inv, [Next]_vars PROVE Inv'
  OBVIOUS
<1> USE ExecAssumption
<1>0. ASSUME NEW t \in Caller PROVE call[t] \in CallType /\ Local(call[t])
  BY <1>0 DEF Inv, LocalOK
<1>1. CASE PoolClose
  <2>1. /\ UNCHANGED <<slots, call>> /\ held' = [h \in Host |-> {}] /\ open' = FALSE
    BY <1>1 DEF PoolClose, Pool!Shut
  <2>2. LocalOK' /\ Permits'
    BY <2>1 DEF Inv, LocalOK, Permits, Inside
  <2>3. Hands'
    BY <2>1 DEF Inv, Hands
  <2>4. QED
    BY <2>2, <2>3 DEF Inv
<1>2. ASSUME NEW t \in Caller, CtxDone(t) PROVE Inv'
  <2> DEFINE r == [call[t] EXCEPT !.ctx = "done"]
  <2>1. call' = [call EXCEPT ![t] = r] /\ UNCHANGED <<held, open, slots>>
    BY <1>2 DEF CtxDone
  <2>2. r \in CallType /\ Local(r)
    BY <1>0 DEF CallType, Local
  <2>3. QED
    BY <1>0, <2>1, <2>2, OwnStep DEF CallType, Inside
<1>3. ASSUME NEW t \in Caller, NEW k \in Kinds, NEW h \in Host, NEW d \in BOOLEAN,
             Start(t, k, h, d)
      PROVE Inv'
  <2> DEFINE r == [Idle EXCEPT !.kind = k, !.host = h, !.deadline = d,
                               !.pc = CASE k = "limited" -> "limiter"
                                        [] k = "retry" -> "loop"
                                        [] OTHER -> "acquire"]
  <2>1. /\ call' = [call EXCEPT ![t] = r] /\ UNCHANGED <<held, open, slots>>
        /\ call[t].pc = "idle"
    BY <1>3 DEF Start, At
  <2>2. /\ r \in CallType /\ r.client = NoClient /\ r.kind = k /\ r.host = h /\ r.runs = 0
        /\ r.remote = "none"
        /\ r.pc = CASE k = "limited" -> "limiter" [] k = "retry" -> "loop" [] OTHER -> "acquire"
    BY DEF Idle, CallType, Pcs, Kinds
  <2> HIDE DEF r
  <2>3. Local(r)
    BY <2>2 DEF Local, Holding, Unsent, Kinds
  <2>4. call[t].client = NoClient /\ ~Inside(t)
    BY <1>0, <2>1 DEF Local, Holding, Inside, Kinds
  <2>5. (r.kind = "limited" /\ r.pc \notin {"limiter", "queue"}) <=> Inside(t)
    BY <2>2, <2>4 DEF Kinds
  <2>6. QED
    BY <2>1, <2>2, <2>3, <2>4, <2>5, OwnStep
<1>4. ASSUME NEW t \in Caller, NEW pc, Goto(t, pc), pc \in Pcs \ {"idle", "limiter", "queue"},
             call[t].pc \notin {"idle", "limiter", "queue"},
             pc \in Holding <=> call[t].pc \in Holding,
             pc \in Unsent => call[t].pc \in Unsent,
             pc \in {"session", "select", "drain", "release"} => call[t].kind # "reconnect",
             call[t].remote # "none" => pc \in {"select", "drain"},
             UNCHANGED <<held, open, slots>>
      PROVE Inv'
  <2> DEFINE r == [call[t] EXCEPT !.pc = pc]
  <2>1. call' = [call EXCEPT ![t] = r]
    BY <1>4 DEF Goto
  <2>2. /\ r \in CallType /\ r.pc = pc /\ r.client = call[t].client /\ r.host = call[t].host
        /\ r.kind = call[t].kind /\ r.runs = call[t].runs /\ r.remote = call[t].remote
    BY <1>0, <1>4 DEF CallType
  <2> HIDE DEF r
  <2>3. Local(r)
    BY <1>0, <1>4, <2>2 DEF Local
  <2>4. QED
    BY <1>4, <2>1, <2>2, <2>3, OwnStep DEF Inside
<1>5. ASSUME NEW t \in Caller, call[t].pc \in {"loop", "wait", "select", "sleep"},
             Attempt(t) \/ Dial(t) \/ SelectDone(t) \/ NapCancel(t)
      PROVE Inv'
  <2>1. CASE Attempt(t)
    BY <1>0, <1>4, <2>1 DEF Attempt, At, Pcs, Holding, Unsent, Local
  <2>2. CASE SelectDone(t)
    BY <1>0, <1>4, <2>2 DEF SelectDone, At, Pcs, Holding, Unsent, Local
  <2>3. CASE NapCancel(t)
    BY <1>0, <1>4, <2>3 DEF NapCancel, At, Pcs, Holding, Unsent, Local
  <2>4. CASE Dial(t)
    BY <1>0, <1>4, <2>4 DEF Dial, At, Pcs, Holding, Unsent, Local
  <2>5. QED
    BY <1>5, <2>1, <2>2, <2>3, <2>4
<1>6. ASSUME NEW t \in Caller, NEW err, Decide(t, err),
             call[t].pc \in {"acquire", "wait", "handshake"},
             UNCHANGED <<held, open, slots>>
      PROVE Inv'
  <2> DEFINE pc == IF Again(t, err) THEN "sleep" ELSE "leave"
             r == [call[t] EXCEPT !.pc = pc, !.client = NoClient, !.err = "nil"]
  <2>1. call' = [call EXCEPT ![t] = r]
    BY <1>6 DEF Decide
  <2>2. pc \in {"sleep", "leave"}
    OBVIOUS
  <2> HIDE DEF pc
  <2>3. /\ r \in CallType /\ r.pc = pc /\ r.client = NoClient /\ r.host = call[t].host
        /\ r.kind = call[t].kind /\ r.runs = call[t].runs /\ r.remote = call[t].remote
    BY <1>0, <2>2, ZenonT(60) DEF CallType, Pcs
  <2> HIDE DEF r
  <2>4. call[t].client = NoClient /\ call[t].remote = "none" /\ call[t].runs = 0
    BY <1>0, <1>6 DEF Local, Holding, Unsent
  <2>5. Local(r)
    BY <1>0, <1>6, <2>2, <2>3, <2>4 DEF Local, Holding, Unsent
  <2>6. QED
    BY <1>6, <2>1, <2>2, <2>3, <2>4, <2>5, OwnStep DEF Inside
<1>7. ASSUME NEW t \in Caller, AcquireEnter(t) PROVE Inv'
  <2>1. CASE Done(t)
    BY <1>6, <1>7, <2>1 DEF AcquireEnter, At
  <2>2. CASE ~Done(t)
    BY <1>0, <1>4, <1>7, <2>2 DEF AcquireEnter, At, Pcs, Holding, Unsent, Local
  <2>3. QED
    BY <2>1, <2>2
<1>8. ASSUME NEW t \in Caller, AcquireBusy(t) \/ AcquireFail(t) PROVE Inv'
  BY <1>6, <1>8 DEF AcquireBusy, AcquireFail, InAcquire, At
<1>9. ASSUME NEW t \in Caller, call' = [call EXCEPT ![t] = Idle],
             call[t].client = NoClient, ~Inside(t), UNCHANGED <<held, open, slots>>
      PROVE Inv'
  <2>1. /\ Idle \in CallType /\ Local(Idle) /\ Idle.client = NoClient /\ Idle.kind = "none"
    BY DEF Idle, CallType, Pcs, Local, Holding, Unsent
  <2>2. QED
    BY <1>9, <2>1, OwnStep
<1>10. ASSUME NEW t \in Caller, LimiterEnter(t) PROVE Inv'
  <2>1. call[t].pc = "limiter" /\ UNCHANGED <<held, open, slots>>
    BY <1>10 DEF LimiterEnter, At
  <2>2. call[t].client = NoClient /\ ~Inside(t)
    BY <1>0, <2>1 DEF Local, Holding, Inside
  <2>3. CASE Done(t)
    BY <1>9, <1>10, <2>1, <2>2, <2>3 DEF LimiterEnter
  <2>4. CASE ~Done(t)
    <3> DEFINE r == [call[t] EXCEPT !.pc = "queue"]
    <3>1. call' = [call EXCEPT ![t] = r]
      BY <1>10, <2>4 DEF LimiterEnter, Goto
    <3>2. /\ r \in CallType /\ r.pc = "queue" /\ r.client = call[t].client
          /\ r.host = call[t].host /\ r.kind = call[t].kind /\ r.runs = call[t].runs
          /\ r.remote = call[t].remote
      BY <1>0 DEF CallType, Pcs
    <3> HIDE DEF r
    <3>3. Local(r)
      BY <1>0, <2>1, <3>2 DEF Local, Holding, Unsent
    <3>4. QED
      BY <2>1, <2>2, <3>1, <3>2, <3>3, OwnStep DEF Inside
  <2>5. QED
    BY <2>3, <2>4
<1>11. ASSUME NEW t \in Caller, LimiterCancel(t) PROVE Inv'
  <2>1. /\ call[t].pc = "queue" /\ UNCHANGED <<held, open, slots>>
        /\ call' = [call EXCEPT ![t] = Idle]
    BY <1>11 DEF LimiterCancel, At
  <2>2. call[t].client = NoClient /\ ~Inside(t)
    BY <1>0, <2>1 DEF Local, Holding, Inside
  <2>3. QED
    BY <1>9, <2>1, <2>2
<1>12. ASSUME NEW t \in Caller, LimiterGrant(t) PROVE Inv'
  <2> DEFINE r == [call[t] EXCEPT !.pc = "loop"]
  <2>1. /\ call' = [call EXCEPT ![t] = r] /\ call[t].pc = "queue"
        /\ slots' = slots + 1 /\ UNCHANGED <<held, open>>
    BY <1>12 DEF LimiterGrant, Goto, At
  <2>2. /\ r \in CallType /\ r.pc = "loop" /\ r.client = call[t].client
        /\ r.host = call[t].host /\ r.kind = call[t].kind /\ r.runs = call[t].runs
        /\ r.remote = call[t].remote
    BY <1>0 DEF CallType, Pcs
  <2> HIDE DEF r
  <2>3. Local(r) /\ r.kind = "limited"
    BY <1>0, <2>1, <2>2 DEF Local, Holding, Unsent
  <2>4. /\ LocalOK' /\ call'[t] = r
        /\ \A u \in Caller : u # t => call'[u] = call[u]
    BY <2>1, <2>2, <2>3, OneCall
  <2>5. ~Inside(t) /\ {u \in Caller : Inside(u)}' = {u \in Caller : Inside(u)} \cup {t}
    BY <2>1, <2>2, <2>3, <2>4 DEF Inside
  <2>6. Permits'
    BY <2>1, <2>5, InsideFinite, FS_AddElement DEF Inv, Permits
  <2>7. Hands'
    BY <2>1, <2>2, <2>4 DEF Inv, Hands
  <2>8. QED
    BY <2>4, <2>6, <2>7 DEF Inv
<1>13. ASSUME NEW t \in Caller, Leave(t) PROVE Inv'
  <2>1. /\ call' = [call EXCEPT ![t] = Idle] /\ call[t].pc = "leave"
        /\ UNCHANGED <<held, open>>
        /\ slots' = IF call[t].kind = "limited" THEN slots - 1 ELSE slots
    BY <1>13 DEF Leave, At
  <2>2. call[t].client = NoClient
    BY <1>0, <2>1 DEF Local, Holding
  <2>3. CASE call[t].kind # "limited"
    BY <1>9, <2>1, <2>2, <2>3 DEF Inside
  <2>4. CASE call[t].kind = "limited"
    <3>1. /\ Idle \in CallType /\ Local(Idle) /\ Idle.client = NoClient /\ Idle.kind = "none"
      BY DEF Idle, CallType, Pcs, Local, Holding, Unsent
    <3>2. /\ LocalOK' /\ call'[t] = Idle
          /\ \A u \in Caller : u # t => call'[u] = call[u]
      BY <2>1, <3>1, OneCall
    <3>3. Inside(t) /\ {u \in Caller : Inside(u)}' = {u \in Caller : Inside(u)} \ {t}
      BY <2>1, <2>4, <3>1, <3>2 DEF Inside
    <3>4. Permits'
      BY <2>1, <2>4, <3>3, InsideFinite, FS_RemoveElement, ZenonT(60) DEF Inv, Permits
    <3>5. Hands'
      BY <2>1, <2>2, <3>1, <3>2 DEF Inv, Hands
    <3>6. QED
      BY <3>2, <3>4, <3>5 DEF Inv
  <2>5. QED
    BY <2>3, <2>4
<1>14. ASSUME NEW t \in Caller, AcquireOk(t) PROVE Inv'
  <2>1. PICK c \in Client :
          /\ Pool!Grant(call[t].host, c)
          /\ call' = [call EXCEPT ![t].client = c,
                 ![t].pc = IF call[t].kind = "reconnect" THEN "using" ELSE "session"]
    BY <1>14 DEF AcquireOk
  <2> DEFINE pc == IF call[t].kind = "reconnect" THEN "using" ELSE "session"
             r == [call[t] EXCEPT !.client = c, !.pc = pc]
             h == call[t].host
  <2>2. /\ call' = [call EXCEPT ![t] = r] /\ slots' = slots
        /\ call[t].pc \in {"wait", "handshake"}
    BY <1>14, <2>1 DEF AcquireOk, InAcquire, At
  <2>3. pc \in {"using", "session"} /\ (pc = "session" => call[t].kind # "reconnect")
    OBVIOUS
  <2> HIDE DEF pc
  <2>4. /\ r \in CallType /\ r.pc = pc /\ r.client = c /\ r.host = h
        /\ r.kind = call[t].kind /\ r.runs = call[t].runs /\ r.remote = call[t].remote
    BY <1>0, <2>3, ZenonT(60) DEF CallType, Pcs
  <2> HIDE DEF r
  <2>5. Local(r)
    BY <1>0, <2>2, <2>3, <2>4 DEF Local, Holding, Unsent
  <2>6. /\ LocalOK' /\ call'[t] = r
        /\ \A u \in Caller : u # t => call'[u] = call[u]
    BY <2>2, <2>4, <2>5, OneCall
  <2>7. {u \in Caller : Inside(u)}' = {u \in Caller : Inside(u)}
    BY <2>2, <2>3, <2>4, <2>6 DEF Inside
  <2>8. Permits'
    BY <2>2, <2>7 DEF Inv, Permits
  <2>9. /\ open /\ open' = open /\ h \in Host
        /\ \A g \in Host : c \notin held[g]
        /\ held' = [held EXCEPT ![h] = @ \cup {c}]
    BY <1>0, <2>1, <2>2 DEF Local, Pool!Grant
  <2>10. Hands'
    <3>1. \A u \in Caller : call[u].client # c
      BY <1>0, <2>9 DEF Inv, Hands, Local, Holding
    <3>2. held' \in [Host -> SUBSET Client]
      BY <2>9 DEF Inv, Hands
    <3>3. \A g \in Host : \A d \in held'[g] :
            \E u \in Caller : call'[u].host = g /\ call'[u].client = d
      <4>1. call[t].client = NoClient
        BY <1>0, <2>2 DEF Local, Holding
      <4>2. SUFFICES ASSUME NEW g \in Host, NEW d \in held'[g]
                     PROVE \E u \in Caller : call'[u].host = g /\ call'[u].client = d
        OBVIOUS
      <4>3. CASE d \in held[g]
        BY <2>6, <4>1, <4>3 DEF Inv, Hands
      <4>4. CASE d \notin held[g]
        BY <2>4, <2>6, <2>9, <4>4 DEF Inv, Hands
      <4>5. QED
        BY <4>3, <4>4
    <3>4. \A u \in Caller : call'[u].client # NoClient => call'[u].client \in held'[call'[u].host]
      <4>1. SUFFICES ASSUME NEW u \in Caller, call'[u].client # NoClient
                     PROVE call'[u].client \in held'[call'[u].host]
        OBVIOUS
      <4>2. CASE u = t
        BY <2>4, <2>6, <2>9, <4>2 DEF Inv, Hands
      <4>3. CASE u # t
        <5>1. call[u].host \in Host
          BY <1>0, <2>6, <4>1, <4>3 DEF Local, Holding
        <5>2. QED
          BY <2>6, <2>9, <4>1, <4>3, <5>1 DEF Inv, Hands
      <4>4. QED
        BY <4>2, <4>3
    <3>5. \A u, v \in Caller :
            call'[u].client # NoClient /\ call'[u].client = call'[v].client => u = v
      BY <2>4, <2>6, <3>1 DEF Inv, Hands
    <3>6. QED
      BY <3>2, <3>3, <3>4, <3>5 DEF Hands
  <2>11. QED
    BY <2>6, <2>8, <2>10 DEF Inv
<1>15. ASSUME NEW t \in Caller, NewSession(t) PROVE Inv'
  <2> DEFINE r == [call[t] EXCEPT !.pc = "select", !.remote = "sent"]
  <2>1. /\ call' = [call EXCEPT ![t] = r] /\ call[t].pc = "session"
        /\ UNCHANGED <<held, open, slots>>
    BY <1>15 DEF NewSession, At
  <2>2. /\ r \in CallType /\ r.pc = "select" /\ r.client = call[t].client
        /\ r.host = call[t].host /\ r.kind = call[t].kind /\ r.runs = call[t].runs
        /\ r.remote = "sent"
    BY <1>0, ZenonT(60) DEF CallType, Pcs
  <2> HIDE DEF r
  <2>3. Local(r)
    BY <1>0, <2>1, <2>2 DEF Local, Holding, Unsent
  <2>4. QED
    BY <2>1, <2>2, <2>3, OwnStep DEF Inside
<1>16. ASSUME NEW t \in Caller, RunStart(t) PROVE Inv'
  <2> DEFINE n == call[t].runs + 1
             r == [call[t] EXCEPT !.remote = "started", !.runs = n]
  <2>1. /\ call' = [call EXCEPT ![t] = r] /\ call[t].remote = "sent"
        /\ UNCHANGED <<held, open, slots>>
    BY <1>16 DEF RunStart
  <2>3. n = 1 /\ n \in Nat
    BY <1>0, <2>1 DEF Local
  <2> HIDE DEF n
  <2>2. /\ r \in CallType /\ r.pc = call[t].pc /\ r.client = call[t].client
        /\ r.host = call[t].host /\ r.kind = call[t].kind /\ r.runs = 1
        /\ r.remote = "started"
    BY <1>0, <2>3 DEF CallType
  <2> HIDE DEF r
  <2>4. Local(r)
    BY <1>0, <2>1, <2>2 DEF Local, Holding, Unsent
  <2>5. QED
    BY <2>1, <2>2, <2>4, OwnStep DEF Inside
<1>17. ASSUME NEW t \in Caller, RunEnd(t) PROVE Inv'
  <2>1. PICK a \in {"nil", "exit", "lost"} : call' = [call EXCEPT ![t].remote = a]
    BY <1>17 DEF RunEnd
  <2> DEFINE r == [call[t] EXCEPT !.remote = a]
  <2>2. /\ call' = [call EXCEPT ![t] = r] /\ call[t].remote \in {"started", "sent"}
        /\ UNCHANGED <<held, open, slots>>
    BY <1>17, <2>1 DEF RunEnd
  <2>3. /\ r \in CallType /\ r.pc = call[t].pc /\ r.client = call[t].client
        /\ r.host = call[t].host /\ r.kind = call[t].kind /\ r.runs = call[t].runs
        /\ r.remote = a
    BY <1>0 DEF CallType
  <2> HIDE DEF r
  <2>4. Local(r)
    BY <1>0, <2>2, <2>3 DEF Local, Holding, Unsent
  <2>5. QED
    BY <2>2, <2>3, <2>4, OwnStep DEF Inside
\* The end of Exec: its error is kept for the decision after the release.
<1>18. ASSUME NEW t \in Caller, NEW rem \in {"none"}, NEW err \in {"nil", "ctx", "terminal"},
              call' = [call EXCEPT ![t].pc = "release", ![t].remote = rem, ![t].err = err],
              call[t].pc \in {"session", "select", "drain"},
              UNCHANGED <<held, open, slots>>
       PROVE Inv'
  <2> DEFINE r == [call[t] EXCEPT !.pc = "release", !.remote = rem, !.err = err]
  <2>1. call' = [call EXCEPT ![t] = r]
    BY <1>18
  <2>2. /\ r \in CallType /\ r.pc = "release" /\ r.client = call[t].client
        /\ r.host = call[t].host /\ r.kind = call[t].kind /\ r.runs = call[t].runs
        /\ r.remote = "none"
    BY <1>0, ZenonT(60) DEF CallType, Pcs
  <2> HIDE DEF r
  <2>3. Local(r)
    BY <1>0, <1>18, <2>2 DEF Local, Holding, Unsent
  <2>4. QED
    BY <1>18, <2>1, <2>2, <2>3, OwnStep, ZenonT(60) DEF Inside
<1>19. ASSUME NEW t \in Caller, NewSessionFail(t) \/ SelectResult(t) \/ Drain(t) PROVE Inv'
  <2>1. CASE NewSessionFail(t)
    <3>1. call[t].remote = "none"
      BY <1>0, <2>1 DEF NewSessionFail, At, Local
    <3>2. call' = [call EXCEPT ![t].pc = "release", ![t].remote = "none", ![t].err = "terminal"]
      <4>1. [call[t] EXCEPT !.pc = "release", !.err = "terminal"]
              = [call[t] EXCEPT !.pc = "release", !.remote = "none", !.err = "terminal"]
        BY <1>0, <3>1 DEF CallType
      <4>2. QED
        BY <2>1, <4>1 DEF NewSessionFail, Fail
    <3>3. QED
      BY <1>18, <2>1, <3>2 DEF NewSessionFail, At
  <2>2. CASE SelectResult(t)
    <3> DEFINE err == IF call[t].remote = "nil" THEN "nil" ELSE "terminal"
    <3>1. /\ call' = [call EXCEPT ![t].pc = "release", ![t].remote = "none", ![t].err = err]
          /\ err \in {"nil", "ctx", "terminal"} /\ call[t].pc = "select"
          /\ UNCHANGED <<held, open, slots>>
      BY <2>2 DEF SelectResult, At
    <3> HIDE DEF err
    <3>2. QED
      BY <1>18, <3>1
  <2>3. CASE Drain(t)
    BY <1>18, <2>3 DEF Drain, At
  <2>4. QED
    BY <1>19, <2>1, <2>2, <2>3
\* A client goes back to the pool.
<1>20. ASSUME NEW t \in Caller, NEW r \in CallType, Local(r), PoolRelease(t),
              call' = [call EXCEPT ![t] = r], slots' = slots, r.client = NoClient,
              r.kind = call[t].kind, r.pc \notin {"limiter", "queue"},
              call[t].pc \in {"release", "using"}
       PROVE Inv'
  <2> DEFINE h == call[t].host
             c == call[t].client
  <2>1. /\ LocalOK' /\ call'[t] = r
        /\ \A u \in Caller : u # t => call'[u] = call[u]
    BY <1>20, OneCall
  <2>2. {u \in Caller : Inside(u)}' = {u \in Caller : Inside(u)}
    BY <1>20, <2>1 DEF Inside
  <2>3. Permits'
    BY <1>20, <2>2 DEF Inv, Permits
  <2>4. h \in Host /\ c # NoClient
    BY <1>0, <1>20 DEF Local, Holding
  <2>5. open' = open /\ held' = [held EXCEPT ![h] = @ \ {c}]
    <3>1. CASE c \in held[h]
      BY <1>20, <3>1 DEF PoolRelease, Pool!GiveBack
    <3>2. CASE c \notin held[h]
      <4>1. held[h] \ {c} = held[h]
        BY <3>2
      <4>2. [held EXCEPT ![h] = @ \ {c}] = held
        BY <2>4, <4>1 DEF Inv, Hands
      <4>3. QED
        BY <1>20, <3>2, <4>2 DEF PoolRelease
    <3>3. QED
      BY <3>1, <3>2
  <2>6. Hands'
    <3>1. held' \in [Host -> SUBSET Client]
      BY <2>4, <2>5 DEF Inv, Hands
    <3>2. \A g \in Host : \A d \in held'[g] :
            \E u \in Caller : call'[u].host = g /\ call'[u].client = d
      <4>1. SUFFICES ASSUME NEW g \in Host, NEW d \in held'[g]
                     PROVE \E u \in Caller : call'[u].host = g /\ call'[u].client = d
        OBVIOUS
      <4>2. d \in held[g] /\ (g = h => d # c)
        BY <2>4, <2>5, <4>1 DEF Inv, Hands
      <4>3. PICK u \in Caller : call[u].host = g /\ call[u].client = d
        BY <4>2 DEF Inv, Hands
      <4>4. u # t
        BY <4>2, <4>3
      <4>5. QED
        BY <2>1, <4>3, <4>4
    <3>3. ASSUME open', NEW u \in Caller, call'[u].client # NoClient
          PROVE call'[u].client \in held'[call'[u].host]
      <4>1. u # t /\ call'[u] = call[u]
        BY <1>20, <2>1, <3>3
      <4>2. call[u].client \in held[call[u].host] /\ call[u].client # c
        BY <2>4, <2>5, <3>3, <4>1 DEF Inv, Hands
      <4>3. call[u].host \in Host
        BY <1>0, <3>3, <4>1 DEF Local, Holding
      <4>4. QED
        BY <2>5, <4>1, <4>2, <4>3 DEF Inv, Hands
    <3>4. \A u, v \in Caller :
            call'[u].client # NoClient /\ call'[u].client = call'[v].client => u = v
      BY <1>20, <2>1 DEF Inv, Hands
    <3>5. QED
      BY <3>1, <3>2, <3>3, <3>4 DEF Hands
  <2>7. QED
    BY <2>1, <2>3, <2>6 DEF Inv
<1>21. ASSUME NEW t \in Caller, Release(t) PROVE Inv'
  <2> DEFINE r == [call[t] EXCEPT !.pc = "leave", !.client = NoClient, !.err = "nil"]
  <2>1. call[t].pc = "release" /\ PoolRelease(t) /\ slots' = slots /\ Decide(t, call[t].err)
    BY <1>21 DEF Release, At
  <2>2. ~Again(t, call[t].err)
    <3>1. call[t].kind # "reconnect" /\ call[t].err # "busy"
      BY <1>0, <2>1 DEF Local, CallType
    <3>2. QED
      BY <3>1 DEF Again
  <2>3. call' = [call EXCEPT ![t] = r]
    BY <2>1, <2>2 DEF Decide
  <2>4. /\ r \in CallType /\ r.pc = "leave" /\ r.client = NoClient /\ r.host = call[t].host
        /\ r.kind = call[t].kind /\ r.runs = call[t].runs /\ r.remote = call[t].remote
    BY <1>0, ZenonT(60) DEF CallType, Pcs
  <2> HIDE DEF r
  <2>5. Local(r)
    BY <1>0, <2>1, <2>4 DEF Local, Holding, Unsent
  <2>6. QED
    BY <1>20, <2>1, <2>3, <2>4, <2>5
<1>22. ASSUME NEW t \in Caller, ReleaseReconnected(t) PROVE Inv'
  <2> DEFINE r == [call[t] EXCEPT !.pc = "leave", !.client = NoClient]
  <2>1. /\ call[t].pc = "using" /\ PoolRelease(t) /\ slots' = slots
        /\ call' = [call EXCEPT ![t] = r]
    BY <1>22 DEF ReleaseReconnected, At
  <2>2. /\ r \in CallType /\ r.pc = "leave" /\ r.client = NoClient /\ r.host = call[t].host
        /\ r.kind = call[t].kind /\ r.runs = call[t].runs /\ r.remote = call[t].remote
    BY <1>0, ZenonT(60) DEF CallType, Pcs
  <2> HIDE DEF r
  <2>3. Local(r)
    BY <1>0, <2>1, <2>2 DEF Local, Holding, Unsent
  <2>4. QED
    BY <1>20, <2>1, <2>2, <2>3
<1>23. ASSUME NEW t \in Caller, Nap(t) PROVE Inv'
  <2>1. PICK j \in Jitter :
          call' = [call EXCEPT ![t].attempt = @ + 1,
              ![t].slept = IF Retrying(t) THEN @ + jitteredBackoff(call[t].attempt, j) ELSE @,
              ![t].pc = IF Retrying(t) THEN "loop" ELSE "acquire"]
    BY <1>23 DEF Nap
  <2> DEFINE s == IF Retrying(t) THEN call[t].slept + jitteredBackoff(call[t].attempt, j)
                                 ELSE call[t].slept
             pc == IF Retrying(t) THEN "loop" ELSE "acquire"
             n == call[t].attempt + 1
             r == [call[t] EXCEPT !.attempt = n, !.slept = s, !.pc = pc]
  <2>2. call' = [call EXCEPT ![t] = r]
    BY <2>1, Zenon
  <2>7. call[t].pc = "sleep" /\ UNCHANGED <<held, open, slots>>
    BY <1>23 DEF Nap, At
  <2>3. s \in Nat /\ pc \in {"loop", "acquire"} /\ n \in Nat
    BY <1>0, BackoffType DEF CallType
  <2> HIDE DEF s, pc, n
  <2>4. /\ r \in CallType /\ r.pc = pc /\ r.client = call[t].client
        /\ r.host = call[t].host /\ r.kind = call[t].kind /\ r.runs = call[t].runs
        /\ r.remote = call[t].remote
    BY <1>0, <2>3, ZenonT(60) DEF CallType, Pcs
  <2> HIDE DEF r
  <2>5. Local(r)
    BY <1>0, <2>7, <2>3, <2>4 DEF Local, Holding, Unsent
  <2>6. QED
    BY <2>7, <2>2, <2>3, <2>4, <2>5, OwnStep DEF Inside
<1>24. CASE UNCHANGED vars
  BY <1>24 DEF vars, Inv, LocalOK, Permits, Hands, Inside
<1>25. ASSUME NEW t \in Caller, Step(t) PROVE Inv'
  BY <1>5, <1>7, <1>8, <1>10, <1>11, <1>12, <1>13, <1>14, <1>15, <1>19, <1>21, <1>22,
     <1>23, <1>25
     DEF Step, AcquireStep, Attempt, Dial, SelectDone, NapCancel, At
<1>26. ASSUME NEW t \in Caller, Server(t) PROVE Inv'
  BY <1>8, <1>14, <1>15, <1>16, <1>17, <1>19, <1>26 DEF Server
<1>27. QED
  BY <1>1, <1>2, <1>3, <1>22, <1>24, <1>25, <1>26 DEF Next

\* The callers keep Inv.
LEMMA SpecInv == Spec => []Inv
BY InvInit, InvNext, PTL DEF Spec

\* The limiter's budget is never exceeded, and every call is where the code
\* can be: NewInflightLimiter's weight bounds the calls past its Acquire.
THEOREM TypeCorrect == Spec => []TypeOK
<1> DEFINE Bounded == slots \in 0..Budget /\ open \in BOOLEAN
<1>0. Budget \in Nat
  BY ExecAssumption DEF Budget
<1>1. Init => Bounded
  BY <1>0 DEF Init, Pool!Init
<1>2. ASSUME Inv, Inv', Bounded, [Next]_vars PROVE Bounded'
  <2>1. slots' \in Nat
    <3>1. Cardinality({t \in Caller : Inside(t)})' \in Nat
      BY InsideFinite, ExecAssumption, FS_Subset, FS_CardinalityType
    <3>2. QED
      BY <1>2, <3>1 DEF Inv, Permits
  <2>2. slots' = slots \/ slots' = slots - 1 \/ (slots' = slots + 1 /\ slots < Budget)
    BY <1>2, ZenonT(60) DEF Next, PoolClose, CtxDone, Server, RunStart, RunEnd, Step, Start,
       LimiterEnter, LimiterGrant, LimiterCancel, Attempt, AcquireStep, AcquireEnter, Dial,
       AcquireOk, AcquireBusy, AcquireFail, NewSession, NewSessionFail, SelectResult,
       SelectDone, Drain, Release, Nap, NapCancel, ReleaseReconnected, Leave, vars
  <2>3. open' \in BOOLEAN
    <3>1. open' = open \/ open' = FALSE
      BY <1>2, ZenonT(60) DEF Next, PoolClose, CtxDone, Server, RunStart, RunEnd, Step, Start,
       LimiterEnter, LimiterGrant, LimiterCancel, Attempt, AcquireStep, AcquireEnter, Dial,
       AcquireOk, AcquireBusy, AcquireFail, NewSession, NewSessionFail, SelectResult,
       SelectDone, Drain, Release, Nap, NapCancel, ReleaseReconnected, Leave, vars,
       PoolRelease, Pool!Shut, Pool!Grant, Pool!GiveBack
    <3>2. QED
      BY <1>2, <3>1, Zenon
  <2>4. slots' \in 0..Budget
    BY <1>0, <1>2, <2>1, <2>2
  <2>5. QED
    BY <2>3, <2>4
<1>3. Inv /\ Bounded => TypeOK
  BY DEF Inv, LocalOK, Hands, CallType, TypeOK
<1>4. QED
  BY <1>1, <1>2, <1>3, SpecInv, PTL DEF Spec

\* On no path of Exec, ExecWithRetry(Limited) and Reconnect is a permit of the
\* limiter or a client of the pool lost, or a client in two hands.
THEOREM NoLeak == Spec => []NothingLeaks
<1>1. Inv => NothingLeaks
  <2> SUFFICES ASSUME Inv PROVE NothingLeaks
    OBVIOUS
  <2>1. ASSUME NEW h \in Host, NEW c \in held[h]
        PROVE Cardinality({t \in Caller : call[t].host = h /\ call[t].client = c}) = 1
    <3>1. PICK u \in Caller : call[u].host = h /\ call[u].client = c
      BY DEF Inv, Hands
    <3>2. c # NoClient
      BY ExecAssumption DEF Inv, Hands
    <3>3. {t \in Caller : call[t].host = h /\ call[t].client = c} = {u}
      BY <3>1, <3>2 DEF Inv, Hands
    <3>4. QED
      BY <3>3, FS_Singleton
  <2>2. QED
    BY <2>1 DEF Inv, Permits, NothingLeaks
<1>2. QED
  BY <1>1, SpecInv, PTL
-----------------------------------------------------------------------------
(***************************************************************************)
(* The pauses under DefaultRetryableExecPolicy: three attempts, so two     *)
(* pauses, the first of them at most 240 ms and the second at most 480.    *)
(***************************************************************************)
DefaultPolicy == PolicyAttempts = 3 /\ BaseBackoff = 200 /\ MaxBackoff = 1200

Retried(r) == r.kind \in {"retry", "limited"}

Paced(r) ==
    /\ ~Retried(r) => r.slept = 0
    /\ Retried(r) =>
         /\ r.attempt <= 2 /\ r.slept <= 720
         /\ r.attempt = 0 => r.slept = 0
         /\ r.attempt = 1 => r.slept <= 240
         /\ r.pc = "sleep" => r.attempt < 2

AllPaced == \A t \in Caller : Paced(call[t])

\* jitteredBackoff of the two attempts a pause follows.
LEMMA DefaultPauses ==
    ASSUME DefaultPolicy, NEW j \in Jitter
    PROVE  jitteredBackoff(0, j) <= 240 /\ jitteredBackoff(1, j) <= 480
<1>1. j \in -20..20
  BY ExecAssumption
<1>2. BaseBackoff * 2 ^ 0 = 200 /\ BaseBackoff * 2 ^ 1 = 400
  BY DEF DefaultPolicy
<1>3. (200 * (100 + j)) \div 100 <= 240 /\ (400 * (100 + j)) \div 100 <= 480
  BY <1>1
<1>4. QED
  BY <1>2, <1>3 DEF jitteredBackoff, DefaultPolicy

\* A step of a call that neither pauses nor decides to keeps its pace.
LEMMA SamePace ==
    ASSUME NEW r, NEW s, Paced(r), s.kind = r.kind, s.attempt = r.attempt,
           s.slept = r.slept, s.pc = "sleep" => r.pc = "sleep"
    PROVE  Paced(s)
BY DEF Paced, Retried

LEMMA PacedNext == DefaultPolicy /\ Inv /\ AllPaced /\ [Next]_vars => AllPaced'
<1> SUFFICES ASSUME DefaultPolicy, Inv, AllPaced, [Next]_vars, NEW u \in Caller
             PROVE  Paced(call'[u])
  BY DEF AllPaced
<1> DEFINE Same(t) == /\ call'[t].kind = call[t].kind /\ call'[t].attempt = call[t].attempt
                      /\ call'[t].slept = call[t].slept
                      /\ call'[t].pc = "sleep" => call[t].pc = "sleep"
<1>1. /\ Paced(call[u]) /\ call \in [Caller -> CallType] /\ Local(call[u])
      /\ \A t \in Caller : call[t] \in CallType
  BY DEF AllPaced, Inv, LocalOK
<1>2. Same(u) => Paced(call'[u])
  BY <1>1, SamePace
<1>3. ASSUME NEW t \in Caller, NEW r, call' = [call EXCEPT ![t] = r], t = u => Paced(r)
      PROVE Paced(call'[u])
  <2>1. CASE t = u
    BY <1>1, <1>3, <2>1
  <2>2. CASE t # u
    BY <1>1, <1>3, <2>2
  <2>3. QED
    BY <2>1, <2>2
<1>4. Paced(Idle)
  BY DEF Paced, Retried, Idle
<1>5. ASSUME NEW t \in Caller, NEW err, Decide(t, err) PROVE Paced(call'[u])
  <2> DEFINE pc == IF Again(t, err) THEN "sleep" ELSE "leave"
             r == [call[t] EXCEPT !.pc = pc, !.client = NoClient, !.err = "nil"]
  <2>1. call' = [call EXCEPT ![t] = r]
    BY <1>5 DEF Decide
  <2>2. /\ r.pc = pc /\ r.kind = call[t].kind /\ r.attempt = call[t].attempt
        /\ r.slept = call[t].slept
    BY <1>1 DEF CallType
  <2>3. Retrying(t) /\ pc = "sleep" => call[t].attempt < 2
    <3>1. Retrying(t) /\ Again(t, err) => call[t].attempt < PolicyAttempts - 1
      BY DEF Again, Retrying
    <3>2. QED
      BY <3>1 DEF DefaultPolicy
  <2> HIDE DEF pc, r
  <2>4. t = u => Paced(r)
    BY <1>1, <2>2, <2>3 DEF Paced, Retried, Retrying
  <2>5. QED
    BY <1>3, <2>1, <2>4
<1>6. ASSUME NEW t \in Caller, Nap(t) PROVE Paced(call'[u])
  <2>1. PICK j \in Jitter :
          call' = [call EXCEPT ![t].attempt = @ + 1,
              ![t].slept = IF Retrying(t) THEN @ + jitteredBackoff(call[t].attempt, j) ELSE @,
              ![t].pc = IF Retrying(t) THEN "loop" ELSE "acquire"]
    BY <1>6 DEF Nap
  <2> DEFINE s == IF Retrying(t) THEN call[t].slept + jitteredBackoff(call[t].attempt, j)
                                 ELSE call[t].slept
             pc == IF Retrying(t) THEN "loop" ELSE "acquire"
             n == call[t].attempt + 1
             r == [call[t] EXCEPT !.attempt = n, !.slept = s, !.pc = pc]
  <2>2. call' = [call EXCEPT ![t] = r]
    BY <2>1, Zenon
  <2>3. r.pc = pc /\ r.kind = call[t].kind /\ r.attempt = n /\ r.slept = s
    BY <1>1 DEF CallType
  <2>4. call[t].pc = "sleep" /\ pc # "sleep" /\ call[t].attempt \in Nat /\ call[t].slept \in Nat
    BY <1>1, <1>6 DEF Nap, At, CallType
  <2> HIDE DEF r
  <2>5. ASSUME t = u PROVE Paced(r)
    <3>1. CASE Retrying(t)
      <4>1. call[t].attempt \in {0, 1}
        BY <1>1, <2>4, <2>5, <3>1 DEF Paced, Retried, Retrying
      <4>2. /\ jitteredBackoff(0, j) <= 240 /\ jitteredBackoff(1, j) <= 480
            /\ jitteredBackoff(0, j) \in Nat /\ jitteredBackoff(1, j) \in Nat
        BY DefaultPauses, BackoffType
      <4>3. /\ call[t].attempt = 0 => n = 1 /\ s <= 240
            /\ call[t].attempt = 1 => n = 2 /\ s <= 720
        BY <1>1, <2>4, <2>5, <3>1, <4>2 DEF Paced, Retried, Retrying
      <4>4. s \in Nat
        BY <2>4, <4>1, <4>2
      <4> HIDE DEF s, n, pc
      <4>5. QED
        BY <2>3, <2>4, <3>1, <4>1, <4>3, <4>4 DEF Paced, Retried, Retrying
    <3>2. CASE ~Retrying(t)
      BY <1>1, <2>3, <2>4, <2>5, <3>2 DEF Paced, Retried, Retrying
    <3>3. QED
      BY <3>1, <3>2
  <2>6. QED
    BY <1>3, <2>2, <2>5
<1>7. ASSUME NEW t \in Caller, NEW k \in Kinds, NEW h \in Host, NEW d \in BOOLEAN,
             Start(t, k, h, d)
      PROVE Paced(call'[u])
  <2> DEFINE r == [Idle EXCEPT !.kind = k, !.host = h, !.deadline = d,
                               !.pc = CASE k = "limited" -> "limiter"
                                        [] k = "retry" -> "loop"
                                        [] OTHER -> "acquire"]
  <2>1. call' = [call EXCEPT ![t] = r]
    BY <1>7 DEF Start
  <2>2. r.slept = 0 /\ r.attempt = 0 /\ r.pc # "sleep"
    BY DEF Idle, Kinds
  <2> HIDE DEF r
  <2>3. Paced(r)
    BY <2>2 DEF Paced
  <2>4. QED
    BY <1>3, <2>1, <2>3
<1>8. ASSUME NEW t \in Caller, call' = [call EXCEPT ![t] = Idle] PROVE Paced(call'[u])
  BY <1>3, <1>4, <1>8
<1>9. ASSUME NEW t \in Caller, CtxDone(t) \/ Attempt(t) \/ Dial(t) \/ SelectDone(t) \/ NapCancel(t)
      PROVE Same(u)
  BY <1>1, <1>9 DEF CtxDone, Attempt, Dial, SelectDone, NapCancel, Goto, CallType
<1>10. ASSUME NEW t \in Caller, NewSession(t) \/ NewSessionFail(t) \/ SelectResult(t) \/ Drain(t)
       PROVE Same(u)
  BY <1>1, <1>10 DEF NewSession, NewSessionFail, SelectResult, Drain, Fail, CallType
<1>11. ASSUME NEW t \in Caller, RunStart(t) \/ RunEnd(t) PROVE Same(u)
  BY <1>1, <1>11 DEF RunStart, RunEnd, CallType
<1>12. ASSUME NEW t \in Caller, ReleaseReconnected(t) \/ AcquireOk(t) \/ LimiterGrant(t)
       PROVE Same(u)
  <2>1. CASE ReleaseReconnected(t) \/ LimiterGrant(t)
    BY <1>1, <2>1 DEF ReleaseReconnected, LimiterGrant, Goto, CallType
  <2>2. CASE AcquireOk(t)
    <3>1. PICK c \in Client :
            call' = [call EXCEPT ![t].client = c,
                 ![t].pc = IF call[t].kind = "reconnect" THEN "using" ELSE "session"]
      BY <2>2 DEF AcquireOk
    <3>2. QED
      BY <1>1, <3>1 DEF CallType
  <2>3. QED
    BY <1>12, <2>1, <2>2
<1>13. ASSUME NEW t \in Caller, LimiterEnter(t) \/ LimiterCancel(t) \/ Leave(t)
       PROVE Paced(call'[u])
  <2>1. ASSUME Goto(t, "queue") PROVE Same(u)
    BY <1>1, <2>1 DEF Goto, CallType
  <2>2. QED
    BY <1>2, <1>8, <1>13, <2>1 DEF LimiterEnter, LimiterCancel, Leave
<1>14. ASSUME NEW t \in Caller, AcquireEnter(t) PROVE Paced(call'[u])
  <2>1. ASSUME Goto(t, "wait") PROVE Same(u)
    BY <1>1, <2>1 DEF Goto, CallType
  <2>2. QED
    BY <1>2, <1>5, <1>14, <2>1 DEF AcquireEnter
<1>15. ASSUME NEW t \in Caller, AcquireBusy(t) \/ AcquireFail(t) \/ Release(t)
       PROVE Paced(call'[u])
  BY <1>5, <1>15 DEF AcquireBusy, AcquireFail, Release
<1>16. CASE PoolClose \/ UNCHANGED vars
  BY <1>2, <1>16 DEF PoolClose, vars
<1> HIDE DEF Same
<1>17. QED
  BY <1>2, <1>6, <1>7, <1>9, <1>10, <1>11, <1>12, <1>13, <1>14, <1>15, <1>16
     DEF Next, Server, Step, AcquireStep

\* A command is started at most once whatever its call meets; and with the
\* default policy a call pauses at most 720 ms in all.
THEOREM RetriesStayContained ==
    ASSUME DefaultPolicy PROVE Spec => []RetriesContained
<1>1. Init => AllPaced
  BY DEF Init, AllPaced, Paced, Retried, Idle
<1>2. Inv /\ AllPaced => RetriesContained
  BY DEF Inv, LocalOK, Local, AllPaced, Paced, RetriesContained, AtMostOneRun, BackoffBudget
<1>3. Inv /\ AllPaced /\ [Next]_vars => AllPaced'
  BY PacedNext
<1>4. QED
  BY <1>1, <1>2, <1>3, SpecInv, PTL DEF Spec

\* The command is not retried, under any policy: Exec's errors are not busy.
THEOREM RunsOnce == Spec => []AtMostOneRun
<1>1. Inv => AtMostOneRun
  BY DEF Inv, LocalOK, Local, AtMostOneRun
<1>2. QED
  BY <1>1, SpecInv, PTL
==============================================================================
