------------------------------ MODULE SSHExec ------------------------------
(***************************************************************************)
(* The callers of the SSH pool: Exec, ExecWithRetry(Limited) with the      *)
(* process-wide InflightLimiter, and Reconnect.                            *)
(*                                                                         *)
(* The pool is known by its contract (PoolContract, which SSHPool          *)
(* implements): Acquire may take a client, fail as busy, closed or with a  *)
(* dial error, or be inside the SSH handshake of its own dial.  A step is  *)
(* one thing a goroutine does between two points where it can block or be  *)
(* overtaken by the end of its context.  The counters of ExecMetrics,      *)
(* which nothing reads back, are left out.                                 *)
(***************************************************************************)
EXTENDS Integers, FiniteSets

CONSTANTS
    Host, Caller, Client, NoHost, NoClient,
    MaxPerHost,
    Profiles, FloorBudget,       \* the sizes behind the limiter's budget
    Attempts,                    \* RetryableExecPolicy.Attempts, as given
    BaseBackoff, MaxBackoff,     \* in milliseconds
    Jitter,                      \* the jitters Rand yields, in percent
    Backoffs                     \* len(RetryPolicy.Backoff) of Reconnect

ASSUME ExecAssumption ==
    /\ IsFiniteSet(Caller) /\ IsFiniteSet(Client)
    /\ NoHost \notin Host /\ NoClient \notin Client
    /\ MaxPerHost \in Nat \ {0} /\ FloorBudget \in Nat \ {0}
    /\ Profiles \in Int /\ Attempts \in Int /\ Backoffs \in Nat \ {0}
    /\ MaxBackoff \in Nat \ {0} /\ Jitter \subseteq -20..20

VARIABLES
    held, open,   \* the pool, as its contract shows it
    slots,        \* permits of the limiter in use
    call          \* what each caller goroutine is doing

vars == <<held, open, slots, call>>

Pool == INSTANCE PoolContract

\* normalizeRetryableExecPolicy
DefaultAttempts == 3
PolicyAttempts == IF Attempts <= 0 THEN DefaultAttempts ELSE Attempts

\* NewInflightLimiter
Budget ==
    LET half == (IF Profiles < 0 THEN 0 ELSE Profiles) \div 2
    IN  IF half < FloorBudget THEN FloorBudget ELSE half

\* jitteredBackoff: the cap is applied before the jitter j, and to a product
\* that overflowed too.
jitteredBackoff(attempt, j) ==
    LET exp == BaseBackoff * 2 ^ attempt
        capped == IF exp \in 1..MaxBackoff THEN exp ELSE MaxBackoff
    IN  (capped * (100 + j)) \div 100

Idle == [pc |-> "idle", kind |-> "none", host |-> NoHost, client |-> NoClient,
         ctx |-> "live", deadline |-> FALSE, attempt |-> 0, err |-> "nil",
         remote |-> "none", runs |-> 0, slept |-> 0]

Init == Pool!Init /\ slots = 0 /\ call = [t \in Caller |-> Idle]
-----------------------------------------------------------------------------
At(t, pc) == call[t].pc = pc
Goto(t, pc) == call' = [call EXCEPT ![t].pc = pc]
Fail(t, pc, err) == call' = [call EXCEPT ![t].pc = pc, ![t].err = err]
Done(t) == call[t].ctx = "done"
Retrying(t) == call[t].kind \in {"retry", "limited"}

\* A caller's context ends: cancelled, or its deadline passed.
CtxDone(t) ==
    /\ ~At(t, "idle") /\ ~Done(t)
    /\ call' = [call EXCEPT ![t].ctx = "done"]
    /\ UNCHANGED <<held, open, slots>>

PoolClose == Pool!Shut /\ UNCHANGED <<slots, call>>

\* A call is made; its context has or has not a deadline.
Start(t, kind, h, deadline) ==
    /\ At(t, "idle")
    /\ call' = [call EXCEPT ![t] =
           [Idle EXCEPT !.kind = kind, !.host = h, !.deadline = deadline,
                        !.pc = CASE kind = "limited" -> "limiter"
                                 [] kind = "retry" -> "loop"
                                 [] OTHER -> "acquire"]]
    /\ UNCHANGED <<held, open, slots>>

\* InflightLimiter.Acquire: the context is looked at first, then a permit
\* is waited for; a context that ends at the same time may or may not win.
LimiterEnter(t) ==
    /\ At(t, "limiter")
    /\ IF Done(t) THEN call' = [call EXCEPT ![t] = Idle] ELSE Goto(t, "queue")
    /\ UNCHANGED <<held, open, slots>>

LimiterGrant(t) ==
    /\ At(t, "queue") /\ slots < Budget
    /\ slots' = slots + 1
    /\ Goto(t, "loop")
    /\ UNCHANGED <<held, open>>

LimiterCancel(t) ==
    /\ At(t, "queue") /\ Done(t)
    /\ call' = [call EXCEPT ![t] = Idle]
    /\ UNCHANGED <<held, open, slots>>

\* ExecWithRetryLimited: the head of the attempt loop.
Attempt(t) ==
    /\ At(t, "loop")
    /\ Goto(t, IF Done(t) THEN "leave" ELSE "acquire")
    /\ UNCHANGED <<held, open, slots>>
-----------------------------------------------------------------------------
\* Mutant: any error is taken for a busy pool.
Again_AnyError(t, err) ==
    err # "nil" /\ call[t].attempt < PolicyAttempts - 1

\* What a call does once Exec (Acquire, for Reconnect) has returned err: Exec
\* itself returns, ExecWithRetryLimited goes round again on ErrPoolBusy
\* only, Reconnect on any error.
Again(t, err) ==
    CASE Retrying(t) -> err = "busy" /\ call[t].attempt < PolicyAttempts - 1
      [] call[t].kind = "reconnect" -> call[t].attempt < Backoffs - 1
      [] OTHER -> FALSE

Decide(t, err) ==
    call' = [call EXCEPT ![t].pc = IF Again(t, err) THEN "sleep" ELSE "leave",
                         ![t].client = NoClient, ![t].err = "nil"]

\* Pool.Acquire, seen from outside.
AcquireEnter(t) ==
    /\ At(t, "acquire")
    /\ IF Done(t) THEN Decide(t, "ctx") ELSE Goto(t, "wait")
    /\ UNCHANGED <<held, open, slots>>

\* The pool has a slot of t's host for t: every handshake under way has one.
Free(t) ==
    LET h == call[t].host
        others == {u \in Caller \ {t} : At(u, "handshake") /\ call[u].host = h}
    IN  Cardinality(held[h]) + Cardinality(others) < MaxPerHost

\* Nothing idle, a slot reserved, the TCP connection up: the server now says
\* how the handshake ends, or stays silent.
Dial(t) ==
    /\ At(t, "wait") /\ open /\ Free(t)
    /\ Goto(t, "handshake")
    /\ UNCHANGED <<held, open, slots>>

InAcquire(t) == At(t, "wait") \/ At(t, "handshake")

AcquireOk(t) ==
    /\ InAcquire(t) /\ Free(t)
    /\ \E c \in Client :
          /\ Pool!Grant(call[t].host, c)
          /\ call' = [call EXCEPT ![t].client = c,
                 ![t].pc = IF call[t].kind = "reconnect" THEN "using" ELSE "session"]
    /\ UNCHANGED slots

\* ErrPoolBusy: the caller's context ended, or, when that has no deadline,
\* AcquireTimeout elapsed, before a client came free.
AcquireBusy(t) ==
    /\ At(t, "wait")
    /\ Done(t) \/ ~call[t].deadline
    /\ Decide(t, "busy")
    /\ UNCHANGED <<held, open, slots>>

\* The dial, the handshake or the host key check failed, or the pool closed.
AcquireFail(t) ==
    /\ InAcquire(t)
    /\ Decide(t, "terminal")
    /\ UNCHANGED <<held, open, slots>>
-----------------------------------------------------------------------------
\* Exec after Acquire: a session, which the server must grant, and a goroutine
\* in session.Run.
NewSession(t) ==
    /\ At(t, "session")
    /\ call' = [call EXCEPT ![t].pc = "select", ![t].remote = "sent"]
    /\ UNCHANGED <<held, open, slots>>

\* Mutant: no deferred Release on the path where NewSession fails.
NewSessionFail_Forgets(t) ==
    /\ At(t, "session")
    /\ Decide(t, "terminal")
    /\ UNCHANGED <<held, open, slots>>

NewSessionFail(t) ==
    /\ At(t, "session")
    /\ Fail(t, "release", "terminal")
    /\ UNCHANGED <<held, open, slots>>

\* session.Run: the server starts the command, and the goroutine returns
\* with its exit status, or with the error of the session or connection.
RunStart(t) ==
    /\ call[t].remote = "sent"
    /\ call' = [call EXCEPT ![t].remote = "started", ![t].runs = @ + 1]
    /\ UNCHANGED <<held, open, slots>>

RunEnd(t) ==
    /\ \/ call[t].remote = "started"
          /\ \E r \in {"nil", "exit", "lost"} : call' = [call EXCEPT ![t].remote = r]
       \/ call[t].remote = "sent" /\ call' = [call EXCEPT ![t].remote = "lost"]
    /\ UNCHANGED <<held, open, slots>>

Answered(t) == call[t].remote \in {"nil", "exit", "lost"}

SelectResult(t) ==
    /\ At(t, "select") /\ Answered(t)
    /\ call' = [call EXCEPT ![t].pc = "release", ![t].remote = "none",
           ![t].err = IF call[t].remote = "nil" THEN "nil" ELSE "terminal"]
    /\ UNCHANGED <<held, open, slots>>

\* The context ends first: the session is closed and Run waited for.
SelectDone(t) ==
    /\ At(t, "select") /\ Done(t)
    /\ Goto(t, "drain")
    /\ UNCHANGED <<held, open, slots>>

Drain(t) ==
    /\ At(t, "drain") /\ Answered(t)
    /\ call' = [call EXCEPT ![t].pc = "release", ![t].remote = "none", ![t].err = "ctx"]
    /\ UNCHANGED <<held, open, slots>>

\* Pool.Release, deferred; a client the pool no longer counts is left alone.
PoolRelease(t) ==
    LET h == call[t].host  c == call[t].client
    IN  IF c \in held[h] THEN Pool!GiveBack(h, c) ELSE UNCHANGED <<held, open>>

Release(t) ==
    /\ At(t, "release")
    /\ PoolRelease(t)
    /\ Decide(t, call[t].err)
    /\ UNCHANGED slots
-----------------------------------------------------------------------------
Nap(t) ==
    /\ At(t, "sleep")
    /\ \E j \in Jitter :
          call' = [call EXCEPT ![t].attempt = @ + 1,
              ![t].slept = IF Retrying(t) THEN @ + jitteredBackoff(call[t].attempt, j) ELSE @,
              ![t].pc = IF Retrying(t) THEN "loop" ELSE "acquire"]
    /\ UNCHANGED <<held, open, slots>>

NapCancel(t) ==
    /\ At(t, "sleep") /\ Done(t)
    /\ Goto(t, "leave")
    /\ UNCHANGED <<held, open, slots>>

\* The caller of Reconnect gives its client back when it is done with it.
ReleaseReconnected(t) ==
    /\ At(t, "using")
    /\ PoolRelease(t)
    /\ call' = [call EXCEPT ![t].pc = "leave", ![t].client = NoClient]
    /\ UNCHANGED slots

\* Mutant: the permit is given back only when the command ran.
Leave_KeepsPermit(t) ==
    /\ At(t, "leave")
    /\ slots' = IF call[t].kind = "limited" /\ call[t].runs > 0 THEN slots - 1 ELSE slots
    /\ call' = [call EXCEPT ![t] = Idle]
    /\ UNCHANGED <<held, open>>

\* The deferred limiter.Release, and the return to the caller.
Leave(t) ==
    /\ At(t, "leave")
    /\ slots' = IF call[t].kind = "limited" THEN slots - 1 ELSE slots
    /\ call' = [call EXCEPT ![t] = Idle]
    /\ UNCHANGED <<held, open>>
-----------------------------------------------------------------------------
AcquireStep(t) ==
    AcquireEnter(t) \/ Dial(t) \/ (At(t, "wait") /\ (AcquireOk(t) \/ AcquireFail(t)))
        \/ AcquireBusy(t)

\* What the goroutine of the call does by itself.
Step(t) ==
    \/ LimiterEnter(t) \/ LimiterGrant(t) \/ LimiterCancel(t) \/ Attempt(t)
    \/ AcquireStep(t) \/ SelectResult(t) \/ SelectDone(t) \/ Drain(t)
    \/ Release(t) \/ Nap(t) \/ NapCancel(t) \/ Leave(t)

\* What it waits for: the server's answers.
Server(t) ==
    \/ At(t, "handshake") /\ (AcquireOk(t) \/ AcquireFail(t))
    \/ NewSession(t) \/ NewSessionFail(t) \/ RunStart(t) \/ RunEnd(t)

Kinds == {"exec", "retry", "limited", "reconnect"}

Next ==
    \/ PoolClose
    \/ \E t \in Caller :
          \/ CtxDone(t) \/ Server(t) \/ Step(t) \/ ReleaseReconnected(t)
          \/ \E k \in Kinds, h \in Host, d \in BOOLEAN : Start(t, k, h, d)

Spec == Init /\ [][Next]_vars

\* Goroutines run; Pool.Acquire returns or is in its handshake
\* (SSHPool!AcquireReturns); the limiter's semaphore serves its queue in order,
\* so a permit that keeps coming free reaches every waiter.  The server may
\* stay silent for ever: neither the context nor the keepalive, whose loop
\* only returns, ends a handshake, NewSession or Run.  Pool.Close does: it
\* closes every client that was handed out.
FairSpec ==
    /\ Spec
    /\ \A t \in Caller :
          /\ WF_vars(Step(t)) /\ SF_vars(LimiterGrant(t))
          /\ WF_vars(~open /\ (NewSessionFail(t) \/ RunEnd(t)))
-----------------------------------------------------------------------------
Pcs == {"idle", "limiter", "queue", "loop", "acquire", "wait", "handshake",
        "session", "select", "drain", "release", "sleep", "using", "leave"}

TypeOK ==
    /\ held \in [Host -> SUBSET Client] /\ open \in BOOLEAN
    /\ slots \in 0..Budget
    /\ call \in [Caller -> [pc : Pcs, kind : Kinds \cup {"none"},
           host : Host \cup {NoHost}, client : Client \cup {NoClient},
           ctx : {"live", "done"}, deadline : BOOLEAN, attempt : Nat,
           err : {"nil", "ctx", "terminal"},
           remote : {"none", "sent", "started", "nil", "exit", "lost"},
           runs : Nat, slept : Nat]]

\* Whatever a call meets (a busy pool, a lost connection, the end of its
\* context, the pool's Close), its command is started at most once on the
\* server: "It does not retry the command" (ssh/exec.go), also under
\* ExecWithRetry, which only goes round when no session was opened.
AtMostOneRun == \A t \in Caller : call[t].runs <= 1

Inside(t) == call[t].kind = "limited" /\ ~(call[t].pc \in {"limiter", "queue"})

\* Nothing taken is lost on any error path: the limiter's permits in use are
\* exactly those of the limited calls under way, and every client the pool
\* counts as handed out is in the hands of one call.
NothingLeaks ==
    /\ slots = Cardinality({t \in Caller : Inside(t)})
    /\ \A h \in Host : \A c \in held[h] :
          Cardinality({t \in Caller : call[t].host = h /\ call[t].client = c}) = 1

\* Under the default policy the pauses of one call add up to at most 720 ms,
\* as the comment on DefaultRetryableExecPolicy counts (ssh/retry.go).
BackoffBudget == \A t \in Caller : call[t].slept <= 720

\* What retrying may do: wait within its budget, and never repeat a command.
RetriesContained == AtMostOneRun /\ BackoffBudget

\* Reconnect has returned while its caller uses the client.
Returned(t) == call[t].pc \in {"idle", "using"}

\* The call waits for a server that has not answered: for the end of its
\* handshake or, on a connection the pool has not closed, for its session or
\* the end of its command.
OnServer(t) ==
    \/ At(t, "handshake")
    \/ open /\ (At(t, "session") \/ (call[t].pc \in {"select", "drain"} /\ ~Answered(t)))

\* Every call returns, although a limited call waits for the pool while it
\* keeps a permit others wait for: only a server that is silent for ever keeps
\* a call, also one whose context has ended (docs/DESIGN.md:177 says that every
\* method heeds it), and through its permit the limited calls behind it whose
\* context never ends.
CallReturns ==
    \A t \in Caller :
        \/ ~Returned(t) ~> Returned(t)
        \/ <>[]OnServer(t)
        \/ <>[](At(t, "queue") /\ ~Done(t))
              /\ \E u \in Caller : <>[](Inside(u) /\ OnServer(u))
=============================================================================
