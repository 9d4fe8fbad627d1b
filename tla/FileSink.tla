------------------------------ MODULE FileSink ------------------------------
(***************************************************************************)
(* Package internal/telemetry: the trace file of --debug-trace.  Producers *)
(* put events into a bounded queue without waiting, one goroutine drains   *)
(* the queue through a buffered writer, a ticker flushes the buffer, and   *)
(* Close stops them all.                                                   *)
(*                                                                         *)
(* An event is the pair of its producer and its number there; the text of  *)
(* a line and its redaction are left out.                                  *)
(***************************************************************************)
EXTENDS Integers, Sequences, FiniteSets, SequencesExt

CONSTANTS
    Producers,  \* goroutines that call Record
    Closers,    \* goroutines that call Close
    MaxEvents,  \* bound: Record calls of a producer
    Queue,      \* FileSinkPolicy.Queue
    FlushIntervals, \* values of FileSinkPolicy.FlushInterval
    Buffer,     \* lines that fit into the writer's buffer
    MaxFaults   \* bound: cancelled contexts, bad events and failing writes

defaultFlushInterval == 500   \* milliseconds

ASSUME SinkAssumption ==
    /\ {MaxEvents, MaxFaults} \subseteq Nat /\ {Queue, Buffer} \subseteq Nat \ {0}
    /\ FlushIntervals \subseteq Int

VARIABLES
    sink,      \* "unopened", "disabled", "open"; "panicked" when the process died
    queue,     \* the channel
    signal,    \* the channel "closed" is closed
    sealed,    \* the queue is closed
    buf,       \* what the writer holds
    broken,    \* the writer's error, which stays
    file,      \* lines in the trace file
    dropped,   \* the counter
    prod,      \* per producer: where it is in Record, and its calls
    policy,    \* the FlushInterval of the ticker
    cancelled, \* the producers' context is done
    drain,     \* where the drain goroutine is
    closer,    \* per closer: where it is in Close
    faults,    \* faults so far
    offered    \* calls that found an open sink and a live context

vars == <<sink, queue, signal, sealed, buf, broken, file, dropped, prod, cancelled, policy,
          drain, closer, faults, offered>>
channels == <<queue, signal, sealed>>
writerVars == <<buf, broken, file>>
-----------------------------------------------------------------------------
Init ==
    /\ sink = "unopened" /\ queue = <<>> /\ signal = FALSE /\ sealed = FALSE
    /\ buf = <<>> /\ broken = FALSE /\ file = <<>> /\ dropped = 0
    /\ prod = [p \in Producers |-> [pc |-> "idle", calls |-> 0]]
    /\ cancelled = FALSE /\ drain = "none"
    /\ policy = defaultFlushInterval
    /\ closer = [c \in Closers |-> "idle"]
    /\ faults = 0 /\ offered = 0

Fault == faults < MaxFaults /\ faults' = faults + 1
Alive == sink \notin {"unopened", "panicked"}


normalizeFileSinkPolicy(interval) == IF interval <= 0 THEN defaultFlushInterval ELSE interval

\* A path that is empty, cannot be resolved, made or opened gives the sink
\* that does nothing; otherwise the drain goroutine starts.
OpenFileSink(ok, interval) ==
    /\ sink = "unopened"
    /\ policy' = normalizeFileSinkPolicy(interval)
    /\ sink' = (IF ok THEN "open" ELSE "disabled")
    /\ drain' = (IF ok THEN "select" ELSE "none")
    /\ UNCHANGED <<channels, writerVars, dropped, prod, cancelled, closer, faults, offered>>

\* The session's context ends.
Cancel ==
    /\ Alive /\ ~cancelled /\ Fault /\ cancelled' = TRUE
    /\ UNCHANGED <<sink, channels, writerVars, dropped, prod, policy, drain, closer, offered>>
-----------------------------------------------------------------------------
(* Record: two selects with nothing held between them.                     *)

Event(p) == <<p, prod[p].calls>>

emit(p) ==
    /\ Alive /\ prod[p].pc = "idle" /\ prod[p].calls < MaxEvents
    /\ prod' = [prod EXCEPT ![p] = [calls |-> @.calls + 1,
                                    pc |-> IF sink = "open" /\ ~signal THEN "checked" ELSE "idle"]]
    /\ UNCHANGED <<sink, channels, writerVars, dropped, cancelled, policy, drain, closer, faults, offered>>

Recorded(p) ==
    /\ Alive /\ prod[p].pc = "checked"
    /\ prod' = [prod EXCEPT ![p].pc = "idle"]
    /\ UNCHANGED <<signal, sealed, writerVars, cancelled, policy, drain, closer, faults>>

Enqueue(p) ==
    /\ Recorded(p) /\ ~sealed /\ Len(queue) < Queue
    /\ queue' = Append(queue, Event(p))
    /\ offered' = offered + 1 /\ UNCHANGED <<sink, dropped>>

Overflow(p) ==
    /\ Recorded(p) /\ ~sealed /\ ~cancelled /\ Len(queue) = Queue
    /\ dropped' = dropped + 1
    /\ offered' = offered + 1 /\ UNCHANGED <<sink, queue>>

\* A done context is as good a choice for the select as a queue with room.
GiveUp(p) == Recorded(p) /\ cancelled /\ UNCHANGED <<sink, queue, dropped, offered>>

\* A send on a closed channel.
SendPanics(p) ==
    /\ Recorded(p) /\ sealed /\ sink' = "panicked"
    /\ UNCHANGED <<queue, dropped, offered>>

Record(p) == Enqueue(p) \/ Overflow(p) \/ GiveUp(p) \/ SendPanics(p)
-----------------------------------------------------------------------------
(* The writer and the drain goroutine.                                     *)

Written == file' = file \o buf /\ buf' = <<>> /\ UNCHANGED <<broken, faults>>

\* The system call writes a part, and every later write fails at once.
WriteFails ==
    /\ Fault /\ broken' = TRUE
    /\ \E n \in 0..(Len(buf) - 1) : file' = file \o SubSeq(buf, 1, n) /\ buf' = SubSeq(buf, n + 1, Len(buf))

Flush ==
    IF broken \/ buf = <<>> THEN UNCHANGED <<writerVars, faults>> ELSE Written \/ WriteFails

bumpDropped == dropped' = dropped + 1

\* An event that cannot be encoded is dropped; a line that does not fit sends
\* the buffer out first.
writeEvent(e) ==
    \/ Fault /\ bumpDropped /\ UNCHANGED writerVars
    \/ broken /\ bumpDropped /\ UNCHANGED <<writerVars, faults>>
    \/ ~broken /\ Len(buf) < Buffer /\ buf' = Append(buf, e) /\ UNCHANGED <<broken, file, faults, dropped>>
    \/ ~broken /\ Len(buf) = Buffer /\ file' = file \o buf /\ buf' = <<e>>
       /\ UNCHANGED <<broken, faults, dropped>>
    \/ ~broken /\ Len(buf) = Buffer /\ WriteFails /\ bumpDropped

Receive ==
    /\ Alive /\ drain \in {"select", "remainder"} /\ queue # <<>>
    /\ queue' = Tail(queue) /\ writeEvent(Head(queue))
    /\ UNCHANGED <<sink, signal, sealed, prod, cancelled, policy, drain, closer, offered>>

\* Only a positive interval makes a ticker.
Tick ==
    /\ Alive /\ drain = "select" /\ policy > 0 /\ Flush
    /\ UNCHANGED <<sink, channels, dropped, prod, cancelled, policy, drain, closer, offered>>

\* A closed queue reads as closed only once it is empty.
drainLoop ==
    /\ Alive /\ drain = "select" /\ sealed /\ queue = <<>>
    /\ drain' = "remainder"
    /\ UNCHANGED <<sink, channels, writerVars, dropped, prod, cancelled, policy, closer, faults, offered>>

flushQueueRemainder ==
    /\ Alive /\ drain = "remainder" /\ queue = <<>> /\ Flush
    /\ drain' = "done"
    /\ UNCHANGED <<sink, channels, dropped, prod, cancelled, policy, closer, offered>>
-----------------------------------------------------------------------------
(* Close: the first caller does the work, another one waits for it.        *)

Move(c, from, to) ==
    /\ Alive /\ closer[c] = from /\ closer' = [closer EXCEPT ![c] = to]
    /\ UNCHANGED <<sink, queue, dropped, prod, cancelled, policy, drain, offered>>

Untaken == \A c \in Closers : closer[c] \in {"idle", "once"}

Close(c) ==
    /\ sink = "open" /\ Move(c, "idle", IF Untaken THEN "signal" ELSE "once")
    /\ UNCHANGED <<signal, sealed, writerVars, faults>>

\* Cleanup of the disabled sink.
CloseDisabled(c) ==
    /\ sink = "disabled" /\ Move(c, "idle", "returned")
    /\ UNCHANGED <<signal, sealed, writerVars, faults>>

SignalClosed(c) ==
    /\ Move(c, "signal", "seal") /\ signal' = TRUE
    /\ UNCHANGED <<sealed, writerVars, faults>>

\* Mutant: the queue stays open.
SealQueue_Forgotten(c) ==
    /\ Move(c, "seal", "wait")
    /\ UNCHANGED <<signal, sealed, writerVars, faults>>

SealQueue(c) ==
    /\ Move(c, "seal", "wait") /\ sealed' = TRUE
    /\ UNCHANGED <<signal, writerVars, faults>>

\* Mutant: Close does not wait for the drain goroutine.
WaitDrained_Skipped(c) ==
    /\ Move(c, "wait", "flush")
    /\ UNCHANGED <<signal, sealed, writerVars, faults>>

WaitDrained(c) ==
    /\ drain = "done" /\ Move(c, "wait", "flush")
    /\ UNCHANGED <<signal, sealed, writerVars, faults>>

CloseFile(c) == Move(c, "flush", "returned") /\ Flush /\ UNCHANGED <<signal, sealed>>

CloseAgain(c) ==
    /\ \E d \in Closers : closer[d] = "returned"
    /\ Move(c, "once", "returned")
    /\ UNCHANGED <<signal, sealed, writerVars, faults>>

Closing(c) == SignalClosed(c) \/ SealQueue(c) \/ WaitDrained(c) \/ CloseFile(c) \/ CloseAgain(c)
-----------------------------------------------------------------------------
Next ==
    \/ \E ok \in BOOLEAN, interval \in FlushIntervals : OpenFileSink(ok, interval)
    \/ Cancel
    \/ \E p \in Producers : emit(p) \/ Record(p)
    \/ Receive \/ Tick \/ drainLoop \/ flushQueueRemainder
    \/ \E c \in Closers : Close(c) \/ CloseDisabled(c) \/ Closing(c)

\* The goroutines run.  Nobody has to open the sink, record or close.  A
\* select takes a ready ticker at random, so it does not pass it over for
\* ever.
Fairness ==
    /\ WF_vars(Receive) /\ WF_vars(Tick) /\ WF_vars(drainLoop) /\ WF_vars(flushQueueRemainder)
    /\ \A p \in Producers : WF_vars(Record(p))
    /\ \A c \in Closers : WF_vars(Closing(c))

Spec == Init /\ [][Next]_vars /\ Fairness
-----------------------------------------------------------------------------
\* Close returns only when every event taken before it is settled: unless a
\* write failed, each is a line of the file or is in the dropped counter, the
\* ones refused by a full queue too.
CloseSettles ==
    sink = "open" /\ (\E c \in Closers : closer[c] = "returned") =>
        queue = <<>> /\ (~broken => Len(file) + dropped = offered)

\* Close returns to each of its callers: the drain goroutine it waits for sees
\* the sealed queue and ends.  A producer that sends after the seal ends the
\* process; the formula excepts that and says nothing about it.
CloseReturns ==
    \A c \in Closers : closer[c] # "idle" ~> closer[c] = "returned" \/ sink = "panicked"

=============================================================================
