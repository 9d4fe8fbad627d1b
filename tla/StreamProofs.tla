---------------------------- MODULE StreamProofs ----------------------------
(***************************************************************************)
(* Proofs about the two services that move a stream through a bounded      *)
(* channel.  FileSink, for every number of producers and closers and every *)
(* queue and buffer size: what Close promises about the events that were   *)
(* offered before it.  TailStream, for every log length, channel size and  *)
(* backoff schedule: what the consumer sees has no gap and no repetition,  *)
(* and a closed channel leaves nothing running on the host.                *)
(***************************************************************************)
EXTENDS FileSink, TailStream, SequenceTheorems, TLAPS
-----------------------------------------------------------------------------
(* The telemetry sink.                                                     *)

(***************************************************************************)
(* The types that counting and the step from one goroutine to the next     *)
(* rest on.                                                                *)
(***************************************************************************)
Events == Producers \X Nat
CloserPcs == {"idle", "once", "signal", "seal", "wait", "flush", "returned"}

SinkTyped ==
    /\ queue \in Seq(Events) /\ buf \in Seq(Events) /\ file \in Seq(Events)
    /\ dropped \in Nat /\ offered \in Nat
    /\ prod \in [Producers -> [pc : {"idle", "checked"}, calls : Nat]]
    /\ closer \in [Closers -> CloserPcs]

\* Every event that was offered is in exactly one place: waiting in the queue
\* or in the writer's buffer, a line of the file, or in the dropped counter.
\* A failing write moves events between them and loses none.
Accounted == Len(queue) + Len(buf) + Len(file) + dropped = offered

\* How far Close and the drain goroutine have come, and what that rules lines:
\* the drain goroutine passes its select only when the queue is sealed and
\* empty, and Close passes its wait only after the drain goroutine.
Progressed ==
    /\ drain \in {"none", "select", "remainder", "done"}
    /\ drain \in {"remainder", "done"} => sealed
    /\ drain = "done" => queue = <<>>
    /\ sink = "unopened" => \A c \in Closers : closer[c] = "idle"
    /\ sink = "open" => \A c \in Closers :
          /\ closer[c] \in {"flush", "returned"} => drain = "done"
          /\ closer[c] = "returned" => broken \/ buf = <<>>

SinkInv == SinkTyped /\ Accounted /\ Progressed

\* OpenFileSink has not run: nothing is offered and nobody closes.
LEMMA SinkInvInit == Init => SinkInv
BY DEF Init, SinkInv, SinkTyped, Accounted, Progressed, Events, CloserPcs

\* A concatenation is as long as its parts.
LEMMA Concatenated ==
    ASSUME NEW S, NEW s \in Seq(S), NEW t \in Seq(S)
    PROVE  s \o t \in Seq(S) /\ Len(s \o t) = Len(s) + Len(t)
OBVIOUS

\* What a flush does to the lines: they stay, in the buffer or in the file,
\* and unless the writer is broken the buffer is empty afterwards.
LEMMA FlushKeepsLines ==
    ASSUME SinkTyped, Flush
    PROVE  /\ buf' \in Seq(Events) /\ file' \in Seq(Events)
           /\ Len(buf') + Len(file') = Len(buf) + Len(file)
           /\ broken' \/ buf' = <<>>
           /\ broken => broken'
           /\ broken \/ buf = <<>> => UNCHANGED <<buf, file, broken>>
<1> USE DEF SinkTyped
<1>1. CASE broken \/ buf = <<>>
  BY <1>1, Zenon DEF Flush, writerVars
<1>2. CASE ~broken /\ buf # <<>> /\ Written
  BY <1>2 DEF Written
<1>3. CASE ~broken /\ buf # <<>> /\ WriteFails
  <2>1. PICK n \in 0..(Len(buf) - 1) :
          file' = file \o SubSeq(buf, 1, n) /\ buf' = SubSeq(buf, n + 1, Len(buf))
    BY <1>3, Zenon DEF WriteFails
  <2>2. /\ SubSeq(buf, 1, n) \in Seq(Events) /\ Len(SubSeq(buf, 1, n)) = n
        /\ buf' \in Seq(Events) /\ Len(buf') = Len(buf) - n
    BY <2>1
  <2>3. broken'
    BY <1>3 DEF WriteFails
  <2>4. file' \in Seq(Events) /\ Len(buf') + Len(file') = Len(buf) + Len(file)
    <3> DEFINE lines == SubSeq(buf, 1, n)
    <3>1. lines \in Seq(Events) /\ Len(lines) = n /\ file' = file \o lines
      BY <2>1, <2>2
    <3> HIDE DEF lines
    <3>2. file' \in Seq(Events) /\ Len(file') = Len(file) + n
      BY <3>1, Concatenated
    <3>3. n \in Nat /\ Len(buf) \in Nat /\ Len(file) \in Nat
      OBVIOUS
    <3>4. QED
      BY <2>2, <3>2, <3>3
  <2>5. QED
    BY <1>3, <2>2, <2>3, <2>4, Zenon
<1>4. QED
  BY <1>1, <1>2, <1>3, Zenon DEF Flush

\* The received event becomes a line or is counted as dropped.
LEMMA WriteEventSettles ==
    ASSUME SinkTyped, NEW e \in Events, writeEvent(e)
    PROVE  /\ buf' \in Seq(Events) /\ file' \in Seq(Events) /\ dropped' \in Nat
           /\ Len(buf') + Len(file') + dropped' = Len(buf) + Len(file) + dropped + 1
           /\ broken => broken'
<1> USE DEF SinkTyped
<1>1. CASE bumpDropped /\ UNCHANGED writerVars
  BY <1>1 DEF bumpDropped, writerVars
<1>2. CASE buf' = Append(buf, e) /\ UNCHANGED <<broken, file, faults, dropped>>
  BY <1>2
<1>3. CASE file' = file \o buf /\ buf' = <<e>> /\ UNCHANGED <<broken, faults, dropped>>
  BY <1>3
<1>4. CASE ~broken /\ Len(buf) = Buffer /\ WriteFails /\ bumpDropped
  <2>1. buf # <<>>
    BY <1>4, SinkAssumption
  <2>2. Flush
    BY <1>4, <2>1, Zenon DEF Flush
  <2>3. QED
    BY <1>4, <2>2, FlushKeepsLines DEF bumpDropped
<1>5. QED
  BY <1>1, <1>2, <1>3, <1>4, Zenon DEF writeEvent, writerVars

\* Sums of four, regrouped.
LEMMA Regroup ==
    ASSUME NEW q \in Int, NEW b \in Nat, NEW f \in Nat, NEW d \in Nat
    PROVE  q + b + f + d = q + (b + f + d) /\ b + f + d \in Nat
OBVIOUS

\* One step of a producer, the drain goroutine or a closer.
LEMMA SinkInvNext == SinkInv /\ [Next]_vars => SinkInv'
<1> SUFFICES ASSUME SinkInv, [Next]_vars PROVE SinkInv'
  OBVIOUS
<1> USE DEF SinkInv
<1> USE SinkAssumption DEF channels, writerVars, Alive
<1>1. ASSUME NEW ok \in BOOLEAN, NEW interval \in FlushIntervals,
             OpenFileSink(ok, interval)
      PROVE SinkInv'
  <2>1. SinkTyped' /\ Accounted'
    BY <1>1 DEF OpenFileSink, SinkTyped, Accounted
  <2>2. Progressed'
    BY <1>1 DEF OpenFileSink, Progressed
  <2>3. QED
    BY <2>1, <2>2
<1>2. CASE Cancel
  BY <1>2 DEF Cancel, Fault, SinkTyped, Accounted, Progressed
<1>3. ASSUME NEW p \in Producers, emit(p) PROVE SinkInv'
  <2>1. prod' \in [Producers -> [pc : {"idle", "checked"}, calls : Nat]]
    BY <1>3 DEF emit, SinkTyped
  <2>2. QED
    BY <1>3, <2>1 DEF emit, SinkTyped, Accounted, Progressed
<1>4. ASSUME NEW p \in Producers, Record(p) PROVE SinkInv'
  <2>1. /\ prod' \in [Producers -> [pc : {"idle", "checked"}, calls : Nat]]
        /\ UNCHANGED <<signal, sealed, buf, broken, file, drain, closer>>
        /\ sink \notin {"unopened", "panicked"}
    BY <1>4, Zenon DEF Record, Enqueue, Overflow, GiveUp, SendPanics, Recorded, SinkTyped
  <2>2. CASE Enqueue(p)
    <3>1. Event(p) \in Events
      BY DEF Event, Events, SinkTyped
    <3>2. /\ ~sealed /\ queue' = Append(queue, Event(p))
          /\ offered' = offered + 1 /\ UNCHANGED <<sink, dropped>>
      BY <2>2 DEF Enqueue
    <3>3. SinkTyped' /\ Accounted'
      BY <2>1, <3>1, <3>2 DEF SinkTyped, Accounted
    <3>4. QED
      BY <2>1, <3>2, <3>3 DEF Progressed
  <2>3. CASE Overflow(p)
    BY <2>1, <2>3 DEF Overflow, SinkTyped, Accounted, Progressed
  <2>4. CASE GiveUp(p)
    BY <2>1, <2>4 DEF GiveUp, SinkTyped, Accounted, Progressed
  <2>5. CASE SendPanics(p)
    BY <2>1, <2>5 DEF SendPanics, SinkTyped, Accounted, Progressed
  <2>6. QED
    BY <1>4, <2>2, <2>3, <2>4, <2>5 DEF Record
<1>5. CASE Receive
  <2>1. Head(queue) \in Events /\ Len(queue') = Len(queue) - 1 /\ queue' \in Seq(Events)
    BY <1>5 DEF Receive, SinkTyped
  <2>2. /\ buf' \in Seq(Events) /\ file' \in Seq(Events) /\ dropped' \in Nat
        /\ Len(buf') + Len(file') + dropped' = Len(buf) + Len(file) + dropped + 1
        /\ broken => broken'
    BY <1>5, <2>1, WriteEventSettles, Zenon DEF Receive
  <2>3. UNCHANGED <<sink, sealed, prod, drain, closer, offered>> /\ drain # "done"
    BY <1>5 DEF Receive
  <2>4. SinkTyped'
    BY <2>1, <2>2, <2>3 DEF SinkTyped
  <2>5. /\ Len(queue) \in Nat /\ Len(buf) \in Nat /\ Len(file) \in Nat /\ dropped \in Nat
        /\ Len(buf') \in Nat /\ Len(file') \in Nat
    BY <2>4 DEF SinkTyped
  <2>6. Accounted'
    <3> DEFINE q == Len(queue)
    <3> DEFINE r == Len(buf) + Len(file) + dropped
    <3> DEFINE rr == Len(buf') + Len(file') + dropped'
    <3>1. /\ q \in Nat /\ r \in Nat /\ q + r = offered
      BY <2>5, Regroup DEF Accounted
    <3>2. rr = r + 1 /\ Len(queue') = q - 1 /\ offered' = offered
      BY <2>1, <2>2, <2>3
    <3>3. Len(queue') + rr = Len(queue') + Len(buf') + Len(file') + dropped'
      BY <2>2, <2>5, <3>1, <3>2, Regroup
    <3> HIDE DEF q, r, rr, SinkInv
    <3>4. Len(queue') + rr = offered'
      BY <3>1, <3>2
    <3>5. QED
      BY <3>3, <3>4 DEF Accounted
  <2>7. Progressed'
    BY <2>3 DEF Progressed
  <2>8. QED
    BY <2>4, <2>6, <2>7
<1>6. ASSUME Flush, UNCHANGED <<sink, channels, dropped, prod, offered>>
      PROVE  Accounted' /\ (UNCHANGED closer => SinkTyped')
  BY <1>6, FlushKeepsLines, SMTT(40) DEF SinkTyped, Accounted
<1>7. CASE Tick
  BY <1>6, <1>7, FlushKeepsLines DEF Tick, Progressed
<1>8. CASE drainLoop
  BY <1>8 DEF drainLoop, SinkTyped, Accounted, Progressed
<1>9. CASE flushQueueRemainder
  BY <1>6, <1>9, FlushKeepsLines DEF flushQueueRemainder, Progressed
<1>10. ASSUME NEW c \in Closers, NEW from, NEW to \in CloserPcs, Move(c, from, to)
       PROVE  /\ UNCHANGED <<sink, queue, dropped, prod, drain, offered>> /\ Alive
              /\ closer' \in [Closers -> CloserPcs]
              /\ closer[c] = from /\ closer'[c] = to
              /\ \A d \in Closers : d # c => closer'[d] = closer[d]
  BY <1>10 DEF Move, SinkTyped
<1>11. ASSUME NEW c \in Closers,
              Close(c) \/ CloseDisabled(c) \/ SignalClosed(c) \/ SealQueue(c)
       PROVE SinkInv'
  <2>1. PICK to, from : to \in CloserPcs /\ Move(c, from, to)
    BY <1>11, Zenon DEF Close, CloseDisabled, SignalClosed, SealQueue, CloserPcs
  <2>2. /\ UNCHANGED <<buf, broken, file>> /\ (sealed => sealed')
        /\ closer'[c] \in {"flush", "returned"} => sink = "disabled"
    <3>1. CASE Close(c)
      BY <1>10, <3>1 DEF Close, CloserPcs
    <3>2. CASE CloseDisabled(c)
      BY <3>2 DEF CloseDisabled
    <3>3. CASE SignalClosed(c)
      BY <1>10, <3>3 DEF SignalClosed, CloserPcs
    <3>4. CASE SealQueue(c)
      BY <1>10, <3>4 DEF SealQueue, CloserPcs
    <3>5. QED
      BY <1>11, <3>1, <3>2, <3>3, <3>4
  <2>3. QED
    BY <1>10, <2>1, <2>2 DEF SinkTyped, Accounted, Progressed
<1>12. ASSUME NEW c \in Closers, WaitDrained(c) PROVE SinkInv'
  BY <1>10, <1>12 DEF WaitDrained, SinkTyped, Accounted, Progressed, CloserPcs
<1>13. ASSUME NEW c \in Closers, CloseFile(c) PROVE SinkInv'
  <2>1. Move(c, "flush", "returned") /\ Flush /\ UNCHANGED <<signal, sealed>>
    BY <1>13, Zenon DEF CloseFile
  <2>2. /\ UNCHANGED <<sink, queue, dropped, prod, drain, offered>> /\ Alive
        /\ closer' \in [Closers -> CloserPcs] /\ closer[c] = "flush"
        /\ \A d \in Closers : d # c => closer'[d] = closer[d]
    BY <1>10, <2>1 DEF CloserPcs
  <2>3. SinkTyped' /\ Accounted'
    <3>1. /\ buf' \in Seq(Events) /\ file' \in Seq(Events)
          /\ Len(buf') + Len(file') = Len(buf) + Len(file)
      BY <2>1, FlushKeepsLines
    <3>2. SinkTyped'
      BY <2>2, <3>1 DEF SinkTyped
    <3>3. QED
      BY <2>2, <3>1, <3>2 DEF Accounted, SinkTyped
  <2>4. Progressed'
    BY <2>1, <2>2, FlushKeepsLines DEF Progressed
  <2>5. QED
    BY <2>3, <2>4
<1>14. ASSUME NEW c \in Closers, CloseAgain(c) PROVE SinkInv'
  BY <1>10, <1>14 DEF CloseAgain, SinkTyped, Accounted, Progressed, CloserPcs
<1>15. CASE UNCHANGED vars
  BY <1>15 DEF vars, SinkTyped, Accounted, Progressed
<1>16. QED
  BY <1>1, <1>2, <1>3, <1>4, <1>5, <1>7, <1>8, <1>9, <1>11, <1>12, <1>13, <1>14, <1>15
  DEF Next, Closing

\* When Close has returned to one of its callers, nothing is left in the queue
\* and, unless a write failed, every event Record accepted or refused for a
\* full queue is a line of the trace or in the dropped counter.
THEOREM CloseSettlesAll == Spec => []CloseSettles
<1>1. SinkInv => CloseSettles
  BY DEF SinkInv, SinkTyped, Accounted, Progressed, CloseSettles
<1>2. QED
  BY <1>1, SinkInvInit, SinkInvNext, PTL DEF Spec
-----------------------------------------------------------------------------
(* The log stream.                                                         *)

Lines == Nat \X Nat \X {"whole", "torn"}
Seen == got \o out
Pcs == {"new", "invalid", "loop", "open", "scan", "send", "ended", "stopped", "failed",
        "sleep", "done"}

StreamTyped ==
    /\ pc \in Pcs
    /\ logged \in Nat /\ read \in Nat
    /\ session \in [id : Nat, up : BOOLEAN, last : Nat, torn : BOOLEAN]
    /\ line \in Lines /\ out \in Seq(Lines) /\ got \in Seq(Lines)

\* A session is up, and its reader is open, only between Open and CloseReader,
\* which every way to the end of the goroutine passes.
Bracketed ==
    /\ closed => pc = "done"
    /\ reader \/ session.up => pc \in {"scan", "send", "ended", "stopped"}

\* The scanner is not ahead of the log, nor of a session that broke; a line is
\* torn only by the break.
Behind ==
    /\ read <= logged /\ session.last <= logged
    /\ pc \in {"scan", "send"} /\ ~session.up => read <= session.last
    /\ session.torn => ~session.up

\* The newest line the consumer was given, against the scanner: the session
\* that goes on continues right after it, unless it was the torn end of it; a
\* session opened later starts no earlier.
Newest ==
    Seen # <<>> =>
        LET l == Seen[Len(Seen)]
        IN  /\ l[1] <= session.id /\ l[2] <= read
            /\ pc = "scan" /\ l[1] = session.id => l[2] = read
            /\ pc = "scan" /\ l[1] = session.id /\ l[3] = "torn" => ~session.up /\ read = session.last
            /\ pc = "send" => l[2] < read
            /\ pc = "send" /\ l[1] = session.id => l[3] = "whole" /\ l[2] + 1 = read

\* The line in hand is the last one the scanner took.
InHand ==
    pc = "send" =>
        /\ line[1] = session.id /\ line[2] = read
        /\ line[3] = "torn" => ~session.up /\ read = session.last

StreamInv == StreamTyped /\ Bracketed /\ Behind /\ InHand /\ Newest /\ NoGapInSession
-----------------------------------------------------------------------------
\* The consumer moves a line from the channel to what it has: nothing changes
\* in what was given out.
LEMMA Moved ==
    ASSUME NEW S, NEW s \in Seq(S), NEW t \in Seq(S), t # <<>>
    PROVE  Append(s, Head(t)) \o Tail(t) = s \o t
<1>1. /\ Append(s, Head(t)) \o Tail(t) \in Seq(S) /\ s \o t \in Seq(S)
      /\ Len(Append(s, Head(t)) \o Tail(t)) = Len(s \o t)
  OBVIOUS
<1>2. \A i \in 1..Len(s \o t) : (Append(s, Head(t)) \o Tail(t))[i] = (s \o t)[i]
  OBVIOUS
<1>3. QED
  BY <1>1, <1>2, SeqEqual

\* A line that is sent comes after all that was given out.
LEMMA Sent ==
    ASSUME NEW S, NEW s \in Seq(S), NEW t \in Seq(S), NEW e \in S
    PROVE  s \o Append(t, e) = Append(s \o t, e)
<1>1. /\ s \o Append(t, e) \in Seq(S) /\ Append(s \o t, e) \in Seq(S)
      /\ Len(s \o Append(t, e)) = Len(Append(s \o t, e))
  OBVIOUS
<1>2. \A i \in 1..Len(Append(s \o t, e)) : (s \o Append(t, e))[i] = Append(s \o t, e)[i]
  OBVIOUS
<1>3. QED
  BY <1>1, <1>2, SeqEqual

\* Nothing was logged, read or given out.
\* What Append adds is the last element.
LEMMA AppendLast ==
    ASSUME NEW S, NEW s \in Seq(S), NEW e \in S
    PROVE  /\ Len(Append(s, e)) = Len(s) + 1
           /\ Append(s, e) # <<>> /\ Append(s, e)[Len(Append(s, e))] = e
<1>1. Append(s, e) \in Seq(S) /\ Len(Append(s, e)) = Len(s) + 1
  OBVIOUS
<1>2. Append(s, e)[Len(s) + 1] = e
  OBVIOUS
<1>3. Append(s, e) # <<>>
  <2>1. Len(s) \in Nat /\ Len(<<>>) = 0
    OBVIOUS
  <2>2. Len(Append(s, e)) # Len(<<>>)
    BY <1>1, <2>1
  <2>3. QED
    BY <2>2
<1>4. QED
  BY <1>1, <1>2, <1>3

LEMMA StreamInvInit == StreamInit => StreamInv
<1> SUFFICES ASSUME StreamInit PROVE StreamInv
  OBVIOUS
<1>1. Seen = <<>>
  BY DEF StreamInit, Seen
<1>2. StreamTyped
  BY DEF StreamInit, StreamTyped, Pcs, Lines
<1>3. QED
  BY <1>1, <1>2 DEF StreamInit, StreamInv, Bracketed, Behind, InHand, Newest, NoGapInSession, Seen

\* Every step of the goroutine, the host and the consumer keeps the order of
\* the lines and the bracket around a session.
LEMMA StreamInvNext == StreamInv /\ [StreamNext]_streamVars => StreamInv'
<1> SUFFICES ASSUME StreamInv, [StreamNext]_streamVars PROVE StreamInv'
  OBVIOUS
<1> USE DEF StreamInv, remote, scanning, consumer
<1>0. Seen \in Seq(Lines)
  BY DEF Seen, StreamTyped
<1>1. ASSUME UNCHANGED <<got, out>> PROVE UNCHANGED Seen /\ NoGapInSession'
  BY <1>1 DEF Seen, NoGapInSession
<1>2. ASSUME NEW path, Stream(path) PROVE StreamInv'
  <2>1. /\ UNCHANGED <<got, out, logged, session, reader, read, line, closed>>
        /\ pc = "new" /\ pc' \in {"loop", "invalid"}
    BY <1>2, Zenon DEF Stream
  <2>2. QED
    BY <1>1, <2>1 DEF StreamTyped, Pcs, Bracketed, Behind, InHand, Newest
<1>3. CASE runStream \/ OpenFails \/ handleOpenFailure \/ sleepContext
  <2>1. /\ UNCHANGED <<got, out, logged, session, reader, read, line>>
        /\ pc \in {"loop", "open", "failed", "sleep"}
        /\ pc' \in {"open", "failed", "sleep", "loop", "done"}
        /\ closed' => closed \/ pc' = "done"
    BY <1>3, Zenon DEF runStream, OpenFails, handleOpenFailure, sleepContext, Return
  <2>2. QED
    BY <1>1, <2>1 DEF StreamTyped, Pcs, Bracketed, Behind, InHand, Newest
<1>4. CASE Open
  <2>1. /\ UNCHANGED <<got, out, logged, line, closed>>
        /\ session' = [id |-> session.id + 1, up |-> TRUE, last |-> 0, torn |-> FALSE]
        /\ read' = logged /\ pc = "open" /\ pc' = "scan"
    BY <1>4 DEF Open
  <2>2. session.id \in Nat /\ session' \in [id : Nat, up : BOOLEAN, last : Nat, torn : BOOLEAN]
    BY <2>1 DEF StreamTyped
  <2>3. StreamTyped' /\ Bracketed' /\ Behind' /\ InHand'
    BY <2>1, <2>2 DEF StreamTyped, Pcs, Bracketed, Behind, InHand
  <2>4. Newest'
    <3>1. Seen # <<>> => Seen[Len(Seen)][1] <= session.id /\ Seen[Len(Seen)][2] <= read
      BY DEF Newest
    <3>2. Seen # <<>> => Seen[Len(Seen)] \in Lines
      BY <1>0
    <3>3. session'.id = session.id + 1
      BY <2>1
    <3>4. QED
      BY <1>1, <2>1, <2>2, <3>1, <3>2, <3>3 DEF Newest, Behind, StreamTyped, Lines
  <2>5. QED
    BY <1>1, <2>1, <2>3, <2>4
<1>5. CASE Scan
  <2>1. /\ UNCHANGED <<got, out, logged, session, reader, closed>>
        /\ pc = "scan" /\ pc' \in {"send", "stopped"}
        /\ read' = read + 1 /\ line' = <<session.id, read + 1, Form(read + 1)>> /\ read < Printed
    BY <1>5 DEF Scan
  <2>2. read + 1 <= logged /\ session.id \in Nat
    BY <2>1 DEF Printed, Behind, StreamTyped
  <2>3. StreamTyped' /\ Bracketed' /\ Behind' /\ InHand'
    <3>1. /\ Form(read + 1) \in {"whole", "torn"}
          /\ Form(read + 1) = "torn" => ~session.up /\ read + 1 = session.last
      BY DEF Form, Behind
    <3>2. line' \in Lines
      BY <2>1, <2>2, <3>1 DEF StreamTyped, Lines
    <3>3. ~session.up => read + 1 <= session.last
      BY <2>1, <2>2 DEF Printed, StreamTyped
    <3>4. QED
      BY <2>1, <2>2, <3>1, <3>2, <3>3 DEF StreamTyped, Pcs, Bracketed, Behind, InHand
  <2>4. Newest'
    BY <1>0, <1>1, <2>1, <2>2, SMTT(40) DEF Newest, Printed, StreamTyped, Lines
  <2>5. QED
    BY <1>1, <2>1, <2>3, <2>4
<1>6. CASE ScanEnds \/ SendCancelled
  <2>1. /\ UNCHANGED <<got, out, logged, session, reader, read, line, closed>>
        /\ pc \in {"scan", "send"} /\ pc' \in {"stopped", "ended"}
    BY <1>6, Zenon DEF ScanEnds, SendCancelled
  <2>2. QED
    BY <1>1, <2>1 DEF StreamTyped, Pcs, Bracketed, Behind, InHand, Newest
<1>7. CASE Send
  <2>1. /\ UNCHANGED <<got, logged, session, reader, read, line, closed>>
        /\ pc = "send" /\ pc' = "scan" /\ out' = Append(out, line)
    BY <1>7 DEF Send
  <2>2. Seen' = Append(Seen, line) /\ line[1] = session.id /\ line[2] = read
    BY <2>1, Sent DEF Seen, StreamTyped, InHand
  <2>3. StreamTyped' /\ Bracketed' /\ Behind' /\ InHand'
    BY <2>1 DEF StreamTyped, Pcs, Bracketed, Behind, InHand
  <2>4. Newest'
    <3> line \in Lines
      BY DEF StreamTyped
    <3>1. Seen' # <<>> /\ Seen'[Len(Seen')] = line
      BY <1>0, <2>2, AppendLast
    <3>2. QED
      BY <2>1, <2>2, <3>1 DEF Newest, InHand, StreamTyped
  <2>5. NoGapInSession'
    <3> SUFFICES ASSUME NEW i \in 1..(Len(Seen') - 1)
                 PROVE IF Seen'[i][1] = Seen'[i + 1][1] THEN Seen'[i][3] = "whole" /\ Seen'[i + 1][2] = Seen'[i][2] + 1
                       ELSE Seen'[i][2] < Seen'[i + 1][2]
      BY DEF NoGapInSession, Seen
    <3>1. /\ Len(Seen') = Len(Seen) + 1 /\ Seen'[i] = Seen[i]
          /\ i < Len(Seen) => Seen'[i + 1] = Seen[i + 1]
          /\ i = Len(Seen) => Seen'[i + 1] = line
      BY <1>0, <2>2
    <3>2. CASE i < Len(Seen)
      <4>1. i \in 1..(Len(Seen) - 1)
        BY <1>0, <3>1, <3>2
      <4>2. IF Seen[i][1] = Seen[i + 1][1] THEN Seen[i][3] = "whole" /\ Seen[i + 1][2] = Seen[i][2] + 1
            ELSE Seen[i][2] < Seen[i + 1][2]
        BY <4>1, Zenon DEF NoGapInSession, Seen
      <4>3. QED
        BY <3>1, <3>2, <4>2
    <3>3. CASE i = Len(Seen)
      BY <1>0, <2>1, <2>2, <3>1, <3>3 DEF Newest, StreamTyped, Lines
    <3>4. QED
      BY <1>0, <3>1, <3>2, <3>3
  <2>6. QED
    BY <2>3, <2>4, <2>5
<1>8. CASE CloseReader
  <2>1. /\ UNCHANGED <<got, out, logged, read, line>> /\ reader' = FALSE
        /\ session' = [session EXCEPT !.up = FALSE, !.last = read, !.torn = FALSE]
        /\ pc \in {"ended", "stopped"} /\ pc' \in {"done", "failed"}
        /\ closed' => closed \/ pc' = "done"
    BY <1>8, Zenon DEF CloseReader, Return
  <2>2. /\ session' \in [id : Nat, up : BOOLEAN, last : Nat, torn : BOOLEAN]
        /\ session'.id = session.id /\ session'.last = read /\ session'.up = FALSE
        /\ session'.torn = FALSE
    BY <2>1 DEF StreamTyped
  <2>3. StreamTyped' /\ Bracketed' /\ Behind' /\ InHand'
    BY <2>1, <2>2 DEF StreamTyped, Pcs, Bracketed, Behind, InHand
  <2>4. Newest'
    BY <1>1, <2>1, <2>2 DEF Newest
  <2>5. QED
    BY <1>1, <2>1, <2>3, <2>4
<1>9. CASE Log
  <2>1. /\ UNCHANGED <<got, out, pc, session, reader, read, line, closed>>
        /\ logged' = logged + 1
    BY <1>9 DEF Log
  <2>2. QED
    BY <1>1, <2>1 DEF StreamTyped, Bracketed, Behind, InHand, Newest
<1>10. CASE Disconnect
  <2>1. UNCHANGED <<got, out, pc, logged, reader, read, line, closed>> /\ session.up
    BY <1>10 DEF Disconnect
  <2>2. /\ session' \in [id : Nat, up : BOOLEAN, last : Nat, torn : BOOLEAN]
        /\ session'.id = session.id /\ read <= session'.last /\ session'.last <= logged
        /\ session'.up = FALSE
    <3>1. PICK n \in read..logged, torn \in BOOLEAN :
            session' = [session EXCEPT !.up = FALSE, !.last = n, !.torn = torn]
      BY <1>10 DEF Disconnect
    <3>2. n \in Nat /\ read <= n /\ n <= logged
      BY DEF StreamTyped
    <3>3. QED
      BY <3>1, <3>2 DEF StreamTyped
  <2>3. StreamTyped' /\ Bracketed' /\ Behind' /\ InHand'
    BY <2>1, <2>2 DEF StreamTyped, Bracketed, Behind, InHand
  <2>4. Newest'
    BY <1>1, <2>1, <2>2 DEF Newest
  <2>5. QED
    BY <1>1, <2>1, <2>3, <2>4
<1>11. CASE Consume
  <2>1. /\ UNCHANGED <<pc, logged, session, reader, read, line, closed>> /\ out # <<>>
        /\ got' = Append(got, Head(out)) /\ out' = Tail(out)
    BY <1>11 DEF Consume
  <2>2. UNCHANGED Seen
    BY <2>1, Moved DEF Seen, StreamTyped
  <2>3. Head(out) \in Lines /\ out' \in Seq(Lines)
    BY <2>1 DEF StreamTyped
  <2>4. got' \in Seq(Lines)
    BY <2>1, <2>3 DEF StreamTyped
  <2>5. StreamTyped'
    BY <2>1, <2>3, <2>4 DEF StreamTyped
  <2>6. QED
    BY <2>1, <2>2, <2>5 DEF Bracketed, Behind, InHand, Newest, NoGapInSession, Seen
<1>12. CASE StopWatching \/ CancelStream \/ UNCHANGED streamVars
  <2>1. UNCHANGED <<got, out, pc, logged, session, reader, read, line, closed>>
    BY <1>12, Zenon DEF StopWatching, CancelStream, streamVars
  <2>2. QED
    BY <1>1, <2>1 DEF StreamTyped, Bracketed, Behind, InHand, Newest
<1>13. QED
  BY <1>2, <1>3, <1>4, <1>5, <1>6, <1>7, <1>8, <1>9, <1>10, <1>11, <1>12 DEF StreamNext, Streamer

\* However slowly the consumer reads and whenever the session breaks, the lines
\* of one session are consecutive and a later session shows none of them again.
THEOREM NoGapNoRepeat == StreamSpec => []NoGapInSession
<1>1. StreamInv => NoGapInSession
  BY DEF StreamInv
<1>2. QED
  BY <1>1, StreamInvInit, StreamInvNext, PTL DEF StreamSpec

\* When the channel is closed the remote tail is gone and its reader closed.
THEOREM NothingLeftOnHost == StreamSpec => []NoSessionLeft
<1>1. StreamInv => NoSessionLeft
  BY DEF StreamInv, Bracketed, NoSessionLeft
<1>2. QED
  BY <1>1, StreamInvInit, StreamInvNext, PTL DEF StreamSpec
=============================================================================
