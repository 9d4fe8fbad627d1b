----------------------------- MODULE TailStream -----------------------------
(***************************************************************************)
(* Package services/sshtail: one live log stream.  A goroutine opens       *)
(* "tail -n 0 -f" on the host, copies its lines into a bounded channel and *)
(* opens it again when the session ends, until the caller's context is     *)
(* done or the backoff schedule is used up.  The counter of attempts is    *)
(* not reset by a session that worked.                                     *)
(*                                                                         *)
(* A line is the session that read it, its number in the log and whether   *)
(* it is whole: of a session that breaks the scanner gives out the         *)
(* unterminated rest too.  Redaction and the level of a line are left out. *)
(***************************************************************************)
EXTENDS Integers, Sequences

CONSTANTS
    Options,   \* what New may be given: [buffer, delays], the length of the schedule
    Defaults,  \* defaultChannelBuffer and the length of the default schedule
    MaxLines   \* bound: lines the remote program logs

ASSUME TailAssumption ==
    /\ MaxLines \in Nat /\ Options \subseteq [buffer : Int, delays : Nat]
    /\ Defaults \in [buffer : Nat \ {0}, delays : Nat \ {0}]

VARIABLES
    opts,       \* the streamer's options
    pc,         \* where the goroutine is
    attempt,
    logged,     \* lines in the remote log
    session,    \* the remote tail: its number, whether it is up, the last line it
                \* sent and whether the break tore that line
    reader,     \* the reader Open gave is open
    read,       \* lines the scanner has taken
    line,       \* the line in hand
    out,        \* the channel
    closed,     \* the channel is closed
    got,        \* what the consumer received
    watching,   \* the consumer still reads
    ctxDone   \* the context is done

streamVars == <<opts, pc, attempt, logged, session, reader, read, line, out, closed, got, watching, ctxDone>>
remote == <<logged, session>>
consumer == <<got, watching, ctxDone, opts>>
scanning == <<read, line>>
-----------------------------------------------------------------------------
New(o) ==
    [buffer |-> IF o.buffer <= 0 THEN Defaults.buffer ELSE o.buffer,
     delays |-> IF o.delays = 0 THEN Defaults.delays ELSE o.delays]

StreamInit ==
    /\ opts \in {New(o) : o \in Options} /\ pc = "new" /\ attempt = 0 /\ logged = 0
    /\ session = [id |-> 0, up |-> FALSE, last |-> 0, torn |-> FALSE] /\ reader = FALSE
    /\ read = 0 /\ line = <<0, 0, "whole">> /\ out = <<>> /\ closed = FALSE
    /\ got = <<>> /\ watching = TRUE /\ ctxDone = FALSE

\* Empty, with a control character, or with "..": no stream.
validateLogPath(path) == path \notin {"", "control", "dots"}

Stream(path) ==
    /\ pc = "new"
    /\ pc' = IF validateLogPath(path) THEN "loop" ELSE "invalid"
    /\ UNCHANGED <<attempt, remote, reader, scanning, out, closed, consumer>>

\* Deferred: the channel is closed when the goroutine ends.
Return == pc' = "done" /\ closed' = TRUE

runStream ==
    /\ pc = "loop"
    /\ IF ctxDone THEN Return ELSE pc' = "open" /\ UNCHANGED closed
    /\ UNCHANGED <<attempt, remote, reader, scanning, out, consumer>>

Open ==
    /\ pc = "open" /\ ~ctxDone
    /\ session' = [id |-> session.id + 1, up |-> TRUE, last |-> 0, torn |-> FALSE]
    /\ reader' = TRUE /\ read' = logged /\ pc' = "scan"
    /\ UNCHANGED <<attempt, logged, line, out, closed, consumer>>

\* Also the answer to a done context.
OpenFails ==
    /\ pc = "open" /\ pc' = "failed"
    /\ UNCHANGED <<attempt, remote, reader, scanning, out, closed, consumer>>
-----------------------------------------------------------------------------
(* copyLines.                                                              *)

\* What the session has to read.
Printed == IF session.up THEN logged ELSE session.last
Form(n) == IF session.torn /\ n = session.last THEN "torn" ELSE "whole"

\* A line, or what there is of the last one; then the look at the context.
Scan ==
    /\ pc = "scan" /\ read < Printed
    /\ read' = read + 1 /\ line' = <<session.id, read + 1, Form(read + 1)>>
    /\ pc' = IF ctxDone THEN "stopped" ELSE "send"
    /\ UNCHANGED <<attempt, remote, reader, out, closed, consumer>>

\* The session ends or is closed by the executor for a done context, or a
\* line is longer than the scanner's limit.
ScanEnds ==
    /\ pc = "scan" /\ ((~session.up /\ read = Printed) \/ ctxDone \/ read < Printed)
    /\ pc' = IF ctxDone THEN "stopped" ELSE "ended"
    /\ UNCHANGED <<attempt, remote, reader, scanning, out, closed, consumer>>

\* Mutant: a full channel drops the line.
Send_Drops ==
    /\ pc = "send" /\ pc' = "scan"
    /\ out' = IF Len(out) < opts.buffer THEN Append(out, line) ELSE out
    /\ UNCHANGED <<attempt, remote, reader, scanning, closed, consumer>>

Send ==
    /\ pc = "send" /\ Len(out) < opts.buffer
    /\ out' = Append(out, line) /\ pc' = "scan"
    /\ UNCHANGED <<attempt, remote, reader, scanning, closed, consumer>>

\* Mutant: the send does not look at the context.
SendCancelled_Never == FALSE /\ UNCHANGED streamVars

SendCancelled ==
    /\ pc = "send" /\ ctxDone /\ pc' = "stopped"
    /\ UNCHANGED <<attempt, remote, reader, scanning, out, closed, consumer>>

\* Mutant: a ctxDone stream returns before it closes the reader.
CloseReader_NotWhenStopped ==
    \/ /\ pc = "ended" /\ reader' = FALSE /\ session' = [session EXCEPT !.up = FALSE, !.last = read, !.torn = FALSE]
       /\ pc' = "failed"
       /\ UNCHANGED <<attempt, logged, scanning, out, closed, consumer>>
    \/ /\ pc = "stopped" /\ Return
       /\ UNCHANGED <<attempt, remote, reader, scanning, out, consumer>>

CloseReader ==
    /\ pc \in {"ended", "stopped"} /\ reader' = FALSE
    /\ session' = [session EXCEPT !.up = FALSE, !.last = read, !.torn = FALSE]
    /\ IF pc = "stopped" THEN Return ELSE pc' = "failed" /\ UNCHANGED closed
    /\ UNCHANGED <<attempt, logged, scanning, out, consumer>>

handleOpenFailure ==
    /\ pc = "failed"
    /\ IF attempt >= opts.delays THEN Return ELSE pc' = "sleep" /\ UNCHANGED closed
    /\ UNCHANGED <<attempt, remote, reader, scanning, out, consumer>>

\* The timer, or the context before it; a context done by then ends it too.
sleepContext ==
    /\ pc = "sleep"
    /\ IF ctxDone THEN Return /\ UNCHANGED attempt
       ELSE pc' = "loop" /\ attempt' = attempt + 1 /\ UNCHANGED closed
    /\ UNCHANGED <<remote, reader, scanning, out, consumer>>
-----------------------------------------------------------------------------
(* The host and the consumer.                                              *)

Log ==
    /\ logged < MaxLines /\ logged' = logged + 1
    /\ UNCHANGED <<pc, attempt, session, reader, scanning, out, closed, consumer>>

\* What the host still had to send is lost, from a line's end or from its
\* middle on.
Disconnect ==
    /\ session.up
    /\ \E n \in read..logged : \E torn \in {FALSE, n # read} :
          session' = [session EXCEPT !.up = FALSE, !.last = n, !.torn = torn]
    /\ UNCHANGED <<pc, attempt, logged, reader, scanning, out, closed, consumer>>

Consume ==
    /\ watching /\ out # <<>>
    /\ got' = Append(got, Head(out)) /\ out' = Tail(out)
    /\ UNCHANGED <<pc, attempt, remote, reader, scanning, closed, watching, ctxDone, opts>>

\* The consumer leaves: it reads no more, and cancels now or later.
StopWatching ==
    /\ watching /\ watching' = FALSE
    /\ UNCHANGED <<pc, attempt, remote, reader, scanning, out, closed, got, ctxDone, opts>>

CancelStream ==
    /\ ~ctxDone /\ ctxDone' = TRUE
    /\ UNCHANGED <<pc, attempt, remote, reader, scanning, out, closed, got, watching, opts>>

Streamer ==
    \/ runStream \/ Open \/ OpenFails \/ Scan \/ ScanEnds \/ Send \/ SendCancelled \/ CloseReader
    \/ handleOpenFailure \/ sleepContext

StreamNext ==
    \/ \E path \in {"", "control", "dots", "log"} : Stream(path)
    \/ Streamer \/ Log \/ Disconnect \/ Consume \/ StopWatching \/ CancelStream

\* The goroutine runs whenever it can; the host and the consumer owe nothing.
StreamSpec == StreamInit /\ [][StreamNext]_streamVars /\ WF_streamVars(Streamer)
-----------------------------------------------------------------------------
\* What the consumer sees of one session is a gapless run of the log, however
\* slowly it reads, and only its last line may be torn; a later session never
\* shows a line again.
NoGapInSession ==
    LET seen == got \o out
    IN \A i \in 1..(Len(seen) - 1) :
          IF seen[i][1] = seen[i + 1][1] THEN seen[i][3] = "whole" /\ seen[i + 1][2] = seen[i][2] + 1
          ELSE seen[i][2] < seen[i + 1][2]

\* A closed channel means that nothing is left on the host: the reader of the
\* last session is closed, after a cancellation too.
NoSessionLeft == closed => ~reader /\ ~session.up

\* Once its context is done the stream ends, although nobody reads the
\* channel, the host is silent or a backoff is running.
EndsAfterCancel == (ctxDone /\ pc \notin {"new", "invalid"}) ~> closed
=============================================================================
