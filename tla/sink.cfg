\* Two producers of two events, a queue of two, a buffer of one line, no
\* interval or one of five, two callers of Close and two faults.  The process may
\* end.
CONSTANTS
    Producers = {"update", "ssh"}
    Closers = {"main", "cleanup"}
    MaxEvents = 2
    Queue = 2
    FlushIntervals <- Intervals
    Buffer = 1
    MaxFaults = 2
SPECIFICATION Spec
INVARIANT CloseSettles
PROPERTIES CloseReturns 
CHECK_DEADLOCK FALSE
