\* The default schedule of three delays, a channel of two lines (or one delay
\* and one line) and a log of five.  A stream ends.
CONSTANTS
    Options <- Given
    Defaults <- Standard
    MaxLines = 5
SPECIFICATION StreamSpec
INVARIANTS NoGapInSession NoSessionLeft
PROPERTY EndsAfterCancel
CHECK_DEADLOCK FALSE
