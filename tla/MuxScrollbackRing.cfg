SPECIFICATION RingSpec
CONSTANTS
    Capacity = 4
    MaxChunk = 6
    MaxWritten = 9
INVARIANTS
    KeepsTheTail
    ReplaysWholeLines
\* The program stops writing.
CHECK_DEADLOCK FALSE
