\* ReadFrom on a buffer that has been partly read and has MinRead free
\* at the end: the unread bytes are lost.
CONSTANTS
    Bootstrap = 2
    MinRead = 3
    UTFMax = 4
    MaxBytes = 5
    MaxChunk = 2
    MaxInit = 1
    MaxInitCap = 4
    ReadFromAfterPartialRead = TRUE
SPECIFICATION Spec
PROPERTIES
    BufferRefinesQueue
