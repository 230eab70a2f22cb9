CONSTANTS
    a = a
    b = b
    End = {a, b}
    Versions = {20, 38, 45}
    Script <- MCScript
    Word = 2
    Cheap = 4
    Far = 6
    BulkFlush = 7
    Faults = TRUE
SPECIFICATION Spec
INVARIANT TypeOK
INVARIANT VersionsAgree
INVARIANT ReadAsWritten
INVARIANT NoStall
INVARIANT WireAgrees
PROPERTY Fifo
CHECK_DEADLOCK FALSE
