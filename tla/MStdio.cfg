SPECIFICATION Spec
CONSTANTS
    a = a
    b = b
    nl = nl
    ff = ff
    Byte <- Bytes
    NL = nl
    FF = ff
    Unset = Unset
    BUFFER_LEN = 2
    Content <- Contents
    Text <- Texts
    MaxSize = 3
    MaxPut = 4
    MaxFile = 6
CHECK_DEADLOCK FALSE
INVARIANTS
    PositionFits
PROPERTIES
    ImplementsStream
    LinesAreWritten
