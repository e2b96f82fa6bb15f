SPECIFICATION BSpec
CONSTANTS
    h = h
    t = t
    x = x
    NUL = NUL
    Byte <- MCByte
    HeadMark <- MCHead
    TailMark <- MCTail
    Requests <- AnySize
    DefaultSize = 3
    MaxChunk = 3
    MaxN = 2
    Callers <- Careful
INVARIANTS
    BTypeOK
PROPERTIES
    ImplementsFifo
    CallsMatch
