SPECIFICATION Spec
CONSTANTS
    a1 = a1
    a2 = a2
    a3 = a3
    a4 = a4
    x = x
    y = y
    NULL = NULL
    Addr <- MCAddr
    Value <- MCValue
    ReuseHeld = FALSE
INVARIANTS
    DoublyLinked
    NoLeakNoDangling
PROPERTIES
    ImplementsSeq
