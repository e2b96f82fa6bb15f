SPECIFICATION FairSpec
CONSTANTS
    g1 = g1
    g2 = g2
    NULL = NULL
CHECK_DEADLOCK FALSE
INVARIANTS
    HTypeOK
    ReadsWhatWasWritten
PROPERTIES
    TurnsAlternate
    WhoIsLeft
