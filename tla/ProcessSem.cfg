SPECIFICATION FairSpec
CONSTANTS
    p1 = p1
    p2 = p2
    p3 = p3
    NULL = NULL
    Proc <- ThreeProcs
    Opener <- OpenOnce
    SemNum <- TwoSems
    init_value = 1
    MaxWaits = 2
    Deletes = TRUE
INVARIANTS
    ValueIsExact
PROPERTIES
    WaitersEnter
