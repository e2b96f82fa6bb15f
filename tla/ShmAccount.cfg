SPECIFICATION FairSpec
CONSTANTS
    p1 = p1
    p2 = p2
    p3 = p3
    NULL = NULL
    Proc <- ThreeProcs
    Amount <- Amounts
    Initial = 2
    MaxCalls = 1
INVARIANTS
    MutualExclusion
PROPERTIES
    ImplementsAtomic
    CallsReturn
