SPECIFICATION FairSpec
CONSTANTS
    t1 = t1
    t2 = t2
    t3 = t3
    NULL = NULL
    Thread <- ThreeThreads
    Amount <- Amounts
    Initial = 2
    MaxCalls = 1
INVARIANTS
    MutualExclusion
PROPERTIES
    ImplementsAtomic
    CallsReturn
