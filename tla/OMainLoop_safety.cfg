SPECIFICATION Spec
CONSTANTS
    NFd = 2
    PollMax = 2
    c1 = c1
    c2 = c2
    NULL = NULL
    Handler <- TwoOrNull
    Masks <- MasksIn
    IoEvents <- EventsIn
    TimerTypes <- AllTypes
    CloseOthers = FALSE
SYMMETRY Symmetry
INVARIANTS
    UniqueRegistration
    PollFdsFit
    ReadNeverBlocks
PROPERTIES
    RunsRegisteredCallback
    NoStaleDelivery
