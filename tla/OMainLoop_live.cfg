SPECIFICATION FairSpec
CONSTANTS
    NFd = 2
    PollMax = 2
    c1 = c1
    c2 = c2
    NULL = NULL
    Handler <- OneCallback
    Masks <- MasksInOut
    IoEvents <- EventsInHup
    TimerTypes <- AllTypes
    CloseOthers = FALSE
PROPERTIES
    RoundEnds
    ReadyIsServed
